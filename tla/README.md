# Verification of certval-stores

TLA+ models of the programs that keep this repository's trust stores current, TLC configurations
that check them on small instances, and TLAPS proofs of the properties that matter most for every
instance. Paths are relative to the repository root; `gen/` abbreviates `certval-store-gen/src/`.

1. [The system](#1-the-system): its parts, their state, how they meet, what is hard
2. [The modules](#2-the-modules) and how they correspond to the code
3. [The runs](#3-the-runs): what TLC checks, with which bounds and what fairness
4. [The proofs](#4-the-proofs): what is proved, from which assumptions, and what is not
5. [Where the code and its comments disagree](#5-where-the-code-and-its-comments-disagree)
6. [What is not modelled](#6-what-is-not-modelled)
7. [What is left](#7-what-is-left)

To check a run: `tlc -config X.cfg M` in this directory, with the module and the configuration of
the table in section 3. To check the proofs: `tlapm M_proofs.tla`.

## 1. The system

Every provider crate commits its trust anchors and CA certificates. A *store* (`cas/*/*.cbor`) is
generated from committed *inputs* and dates; nothing is fetched when a consumer builds. The
generator fetches, judges what it fetched, writes the crate's files in place one after another, and
a workflow turns what moved into a pull request. A crate's tests then ask one question above all:
is the committed store what regenerating from the committed input yields?

The programs are sequential. What makes them hard is that they run again and again over files that
earlier runs left, against publishers who lie, lag and fall silent, that any write may be the last
one before the process dies, and that runs, reviews and merges of one repository overlap.

### Components

| Component | Code | State it keeps | Operations |
|---|---|---|---|
| Mesh walk | `gen/crawl.rs` | a queue of URIs, the sets of URIs and certificates seen, `Crawled` | `from_anchors_with`, `fetch_with_retries`, `newest_copy` |
| FPKI refresh | `gen/fpki_refresh.rs` | `inputs/crawl/`, `collected.txt`, `dropped.txt`, `fpki.cbor` | `refresh_crate`, `unchanged`, `write_bundles`, `regenerate_from` |
| TPM refresh | `gen/tpm_refresh.rs`, `adapters/tpm.rs`, `cab.rs` | `inputs/TrustedTpm.cab`, roots, `tpm.cbor`, four provenance files | `refresh_with`, `regenerate_committed`, `is_current` |
| Authroot refresh | `gen/authroot_refresh.rs`, `adapters/authroot.rs` | the list's cabinet, roots and an index per EKU, sequence number, dates, validator of the conditional GET | `refresh`, `fetch_certificates`, `write_material` |
| Stream refresh | `gen/refresh.rs`, `.github/workflows/refresh.yml` | the committed `.ir4` streams and issued-by bundles | `stream`, regeneration, pull request |
| Layout writer | `gen/provider.rs` | `roots/`, `cas/`, `provenance/`, `src/roots_*.rs` | `write`, `write_der_dir`, `write_provenance` |
| Store generation | `gen/core.rs` | none between calls | `generate`, `prune_unrooted`, `prune_unvalidated` |
| Verification | `gen/verify.rs`, `timestamp.rs`, `adapters/tamp.rs` | none between calls | `verify_streams`, `chain_to`, `verified_gen_time` |
| Readers | `gen/ingest.rs`, other adapters | none | `certs_from_bytes`, `drop_self_signed`, `merge_extras` |
| Review | `.github/scripts/refresh-pr.sh`, `ci.yml` | branches, pull requests, comments | push, open, check, merge |
| Conformance checks | `certval_stores_core/src/conformance.rs`, the crates' tests | pinned counts and digests | `conformance_failures`, `check_providers_compose` |
| Consumer library | `certval_stores_core/src/lib.rs` | a caller's `PkiEnvironment` or client | `prepare_certval_environment`, `serialize_environment`, `get_reqwest_client` |
| Provider API | `certval_stores_provider_core/src/lib.rs` | static tables | `StoreEntry`, `Date::parse` |
| Provider crates, command line | `certval_stores_*/`, `gen/main.rs`, ... | generated tables | embedding, reports |

### How they meet

- The FPKI refresh calls the walk with a fallback that reads the *committed* copy of a bundle
  through `path_for`; the walk never sees a file. What the walk returns decides whether anything is
  written. `regenerate_from` reads the files, never the walk.
- The TPM refresh, the stream environments and the Microsoft list all go through `provider::write`
  or its parts, in their own order. The last file written is what the next run compares with.
- `generate` is a function of certificates and a date of interest. The date is committed beside
  the inputs, so that a regeneration on another day yields the same store.
- A stream is verified three times by three programs: when it is fetched and when it is regenerated
  from, with timestamp responders asked, and in the crate's tests, where none may be.
- The workflows start from a checkout, run a refresh, and push what `git status` reports. A person
  reviews it. A maintainer may also run a refresh in a tree that an earlier run left.
- A consumer gets entries from any number of provider crates, each checked by its own tests and all
  of them by a composition test, in one environment.

### What is hard, and what correct means

*The walk.* The mesh is cyclic, hosts are down, several servers behind one name hold different
copies, and two limits may stop the walk. Correct: a walk no limit stopped has asked exactly the
repositories that its bundles lead to; silence never removes anything; the certificates are those
of the bundles, so the committed bundles reproduce the store; it ends.

*The refreshes.* Dying between two writes; reporting "current" over files that are not of one run;
keeping a date that no longer goes with its material, or moving it when nothing moved; rolling back
to an older release; never taking a reissue that keeps its date; a validator that belongs to another
transfer than the list; keeping a store that regenerating would not produce. Correct: what is
reported current, regenerated or merged is reproducible from the inputs beside it; inputs never step
back; a refresh that is run again catches up.

*Review.* Two workflow runs, or a run and a reviewer's push, between the look for an open pull
request and the forced push; a stream that verified when it was fetched and does not when it is
regenerated from, tested or merged. Correct: what is merged is of one edition throughout, and passes
its tests without a network on every later day that its streams hold.

*Stores and consumers.* Pruning can strand what it keeps; a store that serves alone may not serve
beside another, because a key identifier that stands for two keys disables both anchors; the same
entry reaches consumers as an environment, as two files and as a TLS client. Correct: a finished run
passes its tests; what one store yields alone it yields beside the others; an environment holds
every matching entry or is not touched at all; nothing that ships changes without a pinned constant
changing.

`PROJECT.json` lists every hazard at its line, with the properties that would catch it, or why none
does.

## 2. The modules

```
Mesh ── MeshWalk (abstract)               CommittedStore (abstract)
  │        ▲ implements            ▲            ▲            ▲            ▲  implement
  ├── MeshCrawl                    │            │            │            │
  └── FpkiRefresh ─────────────────┘       TpmRefresh  AuthrootRefresh  StreamRefresh
                                                                          │ extends
                                                                     StreamVerify

CertPaths ── Stores ── Conformance ── ProviderStore     (each extends the one before)
```

`MC*` modules give the constants small values. The proofs are in `MeshCrawl_proofs`,
`FpkiRefresh_proofs`, `TpmRefresh_proofs`, `AuthrootRefresh_proofs`, `StreamRefresh_proofs`,
`CertPaths_proofs`, `Conformance_proofs` and `ProviderStore_proofs`, the last of which extends the
two before it. `PROJECT.json` ("map") names for each definition the lines it stands for.

**Mesh.** Certificates name repositories (SIA and AIA URIs), repositories serve bundles, bundles
hold certificates and junk. A bundle is a model value. `Reachable(folder)` is the least set of
repositories closed under the links of the bundles held for them: what the queue computes, said
without a queue.

**MeshWalk.** The abstract walk: a known repository that has no answer yet gets one (a bundle, a
refusal, or, if no earlier walk kept a copy, silence), and the walk is complete when none is left.

**MeshCrawl.** `from_anchors_with`, one action per branch of the loop body. `pc` is the place in
the loop: `next` (the limit test and the next URI), `fetch` (`fetch_with_retries`, one attempt per
step), `sample` (`newest_copy`, one further fetch per step), `read` and `certs` (the certificates of
the bundle in hand, in any order). `queue` and `head` are the code's; `certificates`, `fetched`,
`absent`, `unreachable`, `fellBack`, `disagreed`, `truncated` and `bundles` are the fields of
`Crawled`. The network answers each request afresh with any copy in `Serves`, a 4xx, or nothing.

**FpkiRefresh.** `head` is what is committed and `tree` the working tree. A run starts from `Base`
(`head` after a checkout, `tree` otherwise), walks once, and returns early (`RunTruncated`,
`RunRefused`, `RunCurrent`) or goes on to write: `RemoveFile` (any order, as `remove_dir_all`),
`WriteBundle`, `WriteCollected`, `WriteStore`, `WriteDropped`. `RunDies` may end it before any of
them. `RunFromCommitted` is `--from-committed`. The walk is one step here: it holds the bundles of
exactly the repositories they lead to, which `MeshCrawl_proofs!WalkIsExact` proves of the queue.
`path_for` is any map from URIs to paths or a refusal, so it may send two URIs to one file.
`Validated` is the set of certificates that a path of certificates valid on the walk date joins to
the anchor; that two prunings over partial paths leave a settled set is `CertPaths`.

**TpmRefresh.** The same shape for one cabinet. `pc` names the write the run is at, in the order of
`refresh_with` and `provider::write`: reference date, roots (cleared, then written), store,
publication date, collection date, dropped list, and the cabinet last (`src/roots_tpm.rs`, which
`write` derives from the roots it has just written, is part of `WriteRoots`). `RunUnvouched`,
`RunUndated`, `RunOlder` and `RunCurrent` are its early returns. Microsoft releases cabinets in
order, may reissue one without moving its date, and mirrors may serve any earlier release.
`WriteStore` leaves the file it finds when `generate` made no store, as `provider::write` does.

**AuthrootRefresh.** `refresh` of the Microsoft list. A transfer is a cabinet and the server's
`Last-Modified`; `RunNotModified`, `RunUnusable`, `RunReplayed`, `RunCommittedUnreadable` and
`RunSame` are the early returns, in the order of the code, and `RunTaken` asks for the certificates.
`FetchPass` is one pass of `fetch_certificates` over what has not answered yet, with any answer per
entry: bytes, which need not be those listed, a 4xx, or silence. The writes follow in the code's
order: `ClearRoots`, then `WriteRoots` and `WriteIndex` per environment, `WriteCab`, the dates, the
sequence number and the validator; a run may die before each, and a cabinet may be cut short
(`Torn`). A purpose is judged by `Grants`, a retirement by `Retired`, both as of the day the list
states. A crate may start empty, or with material from before cabinets were committed (`Legacy`).

**StreamVerify.** What makes a stream trust material: one signer, found as `find_signer` finds it, a
path to a pinned root as of the time a timestamp establishes, revocation stapled (the first response
about a certificate is the one that counts), and a timestamp whose own authority is judged as of
today, its status by a responder if the caller may ask one. `Inputs` is what `adapters/tamp.rs` reads
from a stream that holds: roots of the population, the CAs that chain to them by name, and the
published date.

**StreamRefresh.** The `refresh-streams` job with the review behind it. A run checks out `head`,
asks each channel once (`Fetch` is `refresh::stream`: the fetched stream and the held one are
verified, each at its own moment), fetches each bundle, and, if an input moved, regenerates one
environment after another, each verifying its stream again. `ScriptStarts` hands what it made to
`refresh-pr.sh`, where any number of runs (`Runners`) may be at once, each at a step of its own: it
looks for an open pull request and stops (`FindsOpen`) or goes on (`FindsNone`), forces the push
(`PushForced`) and opens a pull request (`Create`). Between any two steps another run may take one of
its own, and a reviewer may pin, merge or close what is open. `behind` says that something was merged
since a run checked out, and `conflict` that the branch starts from what is not committed any more;
`beside` counts the runs that started while another was under way. `Mergeable` is CI: the job that
verifies the committed streams, which asks responders, and the crate's tests, which do not.

Two runs share the repository and nothing else, and a run turns to it twice: when it checks out, and
in the script. What it fetches and generates in between changes its own tree only, so these steps
can be moved before any step of another run. The model therefore takes one run from its checkout to
the script before the next checks out, and lets runs stay at any step of the script for as long as
they like. Merges of other runs do fall between a run's own steps; a run overtaken by one is left
`behind`, and its proposal conflicts whatever it fetched.

**CommittedStore.** What all four refreshes promise, with walks, writes, crashes and reviews left
out: a commit replaces input and store together, the store is what the input generates, and the new
input is one that may follow the old. For the FPKI, the walk date never moves alone; for the TPM
cabinet, the publication date never steps back and the signature was accepted; for the Microsoft
list, neither the date nor the sequence number steps back; for a stream, its successor is a later
published edition, or it ceased to verify.

**CertPaths.** Certificates with names, key identifiers, keys, a signature and a validity; which
anchors certval can use; partial paths (`find_all_partial_paths`), paths to a target and their
validation; and the two prunings of `core.rs`.

**Stores.** Stores as rows of partial paths filed by key identifier, entries, and what
`certval_stores_core` makes of entries: `Prepare`, `Serialize` and `LoadBack`, `ClientTrusts`. What a
loop over certificates leaves is said by positions, not by a fold: `Distinct` is the sequence at the
positions where a certificate comes first (`Firsts`), `Selected` the elements at a set of positions.

**Conformance.** Every check of `conformance.rs` as a predicate on entries or on the files beside
them, and `check_providers_compose`.

**ProviderStore.** One environment of a crate of one of three kinds: `stream`, `cabinet` and `walk`
crates write different files in different orders (`Order`). A run works in the tree the last one
left or in a checkout, writes file by file, and may die between two writes; the crate's own tests
judge the result (`Passes`); a person updates the pinned constants and merges; a consumer prepares
environments from the merged entries and another provider's. `Minted` is `push_unique`: a certificate
once, under its label, or with its serial number behind it if an earlier one has that label.
`WriteAll` is a loop of `fs::write`: of the files of one name the last is left. `Keeps` is what each
kind of crate lets through to `generate`.

### Abstractions

Order is kept where the code fixes it (the queue, the writes) and left open where it does not (the
entries of a bundle, `remove_dir_all`). Days are small numbers; a date file that is missing reads
`NoDate`. In the refresh modules a store is the set of its intermediates, and an empty set stands
for no file, because `generate`'s empty store is never written; `Stores` has the rows and buffers.
A certificate stands for its bytes; what a signature or a path validates is data.

### Definitions marked "Wrong version"

Beside some definitions stands a second form with one plausible mistake: a dropped guard, a date
taken from the wrong place, a write moved. Nothing uses them. Each shows that the property named
beside it in `PROJECT.json` ("mutants") is not true by construction: with that form in place of the
right one, TLC finds the property violated in the same run.

## 3. The runs

| Run | Module, configuration | Checks | Expected |
|---|---|---|---|
| `crawl` | MCMeshCrawl, MeshCrawl | `TypeOK`, `ExactWalk`, `SameCertificates`, `OnlyAnAnswerRemoves`, `LimitsHold`, `Terminates`, `ImplementsWalk` | pass |
| `fpki_checkout` | MCFpkiRefresh, FpkiRefresh_checkout | `TypeOK`, `StoreReproduces`, `DroppedListsTheRest`, `CommittedIsAWalk`, `SilenceCostsNothing`, `SecondRunIsCurrent`, `RefusedBeforeWriting`, `ImplementsCommittedStore` | pass |
| `fpki_stale` | MCFpkiRefresh, FpkiRefresh_stale | `StoreReproduces` | violated |
| `fpki_shared` | MCFpkiRefresh, FpkiRefresh_shared | `SecondRunIsCurrent` | violated |
| `tpm_taken` | MCTpmRefresh, TpmRefresh_taken | `TypeOK`, `StoreMatchesCabinet`, `ReissueIsTaken`, `CollectedByFetching`, `CatchesUp`, `ImplementsCommittedStore` | pass |
| `tpm_emptied` | MCTpmRefresh, TpmRefresh_emptied | `StoreMatchesCabinet` | violated |
| `authroot_served` | MCAuthrootRefresh, AuthrootRefresh_served | `TypeOK`, `MaterialMatchesCabinet`, `NotModifiedMissesNothing`, `NothingDeletedUntilAllArrived`, `CatchesUp`, `ImplementsCommittedStore` | pass |
| `authroot_unmatched` | MCAuthrootRefresh, AuthrootRefresh_unmatched | `UnmatchedLeavesMaterial` | violated |
| `streams_merged` | MCStreamRefresh, StreamRefresh_merged | `TypeOK`, `HoldsOffline`, `ImplementsCommittedStore`, `ReviewKeepsItsBranch`, `CatchesUp` | pass |
| `streams_rollback` | MCStreamRefresh, StreamRefresh_rollback | `NoRollback` | violated |
| `stores_written` | MCProviderStore, ProviderStore_written | `TypeOK`, `CompleteRunPasses`, `WalkStoreIsSettled`, `EnvironmentHoldsWholeStores`, `PreparedPathsBuild`, `OneStoreThreeWays`, `ReviewSeesEveryCaChange` | pass |
| `stores_roots` | MCProviderStore, ProviderStore_roots | `ReviewSeesEveryRootChange` | violated |

The violated runs show what section 5 says.

**crawl.** Four repositories: one with a stale server beside a current one, one that may serve a page
instead of a bundle and leads back to the first, one whose copies carry no date and that is reached
from one certificate only, so a stale answer hides it, and one two certificates name. Any set of
earlier copies. One retry and two samples are enough for every outcome of both loops. With limits of
three, some walks meet the limit of fetches, some that of certificates, and some end just before
either. Shows that every order of answers ends in exactly what the bundles lead to, or says that it
was stopped.

**fpki_checkout.** Four repositories and three paths: the root repository may change its bundle and
with it what is reachable; one may be withdrawn; the fourth has a URI that `path_for` refuses. Two
days, and one certificate that expires on the first and strands the one it issued. Two changes by
publishers, one run that dies, any set of silent repositories per run. Two changes are enough for a
bundle to go and come back between commits; one death is enough because the next checkout discards
what it left.

**tpm_taken.** Five cabinets: a release, its reissue with the same date and one more intermediate,
one whose signature is not accepted, a later one with another root, one that states no date.
Intermediates that become valid and cease to be, so that the reference day matters. Two
circumstances: checkouts, with mirrors that serve any earlier release, `--as-of` and
`--from-committed`; and fetches alone, one after another in one tree, with deaths at any write.
Shows that writing the cabinet last makes the refresh restartable: what is reported is right, and
the last release is always reached in the end.

**authroot_served.** Six transfers of lists over three roots: a list, the same under another stamp,
a successor without a stamp, one no purpose of which can be read, one whose signer's path is not
valid on the day it states, and the last, which retires one root and withdraws a purpose of another.
One URL may serve another certificate. The same two circumstances. Three days, one death, one retry.

**streams_merged.** Two environments over two channels of three editions each, with a bundle of two:
an edition of the same date as the first, one dated by an authority that may not answer, one without
a date, one whose timestamping authority lapses. Seven streams that anybody may serve, each breaking
one rule of `StreamVerify` and dated last. Two circumstances. In the first, mirrors serve earlier editions and runs
come one after another, while editions go up and reviews overlap with them. In the second, a
responder falls silent, every edition is up when the crate is handed over (`late`), and one run may
start while another is in the script (`overlaps`), which is enough for each to look before the other
opens its pull request, to push over the other's branch or a reviewer's, and to be overtaken by the
merge of the other's; the editions go up early there because runs that overlap and editions that go
up meanwhile multiply, and each is exercised alone. One failure: a job that dies, in the script or
before it, or a pull request closed. Shows that what is merged is of one edition, never an earlier
one, and passes its tests, and that what is under review stays as it is where no run starts beside
another.

**streams_rollback.** The same streams with both circumstances at once.

**stores_written.** Nine releases over thirteen certificates: a renewed root, a reissued CA, its old
and new keys certified by each other, one certificate expired on day 2, one with an issuer nobody
sends, one with a signature nobody's key verifies, an anchor with the key identifier of another
provider's and another key, an anchor without a certificate, releases without anchors and without
intermediates, and the same anchor twice. Six settings: kinds of crate, releases, and a second
provider that is sound, has an entry that does not decode, or has the crate's own id. Two days, one
death, paths of at most three certificates, which the mutual certification of keys reaches.
`CompleteRunPasses` states the two exceptions it needs: material that no run could make pass
(`AtFault`), and two certificates that came out under one name (`NamesClash`).

### Fairness

`MeshCrawl!FairSpec` is weak fairness of the whole next-state relation: every request has a timeout
(`gen/refresh.rs`, `AGENT` and `FRESH_AGENT`), so a walk that can take a step takes one. Nothing is
assumed about *which* answer comes.

`TpmRefresh!FairSpec` assumes that Microsoft goes on to its last release (weak), that a process that
is not killed goes on writing (weak), and that a fetch that would be taken is taken some day
(strong, because the guard is off while a run is under way): `refresh.yml` runs the refresh every
week, whatever happened to the last.

`AuthrootRefresh!FairSpec` assumes the same of releases, fetches, comparisons and writes (weak), that
the run that would take the latest list takes place some week (`TakeLatest`, strong), and that some
week every URL serves what the list names (`FetchAll`, strong, since silence may end a run before).

`StreamRefresh!FairSpec` assumes that the world goes on to its last editions, that a job that is not
killed goes on (weak), that some job finds every server up to date and answering when no pull request
is open (strong), and that a review and a merge that remain possible take place between runs (strong;
a run takes minutes). Without the last, a run under way at every moment could overtake each review. "Between
runs" is `Quiet`: no job is under way and none is in the script. Runs that start beside another are
bounded (`overlaps`), so that the weak fairness of the steps of jobs and scripts together ends them
all.

Deaths and closings are bounded by `MaxFails`: a refresh killed every time can finish nothing.
Deadlock is checked in every run: a walk that returned stutters in `Done`, and a run may always be
started.

## 4. The proofs

All are for every value of the constants that satisfies the module's named assumption
(`MeshAssumption`, `CrawlAssumption`, `RefreshAssumption`, `TpmAssumption`, `AuthrootAssumption`,
`StreamVerifyAssumption`, `StreamRefreshAssumption`, `CertAssumption`, `StoresAssumption`,
`ProviderAssumption`, `ListedConform`), and TLC evaluates each of these on the instances of section 3.

| Theorem | States | Assumes besides |
|---|---|---|
| `MeshCrawl_proofs!TypeCorrect` | `Spec => []TypeOK` | |
| `MeshCrawl_proofs!WalkIsExact` | `Spec => []ExactWalk` | |
| `MeshCrawl_proofs!CertificatesMatchBundles` | `Spec => []SameCertificates` | |
| `MeshCrawl_proofs!SilenceRemovesNothing` | `Spec => []OnlyAnAnswerRemoves` | |
| `MeshCrawl_proofs!LimitsBound` | `Spec => []LimitsHold` | |
| `MeshCrawl_proofs!Implements` | `Spec => ImplementsWalk` | |
| `FpkiRefresh_proofs!TypeCorrect` | `Spec => []TypeOK` | |
| `FpkiRefresh_proofs!StoreIsReproducible` | `Spec => []StoreReproduces` | checkouts |
| `FpkiRefresh_proofs!RefusalsComeFirst` | `Spec => []RefusedBeforeWriting` | checkouts |
| `FpkiRefresh_proofs!DroppedIsTheRest` | `Spec => []DroppedListsTheRest` | checkouts |
| `FpkiRefresh_proofs!FolderIsAWalk` | `Spec => []CommittedIsAWalk` | checkouts, `OwnFiles` |
| `FpkiRefresh_proofs!SilenceIsFree` | `Spec => []SilenceCostsNothing` | checkouts, `OwnFiles` |
| `FpkiRefresh_proofs!NothingToDoAgain` | `Spec => []SecondRunIsCurrent` | checkouts, `OwnFiles` |
| `FpkiRefresh_proofs!Implements` | `Spec => ImplementsCommittedStore` | checkouts, `OwnFiles` |
| `TpmRefresh_proofs!TypeCorrect` | `Spec => []TypeOK` | |
| `TpmRefresh_proofs!StoreOfTheCabinet` | `Spec => []StoreMatchesCabinet` | checkouts, `NothingEmpties` |
| `TpmRefresh_proofs!ReissuesAreTaken` | `Spec => []ReissueIsTaken` | |
| `TpmRefresh_proofs!DatedByFetching` | `Spec => CollectedByFetching` | checkouts, `NothingEmpties` |
| `TpmRefresh_proofs!Implements` | `Spec => ImplementsCommittedStore` | checkouts, `NothingEmpties` |
| `AuthrootRefresh_proofs!TypeCorrect` | `Spec => []TypeOK` | |
| `AuthrootRefresh_proofs!MaterialOfTheCabinet` | `Spec => []MaterialMatchesCabinet` | checkouts |
| `AuthrootRefresh_proofs!NothingGoesEarly` | `Spec => NothingDeletedUntilAllArrived` | |
| `AuthrootRefresh_proofs!NotModifiedIsCurrent` | `Spec => []NotModifiedMissesNothing` | `StampsInOrder` |
| `AuthrootRefresh_proofs!Implements` | `Spec => ImplementsCommittedStore` | checkouts |
| `StreamRefresh_proofs!TypeCorrect` | `Spec => []TypeOK` | |
| `StreamRefresh_proofs!HoldsUnasked` | a stream that builds with responders asked builds with none | |
| `StreamRefresh_proofs!PassesItsTests` | `Spec => []HoldsOffline` | |
| `StreamRefresh_proofs!Implements` | `Spec => ImplementsCommittedStore` | `Dependable`, `Unforgeable`, `HandedOver` |
| `StreamRefresh_proofs!ReviewUntouched` | `Spec => ReviewKeepsItsBranch` | |
| `Conformance_proofs!GeneratedConforms` | a store generated from sound material passes every conformance check on every day | |
| `ProviderStore_proofs!TypeCorrect` | `Spec => []TypeOK` | |
| `ProviderStore_proofs!FinishedRunsPass` | `Spec => []CompleteRunPasses` | |
| `ProviderStore_proofs!WalksSettle` | `Spec => []WalkStoreIsSettled` | |
| `ProviderStore_proofs!RootChangesSeenElsewhere` | of cabinets and walks no merge changes the roots and not the pins | |
| `ProviderStore_proofs!WholeStores` | `Spec => []EnvironmentHoldsWholeStores` | |
| `ProviderStore_proofs!PathsKept` | `Spec => []PreparedPathsBuild` | |
| `ProviderStore_proofs!ThreeWaysAgree` | `Spec => []OneStoreThreeWays` | |
| `ProviderStore_proofs!CaChangesSeen` | `Spec => ReviewSeesEveryCaChange` | |
| `CertPaths_proofs!OnePassSettles` | `prune_unrooted` of what it left changes nothing | |
| `CertPaths_proofs!ValidatedOnce` | `prune_unvalidated` of what it left changes nothing | |
| `CertPaths_proofs!TwoPassesSettle` | after both, each certificate validates over what is left, and is in a partial path | |
| `CertPaths_proofs!PrunedForGood` | pruning a walk's store again changes nothing | |

### The assumptions

*Checkouts*: runs start from what is committed, as the scheduled workflow's do. `fpki_stale` is the
counterexample without it. `OwnFiles`: `path_for` gives no two URIs one path; `fpki_shared` is the
counterexample. `NothingEmpties`: no cabinet leaves a store without intermediates; `tpm_emptied` is
the counterexample. `StampsInOrder`: lists that could be taken have sequence numbers, a server stamps
them in that order, and material from before cabinets were committed is of no later list than any
that is put up: an unstamped earlier list, taken after a comparison that left a stamp, would
otherwise stand under a later stamp. `Dependable`: no verdict hangs on a responder that may fall
silent; `streams_rollback` is the counterexample for a responder that does. `Unforgeable`: what
anybody may serve never holds. `HandedOver`: the first committed streams held on the first day.
`ListedConform`, an assumption of the module `ProviderStore`: the providers that the composition test
lists besides this crate pass their own tests on every day and use ids of their own; a provider that
fails them fails that test whatever this crate's generator does.

### The arguments

*The walk.* `ExactWalk` speaks of the end; the invariant behind it (`MeshCrawl_proofs`) describes
the middle: the queue lists each URI of `seenUris` once; the URIs before `head` are those with an
answer, the one in hand apart; `seenUris` is what the anchors and the bundles read so far lead to,
less the links of the entries of the current bundle not looked at yet; and every URI seen is in any
closed set. When the queue is exhausted, `seenUris` is therefore closed, and contained in every
closed set. `OnlyAnAnswerRemoves` then follows from two walks being least fixed points of the same
folder. The refinement maps a URI's answer, whichever of the five branches gives it, to one visit.

*The FPKI refresh.* `StoreReproduces` is not inductive: `WriteStore` makes it true and
`WriteCollected` breaks it, but only inside a run. `StoreInv` adds that the *committed* store is
reproducible and that the tree's is from `WriteStore` on; `DroppedInv` does the same for the list of
what was dropped, which is written later. `WalkInv` is about the folder: before the writes the tree's
is the committed one, during them it is part of the walk's image, after them it is the image, and the
image of a walk, read back, is that walk, because each URI has its own file (`ReadBack`). That a
folder which is a walk reaches exactly itself (`WalkReachesTheSame`) makes a second run current and
silence free.

*The TPM refresh.* `Written` states, for each place in the order of writes, which files already
agree with the cabinet and the reference date in hand; at the last write that is all of them.
`Committable` carries the result through a merge. `Successor` carries the rollback guard's verdict
from the fetch to the merge: a run under way holds a cabinet no older than the committed one.
`Stamped` carries the committed collection date through a regeneration.

*The authroot refresh.* `Written` again, with one more dimension, the environment at work; that what
is written is what was listed follows from `Missing` being empty, which `WriteRoots` requires.
`Accounted` says that every entry not pending has been answered, which
`NothingDeletedUntilAllArrived` needs at the one step that deletes. `Stamps` bounds the stamp that is
sent by a transfer of no later list than the committed one, wherever runs died between the cabinet
and its stamp: a death leaves a later cabinet under an earlier stamp, never the reverse.

*The streams.* `HoldsUnasked`: asking a responder can only make a timestamp fail, so the chain found
with one is a chain found without. `StoresFollow` says up to which environment the tree is made from
the inputs beside it, and that the files of every run in the script and those on the branch are made
throughout, whoever pushed them last; every edition a run could mix
in is excluded because a run reads each input once, before the first environment. `Sourced` says that
every stream in hand held on some day, so that one that does not now has lapsed, and that every
bundle was issued. `Followed` says that what a run has in hand follows what is committed as long as
nothing was merged since its checkout (`behind`), the same of each run in the script, and of the branch as long as it does not
conflict; a merge turns all of them at once, and a forced push passes on to `conflict` what the run
that pushed knows of itself. A channel not asked yet still has the committed stream, so the guard's comparison with the
tree is one with what is committed. `OneByOne`, which `ReviewUntouched` rests on, says that without
runs that start beside another one run at most is under way, and that none is open from its look to
its push; with them it is false, as section 5 says.

*What a run leaves.* `CompleteRunPasses` speaks of the end of a run, in whatever tree it began. The
invariant behind it has two parts, each checked by TLC before it was proved. `ShapeInv` is about every
moment: the fields of both trees are of their types, and no directory has two files of one name, which
`WriteAll` preserves and from which `TypeOK` follows. `RunInv` is about the run under way: `Done` is
the set of writes before `step` in `Order`, and `Holding` says of each write in it which file agrees
with the release in hand, given the files that were written before: the anchors are those of the
release alone, because the sweep left nothing beside them; the module names exactly these files; the
store is generated from the files in the tree. A death forgets what is done, and the next run owes
nothing to what it finds (`HoldingNothing`). The order matters in `HoldingMore`: a walk's store is made
of the collection date, so it has to be written after it. Of the loose intermediates, under the names
the old directory gave them, only this is left: every certificate is there or another of its label
took its file (`WrittenOrDisplaced`), which is `NamesClash`. `Untouched` says of a walk, which writes
no anchors, that they are still the first release's. At the end everything is done, and
`MadeAtTheEnd` reads off what was generated from what.

`GeneratedConforms` then is about the generator alone: the roots and rows that `generate` writes are
what the checks of `conformance.rs`, an environment and a client read back. Its core is `RowsAre`: a
row of positions into the buffers stands for exactly the partial paths over the certificates kept, so
every certificate that lies in one is found, and every path that validated when the material was judged
is built again over the store. `FinishedRunsPass` joins the two, for the crate alone
(`OwnTestsPass`), beside the others (`FamilyTestPasses`) and against the regeneration
(`RegeneratesAtTheEnd`). A stream may carry an intermediate no path reaches, and a cabinet is pruned
once; there the hypothesis of `GeneratedConforms` that every intermediate validates in a path of its
own is the last disjunct of `AtFault`. For a walk it is no hypothesis but `TwoPassesSettle`.

*Lemmas about sequences.* That the elements at a set of positions come out in order and once each
(`Counted`, `SelectedIs`), and that what `Distinct` leaves has the same elements (`FirstsAre`,
`DistinctIs`), rest on the least number of a set (`Least`, from the well-foundedness of `<`) and on
counting a finite set up to a bound. This is why `Stores` states loops by positions.

*Stores in use.* These results do not depend on what a generation keeps. `ConsumerInv`: while an
environment is in use, nothing is being written and the tree is what is merged, so that a merge finds
it empty; each id that is prepared adds all of its entries or nothing (`PrepareHolds`). `PathsKept`
rests on `KeyIdsAgree`: certval drops an anchor whose key identifier another anchor has with another
key, which is the one way in which more anchors could mean fewer paths. `PinsInv`: the pins of what
is merged are those of its files, because `Merge` requires it. That what is pinned of the
intermediates is their set, and not their number, is the rest of `CaChangesSeen`; of a stream's roots
it is their number, and `stores_roots` is what follows. `RootChangesSeenElsewhere` shows that it
follows for streams only: a cabinet pins the set of its roots, and `Untouched` keeps a walk's.

*Pruning.* A partial path over the certificates that lie in partial paths is one over all of them and
conversely, so one pass of `prune_unrooted` settles; a path that validates is made of certificates
that validate, so one pass of `prune_unvalidated` does. After both, a certificate's partial path and
its validating path need not be the same, and what is left must still support both; that is
`TwoPassesSettle`.

### Only model-checked

Every invariant and action property of the passing runs, and each refinement, is a theorem above,
some under the assumptions named beside them. Left to TLC are:

- Liveness: `Terminates` and the three `CatchesUp`.
- That a fold computes what a positional definition says: the induction over data it would take is
  out of the provers' reach, so the models state such loops by positions in the first place.
- Which streams hold: `StreamVerify` has no specification of its own; the forged streams of
  `streams_merged` exercise its rules.
- `ENABLED` and fairness.

## 5. Where the code and its comments disagree

Each of these has a run.

- `fpki_stale`: `unchanged` compares the walk with the bundles on disk and asks whether *a* store
  and *a* date are there. In a tree where a run died after the bundles and before the store, the
  next run finds the bundles as it fetched them and reports the old store current. The module's
  comment says that the recorded date keeps the store a function of what is committed. The scheduled
  workflow is not affected, since it starts from a checkout.
- `fpki_shared`: `path_for` drops the scheme and maps unsafe characters to `_`, so two URIs may
  share a file. The walk then lists two bundles and the folder one, `unchanged` never holds, and
  every run rewrites the store and its date, which the comment at the comparison says must not
  happen.
- `tpm_emptied`: when no intermediate validates on the reference date, `provider::write` writes no
  store and leaves the old one in place, beside a date and a dropped list that are not its own; its
  comment says that what is stale is removed.
- `authroot_unmatched`: thumbprints are compared by `build`, which `write_material` calls after it
  has emptied `roots/`. A URL that serves another certificate than the one listed therefore leaves an
  emptied folder, where the module's comment says that every entry must be thumbprint-matched before
  anything is written or deleted. The run fails, so nothing of it is committed.
- `streams_rollback`: the held stream is verified at the moment of the comparison. When that fails,
  for instance because the responder of its timestamping authority does not answer this time, it has
  no date to compare and whatever verifies replaces it, an earlier edition included; `refresh.yml`
  says that an older stream is refused as a rollback.
- `stores_roots`: the tests of a stream crate pin the number of its roots and compare regenerated
  intermediates only, so one root in place of another merges with every constant as it was, where the
  tests say that none can be added or dropped silently. `refresh-pr.sh` does list the roots in the
  pull request, for a person to read.

These were met while modelling and have no run, because they are about text, about a file outside
the model's properties, or follow from the same causes.

- *In a tree not checked out.* A run killed while `write_bundles` clears the folder leaves no copies
  to fall back to. A regeneration of the TPM crate that died is reported current by the next fetch of
  the same cabinet. A torn authroot cabinet keeps every later run at "committed list unreadable", and
  a run that dies after the cabinet leaves the dates of the list before.
- *Tests.* The TPM crate's test compares the number of regenerated intermediates with the pinned
  one, though its comment says it compares the result with what the crate embeds
  (`certval_stores_tpm/tests/tests.rs:145-186`). The composition test's list of providers is written
  out by hand. The TPM crate's tests call fewer of the shared checks than the composition test does.
- *Review.* `IGNORE_LINES` is set by no workflow, and `collected.txt` carries the day of the run, so
  a later run with the pull request still open comments again, where `refresh-pr.sh:15-18` says it
  stays silent. No concurrency group keeps two runs apart: a second may look while none is open,
  and its forced push then goes over the pull request the first opened and what a reviewer pushed to
  it, where `refresh-pr.sh:15` says that nothing is pushed. `ReviewKeepsItsBranch` is stated for runs
  that do not start beside another for this reason; without that condition TLC finds such a schedule
  of two runs in 22 states. The other properties hold with it. An untracked new input is not seen by `git diff --quiet inputs`.
- *Streams.* An edition of the date of the held one is never taken. A channel whose committed stream
  no longer verifies blocks every regeneration of its crate and the job that verifies inputs. The
  bundles state no date, so an earlier one may replace a later. What a signer claims as its own
  signing time counts in the published date like an established one.
- *Files.* Two extra certificates of one name take each other's file (`gen/provider.rs:326`); CI's
  check of the inputs fails, and so does every regeneration, until one is renamed.
- *Prunings.* A cabinet is pruned once, by validation. A certificate may validate over a path that no
  partial path extends, at the depth limit or where a key repeats, and then lies in none.
- *Consumers.* `serialize_environment` passes a CA store on unread and refuses two under one id,
  where `prepare_certval_environment` reads each and merges them. `is_iso_date` of the tests accepts
  days that `Date::parse` rejects.

## 6. What is not modelled

- Cryptography, ASN.1, CBOR, the cabinet format, and certval itself: what validates is data
  (`Vouched`, `Chains`, `SignedBy`), and certval's operators are marked external in the map.
- Parsers of text: `Date::parse`, `http_date_key`, `sequence_order`, the characters `path_for` maps.
  The models use their results; a bundle or list without a usable date is a value of its own.
- What is commented on a pull request, and the digest of the diff that decides it. No other state
  depends on it.
- Two runs of the stream refresh that fetch and generate at the same moment: they do not see each
  other, and are taken one after the other (section 2). A branch whose checkout has been merged over
  is always taken to conflict, where git may merge files that both sides left alone: the model keeps
  fewer merges than git allows there, since what conflicts is closed.
- Crates that carry only roots from one file (`_webpki_root_certs`), and the features that select
  entries: tables without a generation that could go wrong between two steps.
- Reports and logs: `diff.rs`, `build_log.rs`, `recode.rs`, `crawl.rs` `diff_against_store`, and the
  commands of `main.rs` that write stores for tools outside the repository.
- The client's timeouts and identity: settings passed on to reqwest.
- File-system failures other than a run that ends, and a cabinet cut short in the authroot refresh:
  elsewhere a write takes place or the run is over.

## 7. What is left

1. `Dates`: `Date::parse`, `http_date_key` and `sequence_order` as functions over bounded inputs, and
   with them the comparison of a sampled copy's date in the walk.
2. The comments of `refresh-pr.sh`: one per change of material.
3. The streams' `Implements` where a responder may fall silent but no mirror lags: it holds in
   `streams_merged` because a channel's last edition is the only one served.
