---------------------------- MODULE FpkiRefresh ----------------------------
(***************************************************************************)
(* The refresh of certval_stores_fpki (fpki_refresh.rs, refresh_crate): a  *)
(* walk of the mesh, and the files written from it one after another.  Any *)
(* write may be the last one of its run.                                   *)
(*                                                                         *)
(* A run starts either from a fresh checkout, as in refresh-fpki.yml, or   *)
(* in the tree the previous run left, as a maintainer's does.  The walk    *)
(* itself is one step here.  What it returns is what MeshCrawl proves of a *)
(* walk no limit stopped: the bundles of exactly the repositories they     *)
(* lead to.                                                                *)
(***************************************************************************)
EXTENDS Mesh

CONSTANTS
  Paths,          \* the files inputs/crawl/ may hold
  NoPath,         \* what path_for makes of a URI it refuses
  PathOf,         \* path_for
  Publishes,      \* Publishes[u]: what u may serve, NoBody for a 4xx
  Issuers,        \* Issuers[c]: the certificates that may sign c
  NotAfter,       \* NotAfter[c]: the last day c is valid
  FreshCheckout,  \* whether a run starts from what is committed
  MaxDay,         \* bound: days that pass
  MaxChanges,     \* bound: changes the publishers make
  MaxFails        \* bound: runs that end early

Days == 1..MaxDay

ASSUME RefreshAssumption ==
  /\ NoPath \notin Paths
  /\ PathOf \in [Uris -> Paths \cup {NoPath}]
  /\ Publishes \in [Uris -> SUBSET (Bundles \cup {NoBody})]
  /\ Issuers \in [Certs -> SUBSET Certs]
  /\ NotAfter \in [Certs -> Nat]
  /\ FreshCheckout \in BOOLEAN
  /\ MaxDay \in Nat \ {0} /\ MaxChanges \in Nat /\ MaxFails \in Nat

(* The files of the crate.  inputs/crawl/ is a directory as long as it     *)
(* holds a file; there is no collected.txt while the date is NoDate, and   *)
(* no fpki.cbor while the store is empty, since none is written empty.     *)
NoDate == 0
Tree == [crawl : [Paths -> Bundles \cup {NoBody}],
         collected : Days \cup {NoDate},
         store : SUBSET Certs,
         dropped : SUBSET Certs]

VARIABLES
  mesh,      \* what each repository serves today
  day,
  head,      \* the files committed
  tree,      \* the files of the working tree
  pc,        \* where the run is
  walked,    \* the bundles the run's walk returned
  silent,    \* the repositories that gave the run no answer
  todo,      \* the bundles not written yet
  outcome,   \* what the last run returned
  changes, fails

envVars == <<mesh, day, changes>>
runVars == <<walked, silent, todo>>
vars == <<envVars, head, tree, pc, runVars, outcome, fails>>

-----------------------------------------------------------------------------
(* The walk.                                                               *)

FilesIn(crawl) == {p \in Paths : crawl[p] # NoBody}

(* The caller's fallback: the committed copy under the URI's path.         *)
EarlierCopy(crawl, u) == IF PathOf[u] = NoPath THEN NoBody ELSE crawl[PathOf[u]]

(* Wrong version: a repository that gives no answer is skipped.            *)
ViewWithoutFallback(crawl, down) ==
  [u \in Uris |-> IF u \in down THEN NoBody ELSE mesh[u]]

(* What each repository turns out to hold for a walk.                      *)
View(crawl, down) ==
  [u \in Uris |-> IF u \in down THEN EarlierCopy(crawl, u) ELSE mesh[u]]

WalkOf(view) ==
  LET reached == Reachable(view)
  IN  [u \in Uris |-> IF u \in reached THEN view[u] ELSE NoBody]

(* unchanged: the same files, with the same bytes, the walk's list having  *)
(* an entry for each URI and the directory one for each path.              *)
SameFiles(bundles, crawl) ==
  /\ \A u, v \in Held(bundles) : PathOf[u] = PathOf[v] => u = v
  /\ {<<PathOf[u], bundles[u]>> : u \in Held(bundles)}
     = {<<p, crawl[p]>> : p \in FilesIn(crawl)}

(* Wrong version: asks for dropped.txt, which may rightly be missing.      *)
CompleteWithDropped(t) ==
  /\ t.collected # NoDate
  /\ t.store # {} /\ t.dropped # {}
  /\ FilesIn(t.crawl) # {}

(* A store and a walk date to go with the bundles.                         *)
Complete(t) == /\ t.collected # NoDate
               /\ t.store # {}
               /\ FilesIn(t.crawl) # {}

-----------------------------------------------------------------------------
(* Regeneration.                                                           *)

(* inputs_from: the certificates of the files, less the anchors and the    *)
(* self-signed.                                                            *)
InputsFrom(crawl) ==
  {c \in (UNION {CertsIn(crawl[p]) : p \in FilesIn(crawl)}) \ Anchors :
     c \notin Issuers[c]}

(* prune_unvalidated and prune_unrooted: the certificates a path from an   *)
(* anchor reaches with everything on it valid on the day.                  *)
Validated(certs, date) ==
  LET valid == {c \in certs : date <= NotAfter[c]}
      Rooted(S) == \A c \in valid :
                     Issuers[c] \cap (Anchors \cup S) # {} => c \in S
  IN  {c \in valid : \A S \in SUBSET valid : Rooted(S) => c \in S}

(* The store is a function of what is committed beside it.                 *)
StoreOf(t) == Validated(InputsFrom(t.crawl), t.collected)

-----------------------------------------------------------------------------
Init ==
  /\ mesh \in [Uris -> Bundles \cup {NoBody}]
  /\ \A u \in Uris : mesh[u] \in Publishes[u]
  /\ day = 1
  /\ LET crawl == [p \in Paths |-> NoBody]
     IN head = [crawl |-> crawl, collected |-> NoDate, store |-> {},
                dropped |-> {}]
  /\ tree = head
  /\ pc = "idle"
  /\ walked = [u \in Uris |-> NoBody]
  /\ silent = {} /\ todo = {}
  /\ outcome = "none"
  /\ changes = 0 /\ fails = 0

(* The publishers and the calendar.                                        *)
Publish(u) ==
  /\ changes < MaxChanges
  /\ \E b \in Publishes[u] \ {mesh[u]} : mesh' = [mesh EXCEPT ![u] = b]
  /\ changes' = changes + 1
  /\ UNCHANGED <<day, head, tree, pc, runVars, outcome, fails>>

DayPasses ==
  /\ day < MaxDay
  /\ day' = day + 1
  /\ UNCHANGED <<mesh, changes, head, tree, pc, runVars, outcome, fails>>

-----------------------------------------------------------------------------
(* A run, up to the first write: the walk and the three early returns.     *)

Base == IF FreshCheckout THEN head ELSE tree

Ends(how) ==
  /\ pc' = "idle"
  /\ outcome' = how
  /\ walked' = [u \in Uris |-> NoBody]
  /\ silent' = {} /\ todo' = {}

(* A limit stopped the walk.                                               *)
RunTruncated ==
  /\ pc = "idle"
  /\ tree' = Base
  /\ Ends("kept")
  /\ UNCHANGED <<envVars, head, fails>>

(* unchanged maps every URI to its path first, and one refusal ends the    *)
(* run.                                                                    *)
RunRefused(bundles) ==
  /\ pc = "idle"
  /\ Complete(Base)
  /\ \E u \in Held(bundles) : PathOf[u] = NoPath
  /\ tree' = Base
  /\ Ends("failed")
  /\ UNCHANGED <<envVars, head, fails>>

RunCurrent(bundles) ==
  /\ pc = "idle"
  /\ Complete(Base)
  /\ \A u \in Held(bundles) : PathOf[u] # NoPath
  /\ SameFiles(bundles, Base.crawl)
  /\ tree' = Base
  /\ Ends("current")
  /\ UNCHANGED <<envVars, head, fails>>

(* Wrong version: leaves the refusals to write_bundles.                    *)
RunChangedUnchecked(bundles, noAnswer) ==
  /\ pc = "idle"
  /\ Complete(Base) => ~SameFiles(bundles, Base.crawl)
  /\ tree' = Base
  /\ walked' = bundles
  /\ silent' = noAnswer
  /\ todo' = Held(bundles)
  /\ outcome' = "none"
  /\ pc' = "clear"
  /\ UNCHANGED <<envVars, head, fails>>

(* Wrong version: what the folder holds is written again too.              *)
RunChangedKeepingFolder(bundles, noAnswer) ==
  /\ pc = "idle"
  /\ Complete(Base) =>
       /\ \A u \in Held(bundles) : PathOf[u] # NoPath
       /\ ~SameFiles(bundles, Base.crawl)
  /\ tree' = Base
  /\ walked' = bundles
  /\ silent' = noAnswer
  /\ todo' = Held(bundles) \cup {u \in Uris : EarlierCopy(Base.crawl, u) # NoBody}
  /\ outcome' = "none"
  /\ pc' = "clear"
  /\ UNCHANGED <<envVars, head, fails>>

RunChanged(bundles, noAnswer) ==
  /\ pc = "idle"
  /\ Complete(Base) =>
       /\ \A u \in Held(bundles) : PathOf[u] # NoPath
       /\ ~SameFiles(bundles, Base.crawl)
  /\ tree' = Base
  /\ walked' = bundles
  /\ silent' = noAnswer
  /\ todo' = Held(bundles)
  /\ outcome' = "none"
  /\ pc' = "clear"
  /\ UNCHANGED <<envVars, head, fails>>

(* Wrong version: dates the store though nothing was collected.            *)
RunFromCommittedDated ==
  /\ pc = "idle"
  /\ FilesIn(Base.crawl) # {}
  /\ tree' = Base
  /\ outcome' = "none"
  /\ walked' = [u \in Uris |-> NoBody]
  /\ silent' = {} /\ todo' = {}
  /\ pc' = "write"
  /\ UNCHANGED <<envVars, head, fails>>

(* With from_committed nothing is fetched.                                 *)
RunFromCommitted ==
  /\ pc = "idle"
  /\ FilesIn(Base.crawl) # {}
  /\ tree' = Base
  /\ outcome' = "none"
  /\ walked' = [u \in Uris |-> NoBody]
  /\ silent' = {} /\ todo' = {}
  /\ pc' = "generate"
  /\ UNCHANGED <<envVars, head, fails>>

-----------------------------------------------------------------------------
(* A run's writes.                                                         *)

(* write_bundles: remove_dir_all, then one file per bundle.                *)
RemoveFile(p) ==
  /\ pc = "clear"
  /\ tree' = [tree EXCEPT !.crawl[p] = NoBody]
  /\ UNCHANGED <<envVars, head, pc, runVars, outcome, fails>>

(* Wrong version: merges a walk into the folder.                           *)
ClearedKeepingFiles ==
  /\ pc = "clear"
  /\ pc' = "write"
  /\ UNCHANGED <<envVars, head, tree, runVars, outcome, fails>>

Cleared ==
  /\ pc = "clear" /\ FilesIn(tree.crawl) = {}
  /\ pc' = "write"
  /\ UNCHANGED <<envVars, head, tree, runVars, outcome, fails>>

WriteBundle(u) ==
  /\ pc = "write"
  /\ PathOf[u] # NoPath
  /\ tree' = [tree EXCEPT !.crawl[PathOf[u]] = walked[u]]
  /\ todo' = todo \ {u}
  /\ UNCHANGED <<envVars, head, pc, walked, silent, outcome, fails>>

(* path_for refuses the URI half way through the writes.                   *)
WriteRefused(u) ==
  /\ pc = "write"
  /\ PathOf[u] = NoPath
  /\ Ends("failed")
  /\ UNCHANGED <<envVars, head, tree, fails>>

WriteCollected ==
  /\ pc = "write" /\ todo = {}
  /\ tree' = [tree EXCEPT !.collected = day]
  /\ pc' = "generate"
  /\ UNCHANGED <<envVars, head, runVars, outcome, fails>>

(* regenerate_from and generate fail without bundles, without a date, and  *)
(* when no certificate is left.                                            *)
CanGenerate == /\ FilesIn(tree.crawl) # {}
               /\ tree.collected # NoDate
               /\ StoreOf(tree) # {}

CannotGenerate ==
  /\ pc = "generate" /\ ~CanGenerate
  /\ Ends("failed")
  /\ UNCHANGED <<envVars, head, tree, fails>>

(* Wrong version: validates at today's date, not the recorded one.         *)
WriteStoreAsOfToday ==
  /\ pc = "generate" /\ CanGenerate
  /\ tree' = [tree EXCEPT !.store = Validated(InputsFrom(tree.crawl), day)]
  /\ pc' = "dropped"
  /\ UNCHANGED <<envVars, head, runVars, outcome, fails>>

WriteStore ==
  /\ pc = "generate" /\ CanGenerate
  /\ tree' = [tree EXCEPT !.store = StoreOf(tree)]
  /\ pc' = "dropped"
  /\ UNCHANGED <<envVars, head, runVars, outcome, fails>>

(* Wrong version: leaves the last list when nothing was dropped.           *)
WriteDroppedUnlessEmpty ==
  /\ pc = "dropped"
  /\ LET dropped == InputsFrom(tree.crawl) \ tree.store
     IN tree' = IF dropped = {} THEN tree ELSE [tree EXCEPT !.dropped = dropped]
  /\ pc' = "idle"
  /\ outcome' = "regenerated"
  /\ UNCHANGED <<envVars, head, runVars, fails>>

WriteDropped ==
  /\ pc = "dropped"
  /\ tree' = [tree EXCEPT !.dropped = InputsFrom(tree.crawl) \ tree.store]
  /\ pc' = "idle"
  /\ outcome' = "regenerated"
  /\ UNCHANGED <<envVars, head, runVars, fails>>

(* A write fails, or the process dies between two of them.                 *)
RunDies ==
  /\ pc # "idle"
  /\ fails < MaxFails
  /\ fails' = fails + 1
  /\ Ends("failed")
  /\ UNCHANGED <<envVars, head, tree>>

(* What a run that regenerated leaves is reviewed and merged.              *)
Merge ==
  /\ pc = "idle" /\ outcome = "regenerated"
  /\ head' = tree
  /\ Ends("merged")
  /\ UNCHANGED <<envVars, tree, fails>>

Run ==
  \/ RunTruncated \/ RunFromCommitted
  \/ /\ pc = "idle"
     /\ \E down \in SUBSET Uris : \E bundles \in {WalkOf(View(Base.crawl, down))} :
          \/ RunRefused(bundles) \/ RunCurrent(bundles)
          \/ RunChanged(bundles, down \cap Reachable(bundles))

Write ==
  \/ \E p \in FilesIn(tree.crawl) : RemoveFile(p)
  \/ Cleared
  \/ \E u \in todo : WriteBundle(u) \/ WriteRefused(u)
  \/ WriteCollected \/ CannotGenerate \/ WriteStore \/ WriteDropped

Next ==
  \/ \E u \in Uris : Publish(u)
  \/ DayPasses
  \/ Run \/ Write \/ RunDies \/ Merge

Spec == Init /\ [][Next]_vars

-----------------------------------------------------------------------------
TypeOK ==
  /\ mesh \in Folder
  /\ day \in Days
  /\ head \in Tree
  /\ tree \in Tree
  /\ pc \in {"idle", "clear", "write", "generate", "dropped"}
  /\ walked \in Folder
  /\ silent \in SUBSET Uris
  /\ todo \in SUBSET Held(walked)
  /\ outcome \in {"none", "kept", "current", "failed", "regenerated", "merged"}
  /\ changes \in 0..MaxChanges
  /\ fails \in 0..MaxFails

Returned(hows) == pc = "idle" /\ outcome \in hows

(* fpki_refresh.rs, "What is committed": recording the walk date keeps the *)
(* store a function of what is committed.  A run that reports the store    *)
(* current, or regenerated, leaves one that regenerating would reproduce.  *)
StoreReproduces ==
  Returned({"current", "regenerated", "merged"}) => tree.store = StoreOf(tree)

(* dropped.txt lists what the walk reached that the store does not carry:  *)
(* with the store beside it, it accounts for every certificate of the      *)
(* bundles.                                                                *)
DroppedListsTheRest ==
  Returned({"current", "regenerated", "merged"}) =>
    tree.dropped = InputsFrom(tree.crawl) \ tree.store

(* "A refresh replaces the whole folder, so it always holds the last       *)
(* complete walk and nothing a repository has since withdrawn": every      *)
(* committed file is one a walk reaches through the others.                *)
HoldsOneWalk(crawl) ==
  LET view == [u \in Uris |-> EarlierCopy(crawl, u)]
  IN  \A p \in FilesIn(crawl) : \E u \in Reachable(view) : PathOf[u] = p

CommittedIsAWalk == HoldsOneWalk(head.crawl)

(* "the committed store held nothing from it either, so nothing is lost":  *)
(* a repository that is still reached and gave no answer keeps the bundle  *)
(* committed for it.                                                       *)
SilenceCostsNothing ==
  Returned({"regenerated"}) =>
    \A u \in silent \cap Reachable(walked) :
      EarlierCopy(head.crawl, u) # NoBody =>
        EarlierCopy(tree.crawl, u) = EarlierCopy(head.crawl, u)

(* "Unchanged means nothing is written": a run that finds the repositories *)
(* as the run before found them, the silent ones included, has nothing to  *)
(* write.                                                                  *)
Replay == [u \in Uris |-> IF u \in silent THEN EarlierCopy(tree.crawl, u)
                          ELSE walked[u]]

SecondRunIsCurrent ==
  Returned({"regenerated"}) /\ Held(walked) # {} =>
    Complete(tree) /\ SameFiles(WalkOf(Replay), tree.crawl)

(* unchanged maps every URI to its path before write_bundles clears the   *)
(* folder: once a store is committed, no run starts to replace the folder  *)
(* that path_for would stop half way.                                      *)
RefusedBeforeWriting ==
  pc \in {"clear", "write"} /\ Complete(head) =>
    \A u \in Held(walked) : PathOf[u] # NoPath

(* The refresh implements CommittedStore, the input being the bundles and  *)
(* the walk date.  "The store keeps the date of the last walk that moved   *)
(* something": the date never moves alone.                                 *)
DateMovesWithBundles(new, old) ==
  new.collected # old.collected => new.crawl # old.crawl

Committed == INSTANCE CommittedStore WITH
  NoStore <- {},
  Generates <- StoreOf,
  MayFollow <- DateMovesWithBundles,
  input <- [crawl |-> head.crawl, collected |-> head.collected],
  store <- head.store

ImplementsCommittedStore == Committed!Spec
=============================================================================
