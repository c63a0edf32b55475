------------------------ MODULE FpkiRefresh_proofs ------------------------
(***************************************************************************)
(* Proofs about FpkiRefresh, for every mesh, every path_for and any number *)
(* of runs.  Runs that start from a fresh checkout leave a store that what *)
(* is committed reproduces, and replace the folder only when they can      *)
(* finish; where repositories have a file each, the folder is one walk's   *)
(* and the refresh implements CommittedStore.  A run in the tree of one    *)
(* that died, or one of repositories that share a file, need not, which is *)
(* what the violation runs of FpkiRefresh show.                            *)
(***************************************************************************)
EXTENDS FpkiRefresh, TLAPS

-----------------------------------------------------------------------------
(* Type correctness.                                                       *)

LEMMA StaticTypes ==
  /\ Folder = [Uris -> Bundles \cup {NoBody}]
  /\ NoDate \notin Days
  /\ \A t \in Tree : /\ t.crawl \in [Paths -> Bundles \cup {NoBody}]
                     /\ t.collected \in Days \cup {NoDate}
                     /\ t.store \in SUBSET Certs
                     /\ t.dropped \in SUBSET Certs
BY DEF Folder, Days, NoDate, Tree

(* A walk returns a folder, whatever the repositories serve and whichever  *)
(* are silent.                                                             *)
LEMMA WalkType ==
  ASSUME mesh \in Folder, NEW crawl \in [Paths -> Bundles \cup {NoBody}],
         NEW down \in SUBSET Uris
  PROVE  WalkOf(View(crawl, down)) \in Folder
<1>1. View(crawl, down) \in Folder
  <2>1. \A u \in Uris : EarlierCopy(crawl, u) \in Bundles \cup {NoBody}
    BY RefreshAssumption DEF EarlierCopy
  <2>2. \A u \in Uris : mesh[u] \in Bundles \cup {NoBody}
    BY DEF Folder
  <2> QED BY <2>1, <2>2 DEF View, Folder
<1> DEFINE view == View(crawl, down)
<1>2. \A u \in Uris : view[u] \in Bundles \cup {NoBody}
  BY <1>1 DEF Folder
<1> HIDE DEF view
<1>3. WalkOf(view) \in Folder
  BY <1>2 DEF WalkOf, Folder
<1> QED BY <1>3 DEF view

(* The sets of certificates a run writes are sets of Certs.                *)
LEMMA InputsType ==
  ASSUME NEW crawl \in [Paths -> Bundles \cup {NoBody}]
  PROVE  InputsFrom(crawl) \in SUBSET Certs
<1>1. \A p \in FilesIn(crawl) : CertsIn(crawl[p]) \subseteq Certs
  BY MeshAssumption DEF FilesIn, CertsIn
<1> DEFINE all == UNION {CertsIn(crawl[p]) : p \in FilesIn(crawl)}
<1>2. all \subseteq Certs
  BY <1>1
<1> QED BY <1>2 DEF InputsFrom

LEMMA StoreType ==
  ASSUME NEW t \in Tree
  PROVE  StoreOf(t) \in SUBSET Certs
<1>1. InputsFrom(t.crawl) \in SUBSET Certs
  BY StaticTypes, InputsType
<1> DEFINE inputs == InputsFrom(t.crawl)
<1> HIDE DEF inputs
<1>2. Validated(inputs, t.collected) \subseteq inputs
  BY DEF Validated
<1> QED BY <1>1, <1>2 DEF StoreOf, inputs

(* What ends a run, and what replaces one part of a tree, keep the types.  *)
LEMMA EndsType ==
  ASSUME NEW how \in {"none", "kept", "current", "failed", "regenerated", "merged"},
         Ends(how)
  PROVE  /\ pc' \in {"idle", "clear", "write", "generate", "dropped"}
         /\ walked' \in Folder
         /\ silent' \in SUBSET Uris
         /\ todo' \in SUBSET Held(walked')
         /\ outcome' = how
BY DEF Ends, Folder

LEMMA TreeParts ==
  ASSUME NEW t \in Tree
  PROVE  /\ \A p \in Paths, b \in Bundles \cup {NoBody} :
              [t EXCEPT !.crawl[p] = b] \in Tree
         /\ \A d \in Days : [t EXCEPT !.collected = d] \in Tree
         /\ \A s \in SUBSET Certs : /\ [t EXCEPT !.store = s] \in Tree
                                    /\ [t EXCEPT !.dropped = s] \in Tree
BY DEF Tree

LEMMA BaseType ==
  ASSUME TypeOK
  PROVE  Base \in Tree /\ Base.crawl \in [Paths -> Bundles \cup {NoBody}]
BY StaticTypes DEF TypeOK, Base

(* THEOREM TypeCorrect: the runs of fpki_refresh.rs leave every file and   *)
(* every variable of its type.                                             *)
THEOREM TypeCorrect == Spec => []TypeOK
<1>1. Init => TypeOK
  <2> SUFFICES ASSUME Init PROVE TypeOK
    OBVIOUS
  <2>1. mesh \in Folder /\ walked \in Folder
    BY DEF Init, Folder
  <2>2. head \in Tree /\ tree \in Tree
    BY DEF Init, Tree
  <2>3. day \in Days
    BY RefreshAssumption DEF Init, Days
  <2> QED BY <2>1, <2>2, <2>3, RefreshAssumption DEF Init, TypeOK
<1>2. TypeOK /\ [Next]_vars => TypeOK'
  <2> SUFFICES ASSUME TypeOK, [Next]_vars PROVE TypeOK'
    OBVIOUS
  <2> USE DEF TypeOK
  <2>1. ASSUME NEW u \in Uris, Publish(u) PROVE TypeOK'
    <3>1. PICK b \in Publishes[u] \ {mesh[u]} : mesh' = [mesh EXCEPT ![u] = b]
      BY <2>1 DEF Publish
    <3>2. b \in Bundles \cup {NoBody}
      BY RefreshAssumption
    <3>3. mesh' \in Folder
      BY <3>1, <3>2 DEF Folder
    <3>4. changes' \in 0..MaxChanges
      BY <2>1, RefreshAssumption DEF Publish
    <3> QED BY <2>1, <3>3, <3>4 DEF Publish, runVars
  <2>2. ASSUME DayPasses PROVE TypeOK'
    <3>1. day' \in Days
      BY <2>2, RefreshAssumption DEF DayPasses, Days
    <3> QED BY <2>2, <3>1 DEF DayPasses, runVars
  <2>3. ASSUME RunTruncated PROVE TypeOK'
    BY <2>3, BaseType, EndsType DEF RunTruncated, envVars
  <2>4. ASSUME NEW bundles, RunRefused(bundles) PROVE TypeOK'
    BY <2>4, BaseType, EndsType DEF RunRefused, envVars
  <2>5. ASSUME NEW bundles, RunCurrent(bundles) PROVE TypeOK'
    BY <2>5, BaseType, EndsType DEF RunCurrent, envVars
  <2>6. ASSUME NEW down \in SUBSET Uris,
               NEW bundles \in {WalkOf(View(Base.crawl, down))},
               RunChanged(bundles, down \cap Reachable(bundles))
        PROVE  TypeOK'
    <3>1. bundles \in Folder
      BY BaseType, WalkType
    <3> DEFINE noAnswer == down \cap Reachable(bundles)
    <3>2. noAnswer \in SUBSET Uris
      OBVIOUS
    <3> HIDE DEF noAnswer
    <3>3. RunChanged(bundles, noAnswer)
      BY <2>6 DEF noAnswer
    <3> QED BY <3>1, <3>2, <3>3, BaseType DEF RunChanged, envVars
  <2>7. ASSUME RunFromCommitted PROVE TypeOK'
    BY <2>7, BaseType DEF RunFromCommitted, envVars, Folder
  <2>8. ASSUME NEW p \in FilesIn(tree.crawl), RemoveFile(p) PROVE TypeOK'
    BY <2>8, TreeParts DEF RemoveFile, FilesIn, envVars, runVars
  <2>9. ASSUME Cleared PROVE TypeOK'
    BY <2>9 DEF Cleared, envVars, runVars
  <2>10. ASSUME NEW u \in todo, WriteBundle(u) PROVE TypeOK'
    <3>1. u \in Uris /\ walked[u] \in Bundles \cup {NoBody} /\ PathOf[u] \in Paths
      BY <2>10, RefreshAssumption DEF WriteBundle, Held, Folder
    <3>2. tree' \in Tree
      BY <2>10, <3>1, TreeParts DEF WriteBundle
    <3> QED BY <2>10, <3>2 DEF WriteBundle, envVars
  <2>11. ASSUME NEW u \in todo, WriteRefused(u) PROVE TypeOK'
    BY <2>11, EndsType DEF WriteRefused, envVars
  <2>12. ASSUME WriteCollected PROVE TypeOK'
    <3>1. tree' \in Tree
      BY <2>12, TreeParts DEF WriteCollected
    <3> QED BY <2>12, <3>1 DEF WriteCollected, envVars, runVars
  <2>13. ASSUME CannotGenerate PROVE TypeOK'
    BY <2>13, EndsType DEF CannotGenerate, envVars
  <2>14. ASSUME WriteStore PROVE TypeOK'
    <3>1. tree' \in Tree
      BY <2>14, StoreType, TreeParts DEF WriteStore
    <3> QED BY <2>14, <3>1 DEF WriteStore, envVars, runVars
  <2>15. ASSUME WriteDropped PROVE TypeOK'
    <3> DEFINE rest == InputsFrom(tree.crawl) \ tree.store
    <3>1. rest \in SUBSET Certs
      BY StaticTypes, InputsType
    <3> HIDE DEF rest
    <3>2. [tree EXCEPT !.dropped = rest] \in Tree
      BY <3>1, TreeParts
    <3>3. tree' \in Tree
      BY <2>15, <3>2 DEF WriteDropped, rest
    <3> QED BY <2>15, <3>3 DEF WriteDropped, envVars, runVars
  <2>16. ASSUME RunDies PROVE TypeOK'
    <3>1. fails' \in 0..MaxFails
      BY <2>16, RefreshAssumption DEF RunDies
    <3> QED BY <2>16, <3>1, EndsType DEF RunDies, envVars
  <2>17. ASSUME Merge PROVE TypeOK'
    BY <2>17, EndsType DEF Merge, envVars
  <2>18. ASSUME UNCHANGED vars PROVE TypeOK'
    BY <2>18 DEF vars, envVars, runVars
  <2> QED BY <2>1, <2>2, <2>3, <2>4, <2>5, <2>6, <2>7, <2>8, <2>9, <2>10, <2>11,
             <2>12, <2>13, <2>14, <2>15, <2>16, <2>17, <2>18
          DEF Next, Run, Write
<1> QED BY <1>1, <1>2, PTL DEF Spec

-----------------------------------------------------------------------------
(* Runs that start from a fresh checkout.                                  *)

(* The committed store, if there is one, is the one its bundles and date   *)
(* determine; so is the one in the tree from WriteStore on.  A run judges  *)
(* the committed tree complete before it takes its store for current, and  *)
(* what it merges is what it regenerated.                                  *)
StoreInv ==
  /\ head.store # {} => head.store = StoreOf(head)
  /\ pc = "dropped" => tree.store = StoreOf(tree)
  /\ Returned({"current", "regenerated", "merged"}) => tree.store = StoreOf(tree)

(* Regenerating reads the bundles and the date only.                       *)
LEMMA StoreReads ==
  ASSUME NEW t \in Tree
  PROVE  \A s \in SUBSET Certs :
           /\ [t EXCEPT !.store = s].store = s
           /\ StoreOf([t EXCEPT !.store = s]) = StoreOf(t)
           /\ [t EXCEPT !.dropped = s].store = t.store
           /\ StoreOf([t EXCEPT !.dropped = s]) = StoreOf(t)
<1> SUFFICES ASSUME NEW s \in SUBSET Certs
             PROVE  /\ [t EXCEPT !.store = s].store = s
                    /\ StoreOf([t EXCEPT !.store = s]) = StoreOf(t)
                    /\ [t EXCEPT !.dropped = s].store = t.store
                    /\ StoreOf([t EXCEPT !.dropped = s]) = StoreOf(t)
  OBVIOUS
<1>1. /\ [t EXCEPT !.store = s].store = s
      /\ [t EXCEPT !.store = s].crawl = t.crawl
      /\ [t EXCEPT !.store = s].collected = t.collected
  BY DEF Tree
<1>2. /\ [t EXCEPT !.dropped = s].store = t.store
      /\ [t EXCEPT !.dropped = s].crawl = t.crawl
      /\ [t EXCEPT !.dropped = s].collected = t.collected
  BY DEF Tree
<1> QED BY <1>1, <1>2 DEF StoreOf

LEMMA StoreInvAlways ==
  ASSUME FreshCheckout = TRUE
  PROVE  Spec => []StoreInv
<1>1. Init => StoreInv
  BY DEF Init, StoreInv, Returned
<1>2. TypeOK /\ StoreInv /\ [Next]_vars => StoreInv'
  <2> SUFFICES ASSUME TypeOK, StoreInv, [Next]_vars PROVE StoreInv'
    OBVIOUS
  <2> USE DEF StoreInv, Returned
  <2>1. ASSUME NEW u \in Uris, Publish(u) PROVE StoreInv'
    BY <2>1 DEF Publish
  <2>2. ASSUME DayPasses PROVE StoreInv'
    BY <2>2 DEF DayPasses
  <2>3. ASSUME RunTruncated PROVE StoreInv'
    BY <2>3 DEF RunTruncated, Ends
  <2>4. ASSUME NEW bundles, RunRefused(bundles) PROVE StoreInv'
    BY <2>4 DEF RunRefused, Ends
  <2>5. ASSUME NEW bundles, RunCurrent(bundles) PROVE StoreInv'
    <3>1. tree' = head /\ head.store # {}
      BY <2>5 DEF RunCurrent, Base, Complete
    <3> QED BY <2>5, <3>1 DEF RunCurrent, Ends
  <2>6. ASSUME NEW bundles, NEW noAnswer, RunChanged(bundles, noAnswer) PROVE StoreInv'
    BY <2>6 DEF RunChanged
  <2>7. ASSUME RunFromCommitted PROVE StoreInv'
    BY <2>7 DEF RunFromCommitted
  <2>8. ASSUME NEW p \in FilesIn(tree.crawl), RemoveFile(p) PROVE StoreInv'
    BY <2>8 DEF RemoveFile
  <2>9. ASSUME Cleared PROVE StoreInv'
    BY <2>9 DEF Cleared
  <2>10. ASSUME NEW u \in todo, WriteBundle(u) PROVE StoreInv'
    BY <2>10 DEF WriteBundle
  <2>11. ASSUME NEW u \in todo, WriteRefused(u) PROVE StoreInv'
    BY <2>11 DEF WriteRefused, Ends
  <2>12. ASSUME WriteCollected PROVE StoreInv'
    BY <2>12 DEF WriteCollected
  <2>13. ASSUME CannotGenerate PROVE StoreInv'
    BY <2>13 DEF CannotGenerate, Ends
  <2>14. ASSUME WriteStore PROVE StoreInv'
    <3> DEFINE store == StoreOf(tree)
    <3>1. store \in SUBSET Certs /\ tree \in Tree
      BY StoreType DEF TypeOK
    <3> HIDE DEF store
    <3>2. LET t == [tree EXCEPT !.store = store]
          IN  t.store = store /\ StoreOf(t) = StoreOf(tree)
      BY <3>1, StoreReads
    <3>3. tree' = [tree EXCEPT !.store = store]
      BY <2>14 DEF WriteStore, store
    <3>4. tree'.store = StoreOf(tree')
      BY <3>2, <3>3 DEF store
    <3>5. StoreOf(tree)' = StoreOf(tree')
      BY DEF StoreOf, Validated, InputsFrom, FilesIn
    <3> QED BY <2>14, <3>4, <3>5 DEF WriteStore
  <2>15. ASSUME WriteDropped PROVE StoreInv'
    <3> DEFINE rest == InputsFrom(tree.crawl) \ tree.store
    <3>1. rest \in SUBSET Certs /\ tree \in Tree
      BY StaticTypes, InputsType DEF TypeOK
    <3> HIDE DEF rest
    <3>2. LET t == [tree EXCEPT !.dropped = rest]
          IN  t.store = tree.store /\ StoreOf(t) = StoreOf(tree)
      BY <3>1, StoreReads
    <3>3. tree' = [tree EXCEPT !.dropped = rest]
      BY <2>15 DEF WriteDropped, rest
    <3>4. tree'.store = StoreOf(tree')
      BY <2>15, <3>2, <3>3 DEF WriteDropped
    <3> QED BY <2>15, <3>4 DEF WriteDropped
  <2>16. ASSUME RunDies PROVE StoreInv'
    BY <2>16 DEF RunDies, Ends
  <2>17. ASSUME Merge PROVE StoreInv'
    BY <2>17 DEF Merge, Ends
  <2>18. ASSUME UNCHANGED vars PROVE StoreInv'
    BY <2>18 DEF vars
  <2> QED BY <2>1, <2>2, <2>3, <2>4, <2>5, <2>6, <2>7, <2>8, <2>9, <2>10, <2>11,
             <2>12, <2>13, <2>14, <2>15, <2>16, <2>17, <2>18
          DEF Next, Run, Write
<1> QED BY <1>1, <1>2, TypeCorrect, PTL DEF Spec

(* THEOREM StoreIsReproducible: in runs that start from a fresh checkout,  *)
(* a store reported current, regenerated or merged is the one the          *)
(* committed bundles and walk date determine, wherever a run may die.      *)
THEOREM StoreIsReproducible ==
  ASSUME FreshCheckout = TRUE
  PROVE  Spec => []StoreReproduces
<1>1. StoreInv => StoreReproduces
  BY DEF StoreInv, StoreReproduces
<1> QED BY <1>1, StoreInvAlways, PTL

(* THEOREM RefusalsComeFirst: in runs that start from a fresh checkout,    *)
(* once a store is committed no run clears the folder for a walk holding a *)
(* URI that path_for refuses.                                              *)
THEOREM RefusalsComeFirst ==
  ASSUME FreshCheckout = TRUE
  PROVE  Spec => []RefusedBeforeWriting
<1>1. Init => RefusedBeforeWriting
  BY DEF Init, RefusedBeforeWriting
<1>2. RefusedBeforeWriting /\ [Next]_vars => RefusedBeforeWriting'
  <2> SUFFICES ASSUME RefusedBeforeWriting, [Next]_vars PROVE RefusedBeforeWriting'
    OBVIOUS
  <2> USE DEF RefusedBeforeWriting
  <2>1. ASSUME NEW bundles, NEW noAnswer, RunChanged(bundles, noAnswer)
        PROVE  RefusedBeforeWriting'
    <3>1. Base = head /\ head' = head
      BY <2>1 DEF RunChanged, Base
    <3>2. Complete(head) => \A u \in Held(walked') : PathOf[u] # NoPath
      BY <2>1, <3>1 DEF RunChanged
    <3>3. Complete(head)' = Complete(head)
      BY <3>1 DEF Complete, FilesIn
    <3>4. Held(walked)' = Held(walked')
      BY DEF Held
    <3> QED BY <3>2, <3>3, <3>4
  <2>2. CASE \E u \in Uris : Publish(u)
    BY <2>2 DEF Publish, runVars, Complete, FilesIn, Held
  <2>3. CASE DayPasses
    BY <2>3 DEF DayPasses, runVars, Complete, FilesIn, Held
  <2>4. CASE RunTruncated \/ RunFromCommitted \/ CannotGenerate \/ RunDies \/ Merge
    BY <2>4 DEF RunTruncated, RunFromCommitted, CannotGenerate, RunDies, Merge, Ends
  <2>5. ASSUME NEW bundles, RunRefused(bundles) \/ RunCurrent(bundles)
        PROVE  RefusedBeforeWriting'
    BY <2>5 DEF RunRefused, RunCurrent, Ends
  <2>6. CASE (\E p \in FilesIn(tree.crawl) : RemoveFile(p)) \/ Cleared
    BY <2>6 DEF RemoveFile, Cleared, runVars, Complete, FilesIn, Held
  <2>7. ASSUME NEW u \in todo, WriteBundle(u) PROVE RefusedBeforeWriting'
    BY <2>7 DEF WriteBundle, Complete, FilesIn, Held
  <2>8. ASSUME NEW u \in todo, WriteRefused(u) PROVE RefusedBeforeWriting'
    BY <2>8 DEF WriteRefused, Ends
  <2>9. CASE WriteCollected \/ WriteStore \/ WriteDropped
    BY <2>9 DEF WriteCollected, WriteStore, WriteDropped
  <2>10. CASE UNCHANGED vars
    BY <2>10 DEF vars, runVars, Complete, FilesIn, Held
  <2> QED BY <2>1, <2>2, <2>3, <2>4, <2>5, <2>6, <2>7, <2>8, <2>9, <2>10
          DEF Next, Run, Write
<1> QED BY <1>1, <1>2, PTL DEF Spec

(* The same of the list of what was dropped, which is written after the    *)
(* store.                                                                  *)
DroppedInv ==
  /\ head.store # {} => head.dropped = InputsFrom(head.crawl) \ head.store
  /\ Returned({"current", "regenerated", "merged"}) =>
       tree.dropped = InputsFrom(tree.crawl) \ tree.store

(* THEOREM DroppedIsTheRest: in runs that start from a fresh checkout, the *)
(* list of what was dropped and the store beside it account for every      *)
(* certificate of the bundles, whichever of the two a run died before.     *)
THEOREM DroppedIsTheRest ==
  ASSUME FreshCheckout = TRUE
  PROVE  Spec => []DroppedListsTheRest
<1>1. Init => DroppedInv
  BY DEF Init, DroppedInv, Returned
<1>2. TypeOK /\ DroppedInv /\ [Next]_vars => DroppedInv'
  <2> SUFFICES ASSUME TypeOK, DroppedInv, [Next]_vars PROVE DroppedInv'
    OBVIOUS
  <2> USE DEF DroppedInv, Returned
  <2>1. ASSUME UNCHANGED head, pc' # "idle" PROVE DroppedInv'
    BY <2>1 DEF InputsFrom, FilesIn
  <2>2. ASSUME UNCHANGED head, pc' = "idle", outcome' \in {"kept", "failed"}
        PROVE  DroppedInv'
    BY <2>2 DEF InputsFrom, FilesIn
  <2>3. ASSUME UNCHANGED <<head, tree, pc, outcome>> PROVE DroppedInv'
    BY <2>3 DEF InputsFrom, FilesIn
  <2>4. CASE (\E u \in Uris : Publish(u)) \/ DayPasses \/ UNCHANGED vars
    BY <2>3, <2>4 DEF Publish, DayPasses, vars
  <2>5. CASE RunTruncated \/ CannotGenerate \/ RunDies
    BY <2>2, <2>5 DEF RunTruncated, CannotGenerate, RunDies, Ends
  <2>6. ASSUME NEW bundles, RunRefused(bundles) PROVE DroppedInv'
    BY <2>2, <2>6 DEF RunRefused, Ends
  <2>7. ASSUME NEW bundles, RunCurrent(bundles) PROVE DroppedInv'
    <3>1. /\ tree' = head /\ head' = head /\ head.store # {}
      BY <2>7 DEF RunCurrent, Base, Complete
    <3> QED BY <3>1 DEF InputsFrom, FilesIn
  <2>8. ASSUME NEW bundles, NEW noAnswer, RunChanged(bundles, noAnswer) PROVE DroppedInv'
    BY <2>1, <2>8 DEF RunChanged
  <2>9. CASE RunFromCommitted \/ Cleared \/ WriteCollected \/ WriteStore
    BY <2>1, <2>9 DEF RunFromCommitted, Cleared, WriteCollected, WriteStore
  <2>10. ASSUME NEW p, RemoveFile(p) PROVE DroppedInv'
    BY <2>1, <2>10 DEF RemoveFile
  <2>11. ASSUME NEW u, WriteBundle(u) PROVE DroppedInv'
    BY <2>1, <2>11 DEF WriteBundle
  <2>12. ASSUME NEW u, WriteRefused(u) PROVE DroppedInv'
    BY <2>2, <2>12 DEF WriteRefused, Ends
  <2>13. CASE WriteDropped
    <3> DEFINE rest == InputsFrom(tree.crawl) \ tree.store
    <3>1. tree \in Tree /\ head' = head /\ tree' = [tree EXCEPT !.dropped = rest]
      BY <2>13 DEF WriteDropped, TypeOK
    <3>2. tree'.dropped = rest /\ tree'.crawl = tree.crawl /\ tree'.store = tree.store
      BY <3>1 DEF Tree
    <3> QED BY <3>1, <3>2 DEF InputsFrom, FilesIn
  <2>14. CASE Merge
    BY <2>14 DEF Merge, Ends, InputsFrom, FilesIn
  <2> QED BY <2>4, <2>5, <2>6, <2>7, <2>8, <2>9, <2>10, <2>11, <2>12, <2>13, <2>14
          DEF Next, Run, Write
<1>3. DroppedInv => DroppedListsTheRest
  BY DEF DroppedInv, DroppedListsTheRest
<1> QED BY <1>1, <1>2, <1>3, TypeCorrect, PTL DEF Spec

-----------------------------------------------------------------------------
(* Walks: what a walk returned leads to all of itself, and walking it      *)
(* again finds the same.                                                   *)

LEMMA ReachedIsClosed ==
  ASSUME NEW folder
  PROVE  /\ Reachable(folder) \subseteq Uris
         /\ ClosedUnder(folder, Reachable(folder))
         /\ \A S \in SUBSET Uris :
              ClosedUnder(folder, S) => Reachable(folder) \subseteq S
<1>1. LinksOf(Anchors) \subseteq Uris
  BY MeshAssumption DEF LinksOf
<1>2. LinksOf(Anchors) \subseteq Reachable(folder)
  BY <1>1 DEF Reachable, ClosedUnder
<1>3. ASSUME NEW u \in Reachable(folder) \cap Held(folder)
      PROVE  LinksOf(CertsIn(folder[u])) \subseteq Reachable(folder)
  <2>1. \A S \in SUBSET Uris :
          ClosedUnder(folder, S) => LinksOf(CertsIn(folder[u])) \subseteq S
    BY <1>3 DEF Reachable, ClosedUnder
  <2>2. LinksOf(CertsIn(folder[u])) \subseteq Uris
    BY MeshAssumption DEF LinksOf, CertsIn
  <2> QED BY <2>1, <2>2 DEF Reachable
<1> QED
  BY <1>2, <1>3 DEF Reachable, ClosedUnder

LEMMA WalkReachesTheSame ==
  ASSUME NEW view
  PROVE  /\ Reachable(WalkOf(view)) = Reachable(view)
         /\ IsWalk(WalkOf(view))
<1> DEFINE R == Reachable(view)
           w == WalkOf(view)
<1>1. R \subseteq Uris /\ ClosedUnder(view, R)
      /\ \A S \in SUBSET Uris : ClosedUnder(view, S) => R \subseteq S
  BY ReachedIsClosed
<1>2. w = [u \in Uris |-> IF u \in R THEN view[u] ELSE NoBody]
  BY DEF WalkOf
<1> HIDE DEF R, w
<1>3. /\ \A u \in R : w[u] = view[u]
      /\ Held(w) = R \cap Held(view)
  BY <1>1, <1>2 DEF Held
<1>4. ClosedUnder(w, R)
  BY <1>1, <1>3 DEF ClosedUnder
<1>5. Reachable(w) \subseteq R
  BY <1>1, <1>4, ReachedIsClosed
<1>6. ASSUME NEW S \in SUBSET Uris, ClosedUnder(w, S) PROVE R \subseteq S
  <2>1. ClosedUnder(view, S \cap R)
    BY <1>1, <1>3, <1>6 DEF ClosedUnder
  <2> QED BY <1>1, <2>1
<1>7. R \subseteq Reachable(w)
  BY <1>1, <1>6 DEF Reachable
<1> QED
  BY <1>3, <1>5, <1>7 DEF IsWalk, R, w

LEMMA WalkAgain ==
  ASSUME NEW w \in Folder, IsWalk(w)
  PROVE  WalkOf(w) = w
<1> DEFINE R == Reachable(w)
<1>1. \A u \in Uris \ R : w[u] = NoBody
  BY DEF IsWalk, Held
<1>2. WalkOf(w) = [u \in Uris |-> IF u \in R THEN w[u] ELSE NoBody]
  BY DEF WalkOf
<1> HIDE DEF R
<1> QED
  BY <1>1, <1>2 DEF Folder

-----------------------------------------------------------------------------
(* Runs from a checkout, of repositories that have a file each.            *)

OwnFiles ==
  \A u, v \in Uris : PathOf[u] = PathOf[v] /\ PathOf[u] # NoPath => u = v

(* The folder holds what the walk has for the repositories in done, and    *)
(* nothing else.                                                           *)
Image(crawl, walk, done) ==
  /\ \A u \in done : PathOf[u] \in Paths /\ crawl[PathOf[u]] = walk[u]
  /\ \A p \in FilesIn(crawl) : \E u \in done : PathOf[u] = p

(* A walk of repositories of which the silent ones have what is committed  *)
(* for them, and which is not what is committed.                           *)
NewWalk(h, walk, noAnswer) ==
  /\ IsWalk(walk)
  /\ \A u \in noAnswer \cap Reachable(walk) : walk[u] = EarlierCopy(h.crawl, u)
  /\ Complete(h) => ~SameFiles(walk, h.crawl)

(* A run without a walk leaves the bundles and their date alone.           *)
NoWalk == /\ Held(walked) = {} /\ silent = {}
          /\ tree.crawl = head.crawl /\ tree.collected = head.collected

InHand(done) == NewWalk(head, walked, silent) /\ Image(tree.crawl, walked, done)

WalkInv ==
  /\ HoldsOneWalk(head.crawl)
  /\ head.store # {} => Complete(head)
  /\ pc = "clear" => NewWalk(head, walked, silent) /\ todo = Held(walked)
  /\ pc = "write" => InHand(Held(walked) \ todo)
  /\ pc \in {"generate", "dropped"} \/ Returned({"regenerated"}) =>
       NoWalk \/ InHand(Held(walked))
  /\ pc = "dropped" \/ Returned({"regenerated"}) => Complete(tree)

(* What is read back of a folder written from a walk is the walk.          *)
LEMMA ReadBack ==
  ASSUME OwnFiles, NEW walk \in Folder, NEW crawl \in [Paths -> Bundles \cup {NoBody}],
         Image(crawl, walk, Held(walk))
  PROVE  /\ \A u \in Uris : EarlierCopy(crawl, u) = walk[u]
         /\ SameFiles(walk, crawl)
<1>1. ASSUME NEW u \in Uris PROVE EarlierCopy(crawl, u) = walk[u]
  <2>1. CASE u \in Held(walk)
    BY <2>1, RefreshAssumption DEF Image, EarlierCopy
  <2>2. CASE u \notin Held(walk)
    <3>1. walk[u] = NoBody
      BY <2>2 DEF Held
    <3>2. CASE PathOf[u] = NoPath
      BY <3>1, <3>2 DEF EarlierCopy
    <3>3. CASE PathOf[u] # NoPath
      <4>1. PathOf[u] \in Paths
        BY <3>3, RefreshAssumption
      <4>2. PathOf[u] \notin FilesIn(crawl)
        BY <2>2, <3>3 DEF Image, OwnFiles, Held
      <4> QED BY <3>1, <3>3, <4>1, <4>2 DEF EarlierCopy, FilesIn
    <3> QED BY <3>2, <3>3
  <2> QED BY <2>1, <2>2
<1>2. \A u, v \in Held(walk) : PathOf[u] = PathOf[v] => u = v
  BY RefreshAssumption DEF Image, OwnFiles, Held
<1>3. ASSUME NEW u \in Held(walk)
      PROVE  PathOf[u] \in FilesIn(crawl) /\ crawl[PathOf[u]] = walk[u]
  BY DEF Image, Held, FilesIn
<1>4. ASSUME NEW p \in FilesIn(crawl)
      PROVE  \E u \in Held(walk) : PathOf[u] = p /\ walk[u] = crawl[p]
  BY DEF Image
<1>5. {<<PathOf[u], walk[u]>> : u \in Held(walk)} = {<<p, crawl[p]>> : p \in FilesIn(crawl)}
  BY <1>3, <1>4
<1> QED
  BY <1>1, <1>2, <1>5 DEF SameFiles

LEMMA FilesOfAWalk ==
  ASSUME OwnFiles, NEW walk \in Folder, NEW crawl \in [Paths -> Bundles \cup {NoBody}],
         Image(crawl, walk, Held(walk)), IsWalk(walk)
  PROVE  HoldsOneWalk(crawl)
<1> DEFINE view == [u \in Uris |-> EarlierCopy(crawl, u)]
<1>1. view = walk
  BY ReadBack DEF Folder
<1>2. \A p \in FilesIn(crawl) : \E u \in Reachable(walk) : PathOf[u] = p
  BY DEF Image, IsWalk
<1> HIDE DEF view
<1>3. \A p \in FilesIn(crawl) : \E u \in Reachable(view) : PathOf[u] = p
  BY <1>1, <1>2
<1> QED
  BY <1>3 DEF HoldsOneWalk, view

LEMMA WalkStays ==
  ASSUME UNCHANGED <<head, tree, walked, silent>>
  PROVE  /\ HoldsOneWalk(head.crawl)' = HoldsOneWalk(head.crawl)
         /\ Complete(head)' = Complete(head) /\ Complete(tree)' = Complete(tree)
         /\ NewWalk(head, walked, silent)' = NewWalk(head, walked, silent)
         /\ NoWalk' = NoWalk
         /\ Held(walked)' = Held(walked)
         /\ InHand(Held(walked))' = InHand(Held(walked))
<1>1. /\ Complete(head)' = Complete(head) /\ Complete(tree)' = Complete(tree)
      /\ HoldsOneWalk(head.crawl)' = HoldsOneWalk(head.crawl)
  BY DEF Complete, FilesIn, HoldsOneWalk, Reachable, ClosedUnder, LinksOf, Held, EarlierCopy
<1>2. /\ Held(walked)' = Held(walked) /\ NoWalk' = NoWalk
  BY DEF Held, NoWalk
<1>3. /\ IsWalk(walked)' = IsWalk(walked) /\ Reachable(walked)' = Reachable(walked)
  BY DEF IsWalk, Reachable, ClosedUnder, LinksOf, Held
<1>4. SameFiles(walked, head.crawl)' = SameFiles(walked, head.crawl)
  BY DEF SameFiles, Held, FilesIn
<1>5. NewWalk(head, walked, silent)' = NewWalk(head, walked, silent)
  BY <1>1, <1>3, <1>4 DEF NewWalk, EarlierCopy
<1>6. InHand(Held(walked))' = InHand(Held(walked))
  BY <1>2, <1>5 DEF InHand, Image, FilesIn
<1> QED
  BY <1>1, <1>2, <1>5, <1>6

(* The part of the invariant that only a merge moves.                      *)
LEMMA HeadStays ==
  ASSUME WalkInv, UNCHANGED head
  PROVE  HoldsOneWalk(head.crawl)' /\ (head.store # {} => Complete(head))'
<1>1. /\ Complete(head)' = Complete(head)
      /\ HoldsOneWalk(head.crawl)' = HoldsOneWalk(head.crawl)
  BY DEF Complete, FilesIn, HoldsOneWalk, Reachable, ClosedUnder, LinksOf, Held, EarlierCopy
<1> QED
  BY <1>1 DEF WalkInv

LEMMA NewWalkStays ==
  ASSUME UNCHANGED <<head, walked, silent>>, NewWalk(head, walked, silent)
  PROVE  NewWalk(head, walked, silent)' /\ Held(walked)' = Held(walked)
<1>1. Complete(head)' = Complete(head)
  BY DEF Complete, FilesIn
<1>2. /\ IsWalk(walked)' = IsWalk(walked) /\ Reachable(walked)' = Reachable(walked)
      /\ Held(walked)' = Held(walked)
  BY DEF IsWalk, Reachable, ClosedUnder, LinksOf, Held
<1>3. SameFiles(walked, head.crawl)' = SameFiles(walked, head.crawl)
  BY DEF SameFiles, Held, FilesIn
<1> QED
  BY <1>1, <1>2, <1>3 DEF NewWalk, EarlierCopy

LEMMA OneMoreFile ==
  ASSUME OwnFiles, NEW walk \in Folder, NEW crawl \in [Paths -> Bundles \cup {NoBody}],
         NEW done \in SUBSET Uris, NEW u \in Uris \ done,
         PathOf[u] # NoPath, Image(crawl, walk, done)
  PROVE  Image([crawl EXCEPT ![PathOf[u]] = walk[u]], walk, done \cup {u})
<1> DEFINE after == [crawl EXCEPT ![PathOf[u]] = walk[u]]
<1>1. PathOf[u] \in Paths
  BY RefreshAssumption
<1>2. after[PathOf[u]] = walk[u]
      /\ \A p \in Paths : p # PathOf[u] => after[p] = crawl[p]
  BY <1>1
<1> HIDE DEF after
<1>3. \A v \in done : PathOf[v] # PathOf[u]
  BY DEF OwnFiles
<1>4. \A v \in done \cup {u} : PathOf[v] \in Paths /\ after[PathOf[v]] = walk[v]
  BY <1>1, <1>2, <1>3 DEF Image
<1>5. \A p \in FilesIn(after) : \E v \in done \cup {u} : PathOf[v] = p
  BY <1>2 DEF Image, FilesIn
<1> QED
  BY <1>4, <1>5 DEF Image, after

LEMMA WalkInvAlways ==
  ASSUME FreshCheckout = TRUE, OwnFiles
  PROVE  Spec => []WalkInv
<1>1. Init => WalkInv
  <2> SUFFICES ASSUME Init PROVE WalkInv
    OBVIOUS
  <2>1. FilesIn(head.crawl) = {} /\ head.store = {}
    BY DEF Init, FilesIn
  <2> QED BY <2>1 DEF Init, WalkInv, HoldsOneWalk, Returned
<1>2. TypeOK /\ WalkInv /\ [Next]_vars => WalkInv'
  <2> SUFFICES ASSUME TypeOK, WalkInv, [Next]_vars PROVE WalkInv'
    OBVIOUS
  <2>1. ASSUME UNCHANGED head, pc' = "idle", outcome' # "regenerated" PROVE WalkInv'
    BY <2>1, HeadStays DEF WalkInv, Returned
  <2>2. ASSUME UNCHANGED <<head, tree, pc, runVars, outcome>> PROVE WalkInv'
    <3>1. todo' = todo /\ Held(walked)' = Held(walked)
          /\ InHand(Held(walked) \ todo)' = InHand(Held(walked) \ todo)
      BY <2>2, WalkStays DEF runVars, InHand, Image, FilesIn
    <3> QED BY <2>2, <3>1, WalkStays DEF WalkInv, runVars, Returned
  <2>3. CASE (\E u \in Uris : Publish(u)) \/ DayPasses \/ UNCHANGED vars
    BY <2>2, <2>3 DEF Publish, DayPasses, vars
  <2>4. CASE RunTruncated \/ CannotGenerate \/ RunDies
    BY <2>1, <2>4 DEF RunTruncated, CannotGenerate, RunDies, Ends
  <2>5. ASSUME NEW bundles, RunRefused(bundles) \/ RunCurrent(bundles) PROVE WalkInv'
    BY <2>1, <2>5 DEF RunRefused, RunCurrent, Ends
  <2>6. ASSUME NEW down \in SUBSET Uris,
               NEW bundles \in {WalkOf(View(Base.crawl, down))},
               RunChanged(bundles, down \cap Reachable(bundles))
        PROVE  WalkInv'
    <3> DEFINE view == View(head.crawl, down)
               noAnswer == down \cap Reachable(bundles)
    <3>1. Base = head /\ bundles = WalkOf(view)
      BY DEF Base
    <3>2. IsWalk(bundles) /\ Reachable(bundles) = Reachable(view)
      BY <3>1, WalkReachesTheSame
    <3>3. \A u \in noAnswer : bundles[u] = EarlierCopy(head.crawl, u)
      <4>1. \A u \in Reachable(view) : bundles[u] = view[u]
        BY <3>1, ReachedIsClosed DEF WalkOf
      <4>2. \A u \in down : view[u] = EarlierCopy(head.crawl, u)
        BY DEF View
      <4> QED BY <3>2, <4>1, <4>2
    <3>4. NewWalk(head, bundles, noAnswer)
      BY <2>6, <3>1, <3>2, <3>3 DEF NewWalk, RunChanged
    <3> HIDE DEF noAnswer
    <3>5. /\ walked' = bundles /\ silent' = noAnswer /\ head' = head
          /\ todo' = Held(bundles) /\ pc' = "clear"
      BY <2>6 DEF RunChanged, noAnswer
    <3>6. NewWalk(head', walked', silent')
      BY <3>4, <3>5
    <3>7. NewWalk(head, walked, silent)' /\ Held(walked)' = Held(walked')
      BY <3>6 DEF NewWalk, IsWalk, Reachable, ClosedUnder, LinksOf, Held, EarlierCopy,
                  Complete, SameFiles, FilesIn
    <3> QED BY <3>5, <3>7, HeadStays DEF WalkInv, Returned
  <2>7. CASE RunFromCommitted
    <3>1. Held(walked)' = {}
      BY <2>7 DEF RunFromCommitted, Held
    <3>2. NoWalk'
      BY <2>7, <3>1 DEF RunFromCommitted, Base, NoWalk
    <3> QED BY <2>7, <3>2, HeadStays DEF RunFromCommitted, WalkInv, Returned
  <2>8. ASSUME NEW p, RemoveFile(p) PROVE WalkInv'
    BY <2>8, HeadStays, NewWalkStays DEF RemoveFile, WalkInv, runVars, Returned
  <2>9. CASE Cleared
    <3>1. /\ pc = "clear" /\ pc' = "write" /\ UNCHANGED <<head, tree, walked, silent, todo>>
          /\ FilesIn(tree.crawl) = {}
      BY <2>9 DEF Cleared, runVars
    <3>2. NewWalk(head, walked, silent)' /\ Held(walked)' \ todo' = {}
      BY <3>1, NewWalkStays DEF WalkInv
    <3>3. InHand(Held(walked) \ todo)'
      BY <3>1, <3>2 DEF InHand, Image, FilesIn
    <3> QED BY <3>1, <3>3, HeadStays DEF WalkInv, Returned
  <2>10. ASSUME NEW u \in todo, WriteBundle(u) PROVE WalkInv'
    <3> DEFINE done == Held(walked) \ todo
               crawl == [tree.crawl EXCEPT ![PathOf[u]] = walked[u]]
    <3>1. /\ pc = "write" /\ pc' = "write" /\ UNCHANGED <<head, walked, silent>>
          /\ PathOf[u] # NoPath /\ todo' = todo \ {u}
      BY <2>10 DEF WriteBundle
    <3>2. tree'.crawl = crawl
      BY <2>10 DEF WriteBundle, TypeOK, Tree
    <3>3. /\ done \in SUBSET Uris /\ u \in Uris \ done
          /\ walked \in Folder /\ tree.crawl \in [Paths -> Bundles \cup {NoBody}]
          /\ done \cup {u} = Held(walked) \ todo'
      BY <3>1, StaticTypes DEF TypeOK, Held
    <3>4. NewWalk(head, walked, silent)' /\ Held(walked)' = Held(walked)
      BY <3>1, NewWalkStays DEF WalkInv, InHand
    <3> HIDE DEF crawl, done
    <3>5. Image(tree.crawl, walked, done)
      BY <3>1 DEF WalkInv, InHand, done
    <3>6. Image(crawl, walked, done \cup {u})
      BY <3>1, <3>3, <3>5, OneMoreFile DEF crawl
    <3>7. InHand(Held(walked) \ todo)'
      BY <3>1, <3>2, <3>3, <3>4, <3>6 DEF InHand, Image, FilesIn
    <3> QED BY <3>1, <3>7, HeadStays DEF WalkInv, Returned
  <2>11. ASSUME NEW u, WriteRefused(u) PROVE WalkInv'
    BY <2>1, <2>11 DEF WriteRefused, Ends
  <2>12. CASE WriteCollected
    <3>1. /\ pc = "write" /\ pc' = "generate" /\ todo = {}
          /\ UNCHANGED <<head, walked, silent>>
      BY <2>12 DEF WriteCollected, runVars
    <3>2. tree'.crawl = tree.crawl
      BY <2>12 DEF WriteCollected, TypeOK, Tree
    <3>3. InHand(Held(walked))
      BY <3>1 DEF WalkInv
    <3>4. NewWalk(head, walked, silent)' /\ Held(walked)' = Held(walked)
      BY <3>1, <3>3, NewWalkStays DEF InHand
    <3>5. InHand(Held(walked))'
      BY <3>1, <3>2, <3>3, <3>4 DEF InHand, Image, FilesIn
    <3> QED BY <3>1, <3>5, HeadStays DEF WalkInv, Returned
  <2>13. ASSUME pc \in {"generate", "dropped"}, UNCHANGED <<head, walked, silent>>,
                tree'.crawl = tree.crawl, tree'.collected = tree.collected,
                Complete(tree'), pc' = "dropped" \/ pc' = "idle"
         PROVE  WalkInv'
    <3>1. Complete(tree)'
      BY <2>13 DEF Complete, FilesIn
    <3>2. CASE NoWalk
      <4>1. NoWalk'
        BY <2>13, <3>2 DEF NoWalk, Held
      <4> QED BY <2>13, <3>1, <4>1, HeadStays DEF WalkInv, Returned
    <3>3. CASE InHand(Held(walked))
      <4>1. NewWalk(head, walked, silent)' /\ Held(walked)' = Held(walked)
        BY <2>13, <3>3, NewWalkStays DEF InHand
      <4>2. InHand(Held(walked))'
        BY <2>13, <3>3, <4>1 DEF InHand, Image, FilesIn
      <4> QED BY <2>13, <3>1, <4>2, HeadStays DEF WalkInv, Returned
    <3> QED BY <2>13, <3>2, <3>3 DEF WalkInv
  <2>14. CASE WriteStore
    <3> DEFINE store == StoreOf(tree)
    <3>1. store # {} /\ tree \in Tree /\ tree.collected # NoDate /\ FilesIn(tree.crawl) # {}
      BY <2>14 DEF WriteStore, CanGenerate, TypeOK
    <3>2. tree' = [tree EXCEPT !.store = store] /\ pc = "generate" /\ pc' = "dropped"
          /\ UNCHANGED <<head, walked, silent>>
      BY <2>14 DEF WriteStore, runVars
    <3> HIDE DEF store
    <3>3. tree'.crawl = tree.crawl /\ tree'.collected = tree.collected /\ tree'.store = store
      BY <3>1, <3>2 DEF Tree
    <3>4. Complete(tree')
      BY <3>1, <3>3 DEF Complete
    <3> QED BY <2>13, <3>2, <3>3, <3>4
  <2>15. CASE WriteDropped
    <3> DEFINE rest == InputsFrom(tree.crawl) \ tree.store
    <3>1. tree' = [tree EXCEPT !.dropped = rest] /\ pc = "dropped" /\ pc' = "idle"
          /\ UNCHANGED <<head, walked, silent>> /\ tree \in Tree
      BY <2>15 DEF WriteDropped, runVars, TypeOK
    <3> HIDE DEF rest
    <3>2. /\ tree'.crawl = tree.crawl /\ tree'.collected = tree.collected
          /\ tree'.store = tree.store
      BY <3>1 DEF Tree
    <3>3. Complete(tree')
      BY <3>1, <3>2 DEF WalkInv, Complete
    <3> QED BY <2>13, <3>1, <3>2, <3>3
  <2>16. CASE Merge
    <3>1. /\ Returned({"regenerated"}) /\ head' = tree /\ pc' = "idle" /\ outcome' = "merged"
      BY <2>16 DEF Merge, Ends, Returned
    <3>2. HoldsOneWalk(tree.crawl)
      <4>1. CASE NoWalk
        BY <4>1 DEF NoWalk, WalkInv
      <4>2. CASE InHand(Held(walked))
        BY <4>2, StaticTypes, FilesOfAWalk DEF InHand, NewWalk, TypeOK
      <4> QED BY <3>1, <4>1, <4>2 DEF WalkInv
    <3>3. Complete(tree)
      BY <3>1 DEF WalkInv
    <3>4. HoldsOneWalk(head.crawl)' /\ Complete(head)'
      BY <3>1, <3>2, <3>3
         DEF Complete, FilesIn, HoldsOneWalk, Reachable, ClosedUnder, LinksOf, Held, EarlierCopy
    <3> QED BY <3>1, <3>4 DEF WalkInv, Returned
  <2> QED BY <2>3, <2>4, <2>5, <2>6, <2>7, <2>8, <2>9, <2>10, <2>11, <2>12,
             <2>14, <2>15, <2>16
          DEF Next, Run, Write
<1> QED BY <1>1, <1>2, TypeCorrect, PTL DEF Spec

(* THEOREM FolderIsAWalk: where repositories have a file each and runs     *)
(* start from a checkout, every committed bundle is one a walk reaches     *)
(* through the others, so nothing a repository has withdrawn stays.        *)
THEOREM FolderIsAWalk ==
  ASSUME FreshCheckout = TRUE, OwnFiles
  PROVE  Spec => []CommittedIsAWalk
<1>1. WalkInv => CommittedIsAWalk
  BY DEF WalkInv, CommittedIsAWalk
<1> QED BY <1>1, WalkInvAlways, PTL

(* THEOREM SilenceIsFree: and a repository that gives no answer keeps the  *)
(* bundle committed for it as long as anything leads to it.                *)
THEOREM SilenceIsFree ==
  ASSUME FreshCheckout = TRUE, OwnFiles
  PROVE  Spec => []SilenceCostsNothing
<1>1. TypeOK /\ WalkInv => SilenceCostsNothing
  <2> SUFFICES ASSUME TypeOK, WalkInv, Returned({"regenerated"}),
                      NEW u \in silent \cap Reachable(walked)
               PROVE  EarlierCopy(tree.crawl, u) = EarlierCopy(head.crawl, u)
    BY DEF SilenceCostsNothing
  <2>1. InHand(Held(walked))
    BY DEF WalkInv, NoWalk
  <2>2. walked[u] = EarlierCopy(head.crawl, u)
    BY <2>1 DEF InHand, NewWalk
  <2>3. u \in Uris /\ walked \in Folder /\ tree.crawl \in [Paths -> Bundles \cup {NoBody}]
    BY StaticTypes DEF TypeOK
  <2> QED BY <2>1, <2>2, <2>3, ReadBack DEF InHand
<1> QED BY <1>1, WalkInvAlways, TypeCorrect, PTL

(* THEOREM NothingToDoAgain: a run that finds the repositories as the run  *)
(* before found them has nothing to write, the silent ones included.       *)
THEOREM NothingToDoAgain ==
  ASSUME FreshCheckout = TRUE, OwnFiles
  PROVE  Spec => []SecondRunIsCurrent
<1>1. TypeOK /\ WalkInv => SecondRunIsCurrent
  <2> SUFFICES ASSUME TypeOK, WalkInv, Returned({"regenerated"}), Held(walked) # {}
               PROVE  Complete(tree) /\ SameFiles(WalkOf(Replay), tree.crawl)
    BY DEF SecondRunIsCurrent
  <2>1. Complete(tree) /\ InHand(Held(walked))
    BY DEF WalkInv, NoWalk
  <2>2. /\ \A u \in Uris : EarlierCopy(tree.crawl, u) = walked[u]
        /\ SameFiles(walked, tree.crawl)
    BY <2>1, StaticTypes, ReadBack DEF InHand, TypeOK
  <2>3. Replay = walked
    BY <2>2 DEF Replay, TypeOK, Folder
  <2>4. WalkOf(walked) = walked
    BY <2>1, WalkAgain DEF InHand, NewWalk, TypeOK
  <2> QED BY <2>1, <2>2, <2>3, <2>4
<1> QED BY <1>1, WalkInvAlways, TypeCorrect, PTL

(* THEOREM Implements: where repositories have a file each and runs start  *)
(* from a checkout, the refresh implements CommittedStore: bundles, date   *)
(* and store are replaced together, and the date never moves alone.        *)
THEOREM Implements ==
  ASSUME FreshCheckout = TRUE, OwnFiles
  PROVE  Spec => ImplementsCommittedStore
<1> DEFINE input == [crawl |-> head.crawl, collected |-> head.collected]
<1>1. Init => Committed!Init
  BY DEF Init, Committed!Init
<1>2. TypeOK /\ TypeOK' /\ StoreInv /\ StoreInv' /\ WalkInv /\ [Next]_vars
      => [Committed!Next]_(Committed!vars)
  <2> SUFFICES ASSUME TypeOK, TypeOK', StoreInv, StoreInv', WalkInv, [Next]_vars
               PROVE  [Committed!Next]_(Committed!vars)
    OBVIOUS
  <2>1. CASE UNCHANGED head
    BY <2>1 DEF Committed!vars
  <2>2. CASE Merge
    <3>1. head' = tree /\ Returned({"regenerated"}) /\ tree' = tree
          /\ pc' = "idle" /\ outcome' = "merged"
      BY <2>2 DEF Merge, Ends, Returned
    <3>2. head'.store = StoreOf(tree)
      BY <3>1 DEF StoreInv, Returned
    <3>3. StoreOf(tree) = StoreOf(input')
      BY <3>1 DEF StoreOf
    <3>4. ASSUME head.store # {}, input'.collected # input.collected
          PROVE  input'.crawl # input.crawl
      <4>1. Complete(head) /\ InHand(Held(walked))
        BY <3>1, <3>4 DEF WalkInv, NoWalk
      <4>2. SameFiles(walked, tree.crawl)
        BY <4>1, StaticTypes, ReadBack DEF InHand, TypeOK
      <4>3. ~SameFiles(walked, head.crawl)
        BY <4>1 DEF InHand, NewWalk
      <4> QED BY <3>1, <4>2, <4>3
    <3>5. head.store # {} => DateMovesWithBundles(input', input)
      BY <3>4 DEF DateMovesWithBundles
    <3> QED BY <3>2, <3>3, <3>5 DEF Committed!Next, Committed!Commit
  <2>3. CASE ~(UNCHANGED head) /\ ~Merge
    BY <2>3
       DEF Next, Run, Write, Publish, DayPasses, RunTruncated, RunFromCommitted, RunRefused,
           RunCurrent, RunChanged, RemoveFile, Cleared, WriteBundle, WriteRefused,
           WriteCollected, CannotGenerate, WriteStore, WriteDropped, RunDies, vars
  <2> QED BY <2>1, <2>2, <2>3
<1>3. Spec => [](TypeOK /\ StoreInv /\ WalkInv)
  BY TypeCorrect, StoreInvAlways, WalkInvAlways, PTL
<1> QED
  BY <1>1, <1>2, <1>3, PTL DEF Spec, ImplementsCommittedStore, Committed!Spec
=============================================================================
