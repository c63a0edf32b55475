------------------------- MODULE TpmRefresh_proofs -------------------------
(***************************************************************************)
(* Proofs about TpmRefresh, for every sequence of releases and any number  *)
(* of runs, wherever they die.  Runs start from a fresh checkout, and no   *)
(* cabinet leaves an empty store: without the second assumption the        *)
(* violation run of TpmRefresh shows what happens.                         *)
(***************************************************************************)
EXTENDS TpmRefresh, TLAPS

LEMMA TreeParts ==
  ASSUME NEW t \in Tree
  PROVE  /\ t.roots \in SUBSET Certs /\ t.store \in SUBSET Certs
         /\ t.dropped \in SUBSET Certs
         /\ t.published \in Days \cup {NoDate} /\ t.collected \in Days \cup {NoDate}
         /\ t.asOf \in AsOfs \cup {NoDate} /\ t.cab \in Cabs \cup {NoCab}
         /\ \A s \in SUBSET Certs : /\ [t EXCEPT !.roots = s] \in Tree
                                    /\ [t EXCEPT !.store = s] \in Tree
                                    /\ [t EXCEPT !.dropped = s] \in Tree
         /\ \A d \in Days \cup {NoDate} : /\ [t EXCEPT !.published = d] \in Tree
                                          /\ [t EXCEPT !.collected = d] \in Tree
         /\ \A d \in AsOfs \cup {NoDate} : [t EXCEPT !.asOf = d] \in Tree
         /\ \A c \in Cabs \cup {NoCab} : [t EXCEPT !.cab = c] \in Tree
BY DEF Tree

LEMMA OfferedAreCabs ==
  ASSUME released \in 1..Len(Releases)
  PROVE  Offered \subseteq Cabs
BY TpmAssumption DEF Offered

-----------------------------------------------------------------------------
(* The cabinet of a run in progress is vouched for and dated.              *)
Usable(c) == c \in Vouched /\ Published[c] # NoDate

CabInHand ==
  /\ head.cab # NoCab => Usable(head.cab)
  /\ tree.cab # NoCab => Usable(tree.cab)
  /\ pc # "idle" => Usable(cab)

LEMMA KeptType ==
  ASSUME NEW c \in Cabs, Usable(c), NEW d \in AsOfs \cup {NoDate}
  PROVE  Kept(c, d) \subseteq CasOf[c] /\ Kept(c, d) \in SUBSET Certs
<1>1. (IF d = NoDate THEN Published[c] ELSE d) \in Days
  BY TpmAssumption DEF Usable
<1>2. Kept(c, d) \subseteq CasOf[c]
  BY <1>1, TpmAssumption DEF Kept
<1> QED BY <1>2, TpmAssumption

Typed == TypeOK /\ CabInHand

(* Each kind of step keeps the types.                                      *)
LEMMA DeclinesTyped ==
  ASSUME Typed, NEW c \in Cabs \cup {NoCab}, NEW how \in {"kept", "failed", "current"},
         Declines(c, how)
  PROVE  Typed'
BY DEF Typed, TypeOK, CabInHand, Declines, Ends, Base, envVars

LEMMA StartsTyped ==
  ASSUME Typed, NEW c \in Cabs, Usable(c), NEW from \in {"fetched", "committed"},
         NEW d \in AsOfs \cup {NoDate}, Starts(c, from, d)
  PROVE  Typed'
BY DEF Typed, TypeOK, CabInHand, Starts, Base, envVars, Usable

LEMMA WritesTyped ==
  ASSUME Typed, NEW files \in Tree, files.cab = tree.cab, NEW from,
         NEW to \in {"clear", "roots", "store", "published",
                     "collected", "dropped", "cab"},
         from # "idle", Writes(from, to, files)
  PROVE  Typed'
BY DEF Typed, TypeOK, CabInHand, Writes, envVars, argVars, Usable

LEMMA TypedAlways == Spec => []Typed
<1>1. Init => Typed
  BY TpmAssumption DEF Init, Typed, TypeOK, CabInHand, Tree, Days
<1>2. Typed /\ [Next]_vars => Typed'
  <2> SUFFICES ASSUME Typed, [Next]_vars PROVE Typed'
    OBVIOUS
  <2>1. Offered \subseteq Cabs /\ tree \in Tree /\ cab \in Cabs \cup {NoCab}
        /\ day \in Days /\ asOf \in AsOfs \cup {NoDate}
    BY OfferedAreCabs DEF Typed, TypeOK
  <2>2. CASE DayPasses
    BY <2>2, TpmAssumption
       DEF DayPasses, Typed, TypeOK, CabInHand, argVars, Days, Usable
  <2>3. CASE Release
    BY <2>3, TpmAssumption
       DEF Release, Typed, TypeOK, CabInHand, argVars, Usable
  <2>4. CASE RunNoAnswer
    BY <2>4, DeclinesTyped DEF RunNoAnswer
  <2>5. ASSUME NEW c \in Offered, RunUnvouched(c) \/ RunUndated(c) \/ RunOlder(c) \/ RunCurrent(c)
        PROVE  Typed'
    BY <2>1, <2>5, DeclinesTyped DEF RunUnvouched, RunUndated, RunOlder, RunCurrent
  <2>6. ASSUME NEW c \in Offered, NEW d \in AsOfs \cup {NoDate}, RunTaken(c, d)
        PROVE  Typed'
    BY <2>1, <2>6, StartsTyped DEF RunTaken, Usable
  <2>7. ASSUME NEW d \in AsOfs \cup {NoDate}, RunFromCommitted(d) PROVE Typed'
    <3>1. Base.cab \in Cabs /\ Usable(Base.cab)
      BY <2>7, TreeParts DEF RunFromCommitted, Base, Typed, TypeOK, CabInHand
    <3> QED BY <2>7, <3>1, StartsTyped DEF RunFromCommitted
  <2>8. CASE WriteAsOf
    <3>1. [tree EXCEPT !.asOf = asOf] \in Tree /\ [tree EXCEPT !.asOf = asOf].cab = tree.cab
      BY <2>1, TreeParts DEF Tree
    <3> QED BY <2>8, <3>1, WritesTyped DEF WriteAsOf
  <2>9. CASE ClearRoots
    <3>1. [tree EXCEPT !.roots = {}] \in Tree /\ [tree EXCEPT !.roots = {}].cab = tree.cab
      BY <2>1, TreeParts DEF Tree
    <3> QED BY <2>9, <3>1, WritesTyped DEF ClearRoots
  <2>10. CASE WriteRoots
    <3>1. cab \in Cabs
      BY <2>1, <2>10, TpmAssumption DEF WriteRoots, Writes, Typed, CabInHand, Usable
    <3>2. RootsOf[cab] \in SUBSET Certs
      BY <3>1, TpmAssumption
    <3>3. [tree EXCEPT !.roots = RootsOf[cab]] \in Tree
          /\ [tree EXCEPT !.roots = RootsOf[cab]].cab = tree.cab
      BY <2>1, <3>2, TreeParts DEF Tree
    <3> QED BY <2>10, <3>3, WritesTyped DEF WriteRoots
  <2>11. CASE WriteStore
    <3> DEFINE store == Kept(cab, asOf)
               files == IF store = {} THEN tree ELSE [tree EXCEPT !.store = store]
    <3>1. cab \in Cabs /\ Usable(cab)
      BY <2>1, <2>11, TpmAssumption DEF WriteStore, Writes, Typed, CabInHand, Usable
    <3>2. store \in SUBSET Certs
      BY <2>1, <3>1, KeptType
    <3>3. Writes("store", "published", files)
      BY <2>11 DEF WriteStore
    <3> HIDE DEF store
    <3>4. files \in Tree /\ files.cab = tree.cab
      BY <2>1, <3>2, TreeParts DEF Tree
    <3> HIDE DEF files
    <3> QED BY <3>3, <3>4, WritesTyped
  <2>12. CASE WritePublished
    <3>1. cab \in Cabs
      BY <2>1, <2>12, TpmAssumption DEF WritePublished, Writes, Typed, CabInHand, Usable
    <3>2. Published[cab] \in Days \cup {NoDate}
      BY <3>1, TpmAssumption
    <3>3. [tree EXCEPT !.published = Published[cab]] \in Tree
          /\ [tree EXCEPT !.published = Published[cab]].cab = tree.cab
      BY <2>1, <3>2, TreeParts DEF Tree
    <3> QED BY <2>12, <3>3, WritesTyped DEF WritePublished
  <2>13. CASE WriteCollected
    <3>1. CollectedStamp \in Days \cup {NoDate}
      BY <2>1, TreeParts DEF CollectedStamp
    <3>2. [tree EXCEPT !.collected = CollectedStamp] \in Tree
          /\ [tree EXCEPT !.collected = CollectedStamp].cab = tree.cab
      BY <2>1, <3>1, TreeParts DEF Tree
    <3> QED BY <2>13, <3>2, WritesTyped DEF WriteCollected
  <2>14. CASE WriteDropped
    <3> DEFINE rest == CasOf[cab] \ Kept(cab, asOf)
    <3>1. cab \in Cabs
      BY <2>1, <2>14, TpmAssumption DEF WriteDropped, Writes, Typed, CabInHand, Usable
    <3>2. rest \in SUBSET Certs
      BY <3>1, TpmAssumption
    <3>3. Writes("dropped", "cab", [tree EXCEPT !.dropped = rest])
      BY <2>14 DEF WriteDropped
    <3> HIDE DEF rest
    <3>4. [tree EXCEPT !.dropped = rest] \in Tree
          /\ [tree EXCEPT !.dropped = rest].cab = tree.cab
      BY <2>1, <3>2, TreeParts DEF Tree
    <3> QED BY <3>3, <3>4, WritesTyped
  <2>15. CASE WriteCab
    <3>1. cab \in Cabs /\ Usable(cab)
      BY <2>1, <2>15, TpmAssumption DEF WriteCab, Typed, CabInHand, Usable
    <3>2. [tree EXCEPT !.cab = cab] \in Tree /\ [tree EXCEPT !.cab = cab].cab = cab
      BY <2>1, <3>1, TreeParts DEF Tree
    <3> QED BY <2>15, <3>1, <3>2
            DEF WriteCab, Ends, Typed, TypeOK, CabInHand, envVars, argVars, Usable
  <2>16. CASE RunDies
    BY <2>16, TpmAssumption
       DEF RunDies, Ends, Typed, TypeOK, CabInHand, envVars, argVars, Usable
  <2>17. CASE Merge
    BY <2>17 DEF Merge, Ends, Typed, TypeOK, CabInHand, envVars, argVars, Usable
  <2>18. CASE UNCHANGED vars
    BY <2>18 DEF vars, envVars, argVars, Typed, TypeOK, CabInHand, Usable
  <2> QED BY <2>2, <2>3, <2>4, <2>5, <2>6, <2>7, <2>8, <2>9, <2>10, <2>11, <2>12,
             <2>13, <2>14, <2>15, <2>16, <2>17, <2>18
          DEF Next, Run, Fetch, Write
<1> QED BY <1>1, <1>2, PTL DEF Spec

(* THEOREM TypeCorrect: the runs of tpm_refresh.rs leave every file and    *)
(* every variable of its type.                                             *)
THEOREM TypeCorrect == Spec => []TypeOK
<1>1. Typed => TypeOK
  BY DEF Typed
<1> QED BY <1>1, TypedAlways, PTL

-----------------------------------------------------------------------------
(* What a run has written so far is what its cabinet and reference day     *)
(* yield.                                                                  *)
Written ==
  /\ pc \notin {"idle", "as_of"} => tree.asOf = asOf
  /\ pc \in {"store", "published", "collected", "dropped", "cab"} =>
       tree.roots = RootsOf[cab]
  /\ pc \in {"published", "collected", "dropped", "cab"} =>
       tree.store = Kept(cab, asOf)
  /\ pc \in {"collected", "dropped", "cab"} => tree.published = Published[cab]
  /\ pc = "cab" => tree.dropped = CasOf[cab] \ Kept(cab, asOf)

(* Whatever is committed, and what a run that ended well leaves, is all of *)
(* one cabinet.                                                            *)
Reported == pc = "idle" /\ outcome \in {"current", "regenerated", "merged"}

Committable ==
  /\ head.cab = NoCab => head.store = {} /\ head.published = NoDate
  /\ head.cab # NoCab => Matches(head)
  /\ Reported => Matches(tree)
  /\ pc = "idle" /\ outcome \in {"current", "regenerated"} => tree.cab = cab

NothingEmpties ==
  \A c \in Cabs, d \in AsOfs \cup {NoDate} : Usable(c) => Kept(c, d) # {}

(* The steps that leave the files, or end a run early, leave both.         *)
LEMMA DeclinesCommittable ==
  ASSUME Committable, NEW c, NEW how \in {"kept", "failed"}, Declines(c, how)
  PROVE  Written' /\ Committable'
<1>1. pc' = "idle" /\ outcome' \in {"kept", "failed"} /\ head' = head
  BY DEF Declines, Ends
<1>2. Matches(head) => Matches(head')
  BY <1>1
<1> QED BY <1>1, <1>2 DEF Written, Committable, Reported

LEMMA StartsCommittable ==
  ASSUME Committable, NEW c, NEW from, NEW d, Starts(c, from, d)
  PROVE  Written' /\ Committable'
<1>1. pc' = "as_of" /\ head' = head
  BY DEF Starts
<1> QED BY <1>1 DEF Written, Committable, Reported

LEMMA WritesCommittable ==
  ASSUME Committable, NEW from,
         NEW to \in {"clear", "roots", "store", "published",
                     "collected", "dropped", "cab"},
         NEW files, Writes(from, to, files)
  PROVE  /\ Committable'
         /\ pc' = to /\ tree' = files /\ cab' = cab /\ asOf' = asOf
<1>1. pc' = to /\ tree' = files /\ head' = head /\ cab' = cab /\ asOf' = asOf
  BY DEF Writes, argVars
<1>2. Committable'
  BY <1>1 DEF Committable, Reported
<1> QED BY <1>1, <1>2

LEMMA CommittableAlways ==
  ASSUME \A s \in Settings : s.checkout, NothingEmpties
  PROVE  Spec => [](Written /\ Committable)
<1>1. Init => Written /\ Committable
  BY DEF Init, Written, Committable, Reported
<1>2. Typed /\ Written /\ Committable /\ [Next]_vars => (Written /\ Committable)'
  <2> SUFFICES ASSUME Typed, Written, Committable, [Next]_vars
               PROVE  Written' /\ Committable'
    OBVIOUS
  <2>1. tree \in Tree /\ cab \in Cabs \cup {NoCab} /\ asOf \in AsOfs \cup {NoDate}
        /\ (pc # "idle" => cab \in Cabs /\ cab # NoCab /\ Usable(cab))
    BY TpmAssumption DEF Typed, TypeOK, CabInHand, Usable
  <2>2. CASE DayPasses \/ Release
    BY <2>2 DEF DayPasses, Release, argVars, Written, Committable, Reported, Matches
  <2>3. CASE RunNoAnswer
    BY <2>3, DeclinesCommittable DEF RunNoAnswer
  <2>4. ASSUME NEW c, RunUnvouched(c) \/ RunUndated(c) \/ RunOlder(c)
        PROVE  Written' /\ Committable'
    BY <2>4, DeclinesCommittable DEF RunUnvouched, RunUndated, RunOlder
  <2>5. ASSUME NEW c, RunCurrent(c) PROVE Written' /\ Committable'
    <3>1. tree' = head /\ head' = head /\ cab' = c /\ pc' = "idle" /\ head.cab = c
          /\ head.store # {}
      BY <2>5 DEF Typed, TypeOK, RunCurrent, IsCurrent, Declines, Ends, Base
    <3>2. head.cab # NoCab /\ Matches(head)
      BY <3>1 DEF Committable
    <3> QED BY <3>1, <3>2 DEF Written, Committable, Reported, Matches
  <2>6. ASSUME NEW c, NEW d, RunTaken(c, d) PROVE Written' /\ Committable'
    BY <2>6, StartsCommittable DEF RunTaken
  <2>7. ASSUME NEW d, RunFromCommitted(d) PROVE Written' /\ Committable'
    BY <2>7, StartsCommittable DEF RunFromCommitted
  <2>8. CASE WriteAsOf
    BY <2>1, <2>8, WritesCommittable DEF WriteAsOf, Written, Tree
  <2>9. CASE ClearRoots
    BY <2>1, <2>9, WritesCommittable DEF ClearRoots, Written, Writes, Tree
  <2>10. CASE WriteRoots
    BY <2>1, <2>10, WritesCommittable DEF WriteRoots, Written, Writes, Tree
  <2>11. CASE WriteStore
    <3> DEFINE store == Kept(cab, asOf)
               files == [tree EXCEPT !.store = store]
    <3>1. store # {}
      BY <2>1, <2>11 DEF NothingEmpties, WriteStore, Writes
    <3>2. Writes("store", "published", files)
      BY <2>11, <3>1 DEF WriteStore
    <3>3. pc = "store"
      BY <3>2 DEF Writes
    <3>4. files.store = store /\ files.roots = tree.roots /\ files.asOf = tree.asOf
      BY <2>1 DEF Tree
    <3> HIDE DEF files
    <3>5. /\ Committable'
          /\ pc' = "published" /\ tree' = files /\ cab' = cab /\ asOf' = asOf
      BY <3>2, WritesCommittable
    <3>6. Kept(cab, asOf)' = store
      BY <3>5 DEF Kept
    <3> HIDE DEF store
    <3> QED BY <3>3, <3>4, <3>5, <3>6 DEF Written
  <2>12. CASE WritePublished
    BY <2>1, <2>12, WritesCommittable DEF WritePublished, Written, Writes, Tree, Kept
  <2>13. CASE WriteCollected
    <3> DEFINE stamp == CollectedStamp
               files == [tree EXCEPT !.collected = stamp]
    <3>1. pc = "collected" /\ Writes("collected", "dropped", files)
      BY <2>13 DEF WriteCollected, Writes
    <3> HIDE DEF stamp
    <3>2. /\ files.store = tree.store /\ files.roots = tree.roots
          /\ files.asOf = tree.asOf /\ files.published = tree.published
      BY <2>1 DEF Tree
    <3> HIDE DEF files
    <3>3. /\ Committable'
          /\ pc' = "dropped" /\ tree' = files /\ cab' = cab /\ asOf' = asOf
      BY <3>1, WritesCommittable
    <3> QED BY <3>1, <3>2, <3>3 DEF Written, Kept
  <2>14. CASE WriteDropped
    <3> DEFINE rest == CasOf[cab] \ Kept(cab, asOf)
               files == [tree EXCEPT !.dropped = rest]
    <3>1. pc = "dropped" /\ Writes("dropped", "cab", files)
      BY <2>14 DEF WriteDropped, Writes
    <3>2. /\ files.store = tree.store /\ files.roots = tree.roots
          /\ files.asOf = tree.asOf /\ files.published = tree.published
          /\ files.dropped = rest
      BY <2>1 DEF Tree
    <3> HIDE DEF files
    <3>3. /\ Committable'
          /\ pc' = "cab" /\ tree' = files /\ cab' = cab /\ asOf' = asOf
      BY <3>1, WritesCommittable
    <3> QED BY <3>1, <3>2, <3>3 DEF Written, Kept
  <2>15. CASE WriteCab
    <3>1. pc = "cab" /\ pc' = "idle" /\ head' = head /\ cab' = cab
          /\ cab # NoCab /\ cab \in Cabs
      BY <2>1, <2>15 DEF WriteCab, Ends, argVars
    <3> DEFINE files == [tree EXCEPT !.cab = cab]
    <3>2. /\ files.cab = cab /\ files.asOf = asOf
          /\ files.roots = RootsOf[cab] /\ files.store = Kept(cab, asOf)
          /\ files.published = Published[cab]
          /\ files.dropped = CasOf[cab] \ Kept(cab, asOf)
      BY <2>1, <3>1 DEF Written, Tree
    <3>3. tree' = files
      BY <2>15 DEF WriteCab
    <3> HIDE DEF files
    <3>4. Matches(files)
      BY <3>1, <3>2 DEF Matches, StoreOf
    <3>5. Matches(tree') /\ tree'.cab = cab'
      BY <3>1, <3>2, <3>3, <3>4
    <3>6. Matches(tree)' = Matches(tree')
      BY DEF Matches, StoreOf, Kept
    <3> QED BY <3>1, <3>5, <3>6 DEF Written, Committable, Matches
  <2>16. CASE RunDies
    BY <2>16 DEF RunDies, Ends, argVars, Written, Committable, Reported, Matches
  <2>17. CASE Merge
    <3>1. pc = "idle" /\ outcome = "regenerated" /\ tree' = tree /\ head' = tree
          /\ pc' = "idle" /\ outcome' = "merged"
      BY <2>17 DEF Merge, Ends
    <3>2. Matches(tree) /\ tree.cab # NoCab
      BY <3>1 DEF Committable, Reported, Matches
    <3> QED BY <3>1, <3>2 DEF Written, Committable, Reported, Matches
  <2>18. CASE UNCHANGED vars
    BY <2>18 DEF vars, envVars, argVars, Written, Committable, Reported, Matches
  <2> QED BY <2>2, <2>3, <2>4, <2>5, <2>6, <2>7, <2>8, <2>9, <2>10, <2>11, <2>12,
             <2>13, <2>14, <2>15, <2>16, <2>17, <2>18
          DEF Next, Run, Fetch, Write
<1> QED BY <1>1, <1>2, TypedAlways, PTL DEF Spec

(* THEOREM StoreOfTheCabinet: in runs that start from a fresh checkout, of *)
(* cabinets that each leave something, whatever a run reports current,     *)
(* regenerated or merged is all of one cabinet and one reference date,     *)
(* however many runs died half way before it.                              *)
THEOREM StoreOfTheCabinet ==
  ASSUME \A s \in Settings : s.checkout, NothingEmpties
  PROVE  Spec => []StoreMatchesCabinet
<1>1. Committable => StoreMatchesCabinet
  BY DEF Committable, Reported, StoreMatchesCabinet
<1> QED BY <1>1, CommittableAlways, PTL

(* THEOREM ReissuesAreTaken: a run that fetched and calls the crate        *)
(* current, or regenerated it, leaves the cabinet it fetched, whatever     *)
(* dates the releases bear.                                                *)
THEOREM ReissuesAreTaken == Spec => []ReissueIsTaken
<1>1. Init => ReissueIsTaken
  BY DEF Init, ReissueIsTaken
<1>2. Typed /\ ReissueIsTaken /\ [Next]_vars => ReissueIsTaken'
  <2> SUFFICES ASSUME Typed, ReissueIsTaken, [Next]_vars PROVE ReissueIsTaken'
    OBVIOUS
  <2> USE DEF ReissueIsTaken
  <2>1. CASE DayPasses \/ Release \/ UNCHANGED vars
    BY <2>1 DEF DayPasses, Release, vars, argVars
  <2>2. CASE RunNoAnswer
    BY <2>2 DEF RunNoAnswer, Declines, Ends
  <2>3. ASSUME NEW c, RunUnvouched(c) \/ RunUndated(c) \/ RunOlder(c)
        PROVE  ReissueIsTaken'
    BY <2>3 DEF RunUnvouched, RunUndated, RunOlder, Declines, Ends
  <2>4. ASSUME NEW c, RunCurrent(c) PROVE ReissueIsTaken'
    BY <2>4 DEF RunCurrent, IsCurrent, Declines, Ends
  <2>5. ASSUME NEW c, NEW d, RunTaken(c, d) \/ RunFromCommitted(d)
        PROVE  ReissueIsTaken'
    BY <2>5 DEF RunTaken, RunFromCommitted, Starts
  <2>6. ASSUME NEW from, NEW to, NEW files, to # "idle", Writes(from, to, files)
        PROVE  ReissueIsTaken'
    BY <2>6 DEF Writes
  <2>7. CASE WriteCab
    <3>1. tree'.cab = cab /\ cab' = cab
      BY <2>7 DEF WriteCab, argVars, Typed, TypeOK, Tree
    <3> QED BY <3>1
  <2>8. CASE RunDies \/ Merge
    BY <2>8 DEF RunDies, Merge, Ends
  <2>9. CASE Write
    BY <2>6, <2>7, <2>9
       DEF Write, WriteAsOf, ClearRoots, WriteRoots, WriteStore, WritePublished,
           WriteCollected, WriteDropped
  <2> QED BY <2>1, <2>2, <2>3, <2>4, <2>5, <2>8, <2>9 DEF Next, Run, Fetch
<1> QED BY <1>1, <1>2, TypedAlways, PTL DEF Spec

-----------------------------------------------------------------------------
(* The rollback guard and the collection date, across merges.              *)

(* A run under way, or one whose result may be merged.                     *)
Pending == pc # "idle" \/ outcome = "regenerated"

Successor ==
  Pending =>
    /\ Usable(cab)
    /\ head.cab # NoCab => Published[head.cab] <= Published[cab]

(* A run that fetched nothing carries the committed date through.          *)
Stamped ==
  /\ head.cab # NoCab => head.collected # NoDate
  /\ Pending => source \in {"fetched", "committed"}
  /\ Pending /\ source = "committed" =>
       head.collected # NoDate /\ tree.collected = head.collected
  /\ pc \in {"dropped", "cab"} \/ (pc = "idle" /\ outcome = "regenerated") =>
       tree.collected # NoDate

LEMMA SuccessorAlways ==
  ASSUME \A s \in Settings : s.checkout, NothingEmpties
  PROVE  Spec => [](Successor /\ Stamped)
<1>1. Init => Successor /\ Stamped
  BY DEF Init, Successor, Stamped, Pending
<1>2. Typed /\ Committable /\ Successor /\ Stamped /\ ReissueIsTaken /\ [Next]_vars
        => (Successor /\ Stamped)'
  <2> SUFFICES ASSUME Typed, Committable, Successor, Stamped, ReissueIsTaken, [Next]_vars
               PROVE  Successor' /\ Stamped'
    OBVIOUS
  <2>1. /\ head \in Tree /\ tree \in Tree /\ day \in Days
        /\ Published \in [Cabs -> Nat]
        /\ Offered \subseteq Cabs
        /\ \A c \in Cabs : c # NoCab
    BY TpmAssumption, OfferedAreCabs DEF Typed, TypeOK, Days, NoDate
  <2>2. head.cab # NoCab => /\ head.cab \in Cabs /\ Usable(head.cab)
                            /\ head.published = Published[head.cab]
    BY <2>1, TreeParts DEF Typed, CabInHand, Committable, Matches
  <2> USE DEF Pending
  <2>3. CASE DayPasses \/ Release
    BY <2>3 DEF DayPasses, Release, argVars, Successor, Stamped, Usable
  <2>4. ASSUME NEW c, NEW how \in {"kept", "failed", "current"}, Declines(c, how)
        PROVE  Successor' /\ Stamped'
    BY <2>4 DEF Declines, Ends, Successor, Stamped
  <2>5. ASSUME NEW c \in Offered, NEW d, RunTaken(c, d) PROVE Successor' /\ Stamped'
    <3>1. /\ tree' = head /\ head' = head /\ cab' = c /\ source' = "fetched"
          /\ pc' = "as_of" /\ Usable(c)
          /\ head.published = NoDate \/ ~(Published[c] < head.published)
      BY <2>5 DEF Typed, TypeOK, RunTaken, Starts, Base, Older, Usable
    <3>2. head.cab # NoCab => Published[head.cab] <= Published[c]
      <4> HAVE head.cab # NoCab
      <4>1. Published[c] \in Nat /\ Published[head.cab] \in Nat
        BY <2>1, <2>2
      <4> QED BY <2>2, <3>1, <4>1 DEF Usable
    <3> QED BY <3>1, <3>2 DEF Successor, Stamped, Usable
  <2>6. ASSUME NEW d, RunFromCommitted(d) PROVE Successor' /\ Stamped'
    <3>1. /\ tree' = head /\ head' = head /\ cab' = head.cab /\ source' = "committed"
          /\ pc' = "as_of" /\ head.cab # NoCab
      BY <2>6 DEF Typed, TypeOK, RunFromCommitted, Starts, Base
    <3>2. Published[head.cab] <= Published[head.cab]
      BY <2>1, <2>2, <3>1
    <3> QED BY <2>2, <3>1, <3>2 DEF Successor, Stamped, Usable
  <2>8. CASE WriteAsOf \/ ClearRoots \/ WriteRoots \/ WriteStore \/ WritePublished
    <3>1. tree \in Tree
      BY <2>1
    <3>2. tree'.collected = tree.collected
      <4>1. CASE WriteAsOf
        BY <3>1, <4>1 DEF WriteAsOf, Writes, Tree
      <4>2. CASE ClearRoots \/ WriteRoots
        BY <3>1, <4>2 DEF ClearRoots, WriteRoots, Writes, Tree
      <4>3. CASE WriteStore
        BY <3>1, <4>3 DEF WriteStore, Writes, Tree
      <4>4. CASE WritePublished
        BY <3>1, <4>4 DEF WritePublished, Writes, Tree
      <4> QED BY <2>8, <4>1, <4>2, <4>3, <4>4
    <3>3. /\ pc # "idle" /\ pc' \notin {"idle", "dropped", "cab"}
          /\ head' = head /\ cab' = cab /\ source' = source
      BY <2>8
         DEF WriteAsOf, ClearRoots, WriteRoots, WriteStore, WritePublished, Writes,
             argVars
    <3> QED BY <3>2, <3>3 DEF Successor, Stamped, Usable
  <2>9. CASE WriteCollected
    <3>1. /\ pc = "collected" /\ pc' = "dropped" /\ head' = head /\ cab' = cab
          /\ source' = source /\ tree' = [tree EXCEPT !.collected = CollectedStamp]
      BY <2>9 DEF WriteCollected, Writes, argVars
    <3>2. tree'.collected = CollectedStamp
      BY <2>1, <3>1 DEF Tree
    <3>3. CollectedStamp # NoDate
      BY <2>1 DEF CollectedStamp, Days, NoDate
    <3>4. source = "committed" => CollectedStamp = tree.collected
      BY <3>1 DEF CollectedStamp, Stamped
    <3> QED BY <3>1, <3>2, <3>3, <3>4 DEF Successor, Stamped, Usable
  <2>10. CASE WriteDropped \/ WriteCab
    <3>1. \A x : /\ [tree EXCEPT !.dropped = x].collected = tree.collected
                 /\ [tree EXCEPT !.cab = x].collected = tree.collected
      BY <2>1 DEF Tree
    <3>2. /\ pc \in {"dropped", "cab"} /\ head' = head /\ cab' = cab /\ source' = source
          /\ pc' = "cab" \/ (pc' = "idle" /\ outcome' = "regenerated")
          /\ tree'.collected = tree.collected
      BY <2>10, <3>1 DEF WriteDropped, WriteCab, Writes, Ends, argVars
    <3> QED BY <3>2 DEF Successor, Stamped, Usable
  <2>11. CASE RunDies
    BY <2>11 DEF RunDies, Ends, Successor, Stamped
  <2>12. CASE Merge
    <3>1. /\ pc = "idle" /\ outcome = "regenerated" /\ head' = tree
          /\ pc' = "idle" /\ outcome' = "merged"
      BY <2>12 DEF Merge, Ends
    <3> QED BY <3>1 DEF Successor, Stamped
  <2>13. CASE UNCHANGED vars
    BY <2>13 DEF vars, envVars, argVars, Successor, Stamped, Usable
  <2>14. CASE Run
    BY <2>4, <2>5, <2>6, <2>14
       DEF Run, Fetch, RunNoAnswer, RunUnvouched, RunUndated, RunOlder, RunCurrent
  <2> QED BY <2>3, <2>8, <2>9, <2>10, <2>11, <2>12, <2>13, <2>14 DEF Next, Write
<1> QED BY <1>1, <1>2, TypedAlways, CommittableAlways, ReissuesAreTaken, PTL DEF Spec

(* THEOREM DatedByFetching: in runs that start from a fresh checkout, of   *)
(* cabinets that each leave something, no merge moves the collection date  *)
(* unless its run fetched.                                                 *)
THEOREM DatedByFetching ==
  ASSUME \A s \in Settings : s.checkout, NothingEmpties
  PROVE  Spec => CollectedByFetching
<1>1. Stamped /\ [Next]_vars
        => [head'.collected # head.collected => source = "fetched"]_vars
  <2> SUFFICES ASSUME Stamped, Next, head'.collected # head.collected
               PROVE  source = "fetched"
    OBVIOUS
  <2>1. CASE Merge
    BY <2>1 DEF Merge, Stamped, Pending
  <2>2. CASE ~Merge
    <3>1. head' = head
      BY <2>2 DEF Next, DayPasses, Release, Run, Fetch, RunNoAnswer, RunUnvouched,
                  RunUndated, RunOlder, RunCurrent, RunTaken, RunFromCommitted,
                  Declines, Starts, Write, WriteAsOf, ClearRoots, WriteRoots,
                  WriteStore, WritePublished, WriteCollected, WriteDropped,
                  WriteCab, Writes, RunDies
    <3> QED BY <3>1
  <2> QED BY <2>1, <2>2
<1> QED BY <1>1, SuccessorAlways, PTL DEF Spec, CollectedByFetching

-----------------------------------------------------------------------------
(* What a merge changes, CommittedStore allows: the store merged is the    *)
(* one its cabinet and date yield, and the cabinet no older than the last. *)
LEMMA InputReads ==
  ASSUME NEW t, NEW i, i = [cab |-> t.cab, asOf |-> t.asOf]
  PROVE  StoreOf(i) = StoreOf(t)
BY DEF StoreOf

(* THEOREM Implements: in runs that start from a fresh checkout, of        *)
(* cabinets that each leave something, tpm_refresh.rs keeps the promise of *)
(* CommittedStore: what is committed is always reproduced by what is       *)
(* committed with it, and never steps back.                                *)
THEOREM Implements ==
  ASSUME \A s \in Settings : s.checkout, NothingEmpties
  PROVE  Spec => ImplementsCommittedStore
<1>1. Init => Committed!Init
  BY DEF Init, Committed!Init
<1>2. Typed /\ Committable /\ Successor /\ ReissueIsTaken /\ [Next]_vars
        => [Committed!Next]_(Committed!vars)
  <2> SUFFICES ASSUME Typed, Committable, Successor, ReissueIsTaken, [Next]_vars,
                      head' # head
               PROVE  Committed!Next
    BY DEF Committed!vars, Input
  <2>1. Merge
    BY DEF Next, vars, DayPasses, Release, Run, Fetch, RunNoAnswer, RunUnvouched,
           RunUndated, RunOlder, RunCurrent, RunTaken, RunFromCommitted,
           Declines, Starts, Write, WriteAsOf, ClearRoots, WriteRoots,
           WriteStore, WritePublished, WriteCollected, WriteDropped,
           WriteCab, Writes, RunDies
  <2>2. /\ head' = tree /\ tree.cab = cab /\ Matches(tree) /\ Usable(cab)
        /\ head.cab # NoCab => Published[head.cab] <= Published[cab]
    BY <2>1 DEF Merge, Committable, Reported, ReissueIsTaken, Successor, Pending
  <2>3. Input' = [cab |-> tree.cab, asOf |-> tree.asOf]
    BY <2>2 DEF Input
  <2>4. StoreOf(Input') = head'.store
    BY <2>2, <2>3, InputReads DEF Matches
  <2>5. head.store # {} => NotOlder(Input', Input)
    <3> HAVE head.store # {}
    <3>1. head.cab # NoCab /\ head.cab \in Cabs /\ cab \in Cabs
      BY <2>2, TpmAssumption, TreeParts
         DEF Committable, Typed, TypeOK, CabInHand, Usable
    <3>2. Published[head.cab] \in Nat /\ Published[cab] \in Nat
      BY <3>1, TpmAssumption DEF Days, NoDate
    <3>3. Input'.cab = cab /\ Input.cab = head.cab
      BY <2>2, <2>3 DEF Input
    <3> QED BY <2>2, <3>1, <3>2, <3>3 DEF NotOlder, Usable
  <2> QED BY <2>4, <2>5 DEF Committed!Next, Committed!Commit
<1> QED BY <1>1, <1>2, TypedAlways, CommittableAlways, SuccessorAlways,
           ReissuesAreTaken, PTL
        DEF Spec, ImplementsCommittedStore, Committed!Spec
=============================================================================
