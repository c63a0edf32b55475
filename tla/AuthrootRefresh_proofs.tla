----------------------- MODULE AuthrootRefresh_proofs -----------------------
(***************************************************************************)
(* Proofs about AuthrootRefresh, for every sequence of lists, any answers  *)
(* of the servers and any number of runs, wherever they die.               *)
(***************************************************************************)
EXTENDS AuthrootRefresh, TLAPS

LEMMA TreeParts ==
  ASSUME NEW t \in Tree
  PROVE  /\ t.roots \in SUBSET Certs /\ t.index \in [DOMAIN Envs -> SUBSET Certs]
         /\ t.cab \in Cabs \cup {NoCab, Torn}
         /\ t.published \in Days \cup {NoDate} /\ t.collected \in Days \cup {NoDate}
         /\ t.sequence \in Nat /\ t.modified \in Nat
         /\ \A s \in SUBSET Certs : [t EXCEPT !.roots = s] \in Tree
         /\ \A i \in [DOMAIN Envs -> SUBSET Certs] : [t EXCEPT !.index = i] \in Tree
         /\ \A c \in Cabs \cup {NoCab, Torn} : [t EXCEPT !.cab = c] \in Tree
         /\ \A d \in Days \cup {NoDate} : /\ [t EXCEPT !.published = d] \in Tree
                                          /\ [t EXCEPT !.collected = d] \in Tree
         /\ \A n \in Nat : /\ [t EXCEPT !.sequence = n] \in Tree
                           /\ [t EXCEPT !.modified = n] \in Tree
BY DEF Tree

LEMMA ListParts ==
  ASSUME NEW c \in Cabs
  PROVE  /\ ListIn[c].sequence \in Nat /\ ListIn[c].published \in Days
         /\ ListIn[c].entries \in SUBSET Certs
BY AuthrootAssumption DEF Ctl

(* What a list yields is among its entries, and so are certificates.       *)
LEMMA AnchorsAreEntries ==
  ASSUME NEW c \in Cabs, NEW eku
  PROVE  /\ Anchors(ListIn[c], eku) \subseteq Selected(ListIn[c], eku)
         /\ Anchors(ListIn[c], eku) \in SUBSET Certs
BY ListParts DEF Anchors, Selected

LEMMA MaterialType ==
  ASSUME NEW c \in Cabs
  PROVE  /\ Material(ListIn[c]).roots \in SUBSET Certs
         /\ Material(ListIn[c]).index \in [DOMAIN Envs -> SUBSET Certs]
         /\ Material(ListIn[c]).published = ListIn[c].published
BY AnchorsAreEntries DEF Material

(* The server's and the crate's files at the start of a run.               *)
LEMMA OfferedAreReleases ==
  ASSUME TypeOK
  PROVE  Offered \subseteq Release /\ Base \in Tree
BY AuthrootAssumption DEF TypeOK, Offered, Base

LEMMA StampedType ==
  ASSUME NEW t \in Tree, NEW r \in Release
  PROVE  /\ Stamped(t, r) \in Tree
         /\ Stamped(t, r).roots = t.roots /\ Stamped(t, r).index = t.index
         /\ Stamped(t, r).cab = t.cab /\ Stamped(t, r).published = t.published
         /\ Stamped(t, r).sequence = t.sequence
<1>1. r.modified \in Nat
  BY DEF Release
<1>2. [t EXCEPT !.modified = r.modified] \in Tree
  BY <1>1, TreeParts
<1> QED
  BY <1>2 DEF Stamped, Tree

-----------------------------------------------------------------------------
(* Between the roots and the index of an environment, all it asks for has  *)
(* arrived as listed.                                                      *)
Arrived == pc = "index" => Missing(ctl, got, Envs[env]) = {}

Typed == TypeOK /\ Arrived

LEMMA BuiltAsListed ==
  ASSUME TypeOK, Missing(ctl, got, Envs[env]) = {}
  PROVE  Built = Anchors(ctl, Envs[env]) /\ Built \in SUBSET Certs
<1>1. hand.cab \in Cabs
  BY DEF TypeOK, Release
<1>2. /\ Anchors(ctl, Envs[env]) \subseteq Selected(ctl, Envs[env])
      /\ Anchors(ctl, Envs[env]) \in SUBSET Certs
  BY <1>1, AnchorsAreEntries DEF ctl
<1>3. \A x \in Selected(ctl, Envs[env]) : got[x] = x
  BY DEF Missing
<1> QED
  BY <1>2, <1>3 DEF Built

(* Each kind of step keeps the types.                                      *)
LEMMA SettlesTyped ==
  ASSUME Typed, NEW r \in Release, NEW files \in Tree,
         NEW how \in {"kept", "not_modified", "unchanged"},
         Settles(r, files, how)
  PROVE  Typed'
<1>1. NoCerts \in [Certs -> Certs \cup {Nothing}] /\ 1 \in DOMAIN Envs
  BY AuthrootAssumption DEF NoCerts
<1> QED
  BY <1>1, AuthrootAssumption DEF Typed, TypeOK, Arrived, Settles, Ends, envVars

LEMMA WritesTyped ==
  ASSUME Typed, NEW files \in Tree, NEW from, from # "idle",
         NEW to \in {"build", "cab", "published", "collected",
                     "sequence", "modified"},
         Writes(from, to, files), env' \in DOMAIN Envs
  PROVE  Typed'
BY DEF Typed, TypeOK, Arrived, Writes, envVars, fetchVars

(* A step that ends a run leaves nothing fetched.                          *)
LEMMA EndsTyped ==
  ASSUME Typed, NEW how \in {"kept", "unmatched", "empty_env", "failed", "rewritten"},
         Ends(how), UNCHANGED <<envVars, head, hand>>,
         tree' \in Tree, fails' \in 0..MaxFails
  PROVE  Typed'
<1>1. NoCerts \in [Certs -> Certs \cup {Nothing}] /\ 1 \in DOMAIN Envs
  BY AuthrootAssumption DEF NoCerts
<1> QED
  BY <1>1, AuthrootAssumption DEF Typed, TypeOK, Arrived, Ends, envVars

LEMMA AsksTyped ==
  ASSUME Typed, NEW r \in Release, RunTaken(r)
  PROVE  Typed'
<1>1. ListIn[r.cab].entries \in SUBSET Certs
  BY ListParts DEF Release
<1> QED
  BY <1>1, OfferedAreReleases
     DEF RunTaken, Asks, Typed, TypeOK, Arrived, envVars

LEMMA PassTyped ==
  ASSUME Typed, NEW a \in AnswersTo(pending), FetchPass(a)
  PROVE  Typed'
<1>1. DOMAIN a = pending /\ a \in [pending -> Answers \cup Certs]
  BY DEF AnswersTo
<1>2. got' \in [Certs -> Certs \cup {Nothing}]
  BY DEF FetchPass, Typed, TypeOK
<1>3. pending' \in SUBSET Certs /\ absent' \in SUBSET Certs
  BY DEF FetchPass, Typed, TypeOK
<1>4. passes' \in 0..Retries + 1
  BY AuthrootAssumption DEF FetchPass, Typed, TypeOK
<1> QED
  BY <1>2, <1>3, <1>4 DEF FetchPass, Typed, TypeOK, Arrived, envVars

(* An environment's index is written as its list has it.                   *)
LEMMA IndexTyped ==
  ASSUME Typed, WriteIndex
  PROVE  /\ Typed'
         /\ tree'.index = [tree.index EXCEPT ![env] = Anchors(ctl, Envs[env])]
<1>1. Built = Anchors(ctl, Envs[env]) /\ Built \in SUBSET Certs
  BY BuiltAsListed DEF Typed, Arrived, WriteIndex, Writes
<1> DEFINE built == Built
           last == env = Len(Envs)
           to == IF last THEN "cab" ELSE "build"
           index == [tree.index EXCEPT ![env] = built]
           files == [tree EXCEPT !.index[env] = built]
<1>2. Writes("index", to, files) /\ env' = IF last THEN env ELSE env + 1
  BY DEF WriteIndex
<1>3. tree \in Tree /\ env \in DOMAIN Envs
  BY DEF Typed, TypeOK
<1>4. env' \in DOMAIN Envs
  BY <1>2, <1>3, AuthrootAssumption
<1> HIDE DEF built
<1>5. files = [tree EXCEPT !.index = index] /\ index \in [DOMAIN Envs -> SUBSET Certs]
  BY <1>1, <1>3, TreeParts DEF Tree, built
<1> HIDE DEF index
<1>6. files \in Tree /\ files.index = index
  BY <1>3, <1>5, TreeParts DEF Tree
<1> HIDE DEF files
<1>7. Typed'
  BY <1>2, <1>4, <1>6, WritesTyped
<1>8. tree'.index = index
  BY <1>2, <1>6 DEF Writes
<1> QED
  BY <1>1, <1>7, <1>8 DEF index, built

LEMMA TypedAlways == Spec => []Typed
<1>1. Init => Typed
  <2> SUFFICES ASSUME Init PROVE Typed
    OBVIOUS
  <2>1. \A c \in Legacy : LegacyCrate(c) \in Tree
    BY AuthrootAssumption, MaterialType, ListParts DEF LegacyCrate, Tree, Days, NoDate
  <2>2. EmptyCrate \in Tree
    BY DEF EmptyCrate, Tree, NoDate, NoSequence
  <2>3. head \in Tree /\ tree \in Tree
    BY <2>1, <2>2 DEF Init
  <2>4. NoCerts \in [Certs -> Certs \cup {Nothing}] /\ 1 \in DOMAIN Envs
        /\ Releases[1] \in Release /\ 1 \in 1..Len(Releases) /\ 1 \in Days
    BY AuthrootAssumption DEF NoCerts, Days
  <2> QED
    BY <2>3, <2>4, AuthrootAssumption DEF Init, NotFetching, Typed, TypeOK, Arrived
<1>2. Typed /\ [Next]_vars => Typed'
  <2> SUFFICES ASSUME Typed, [Next]_vars PROVE Typed'
    OBVIOUS
  <2>1. /\ TypeOK /\ tree \in Tree /\ hand \in Release /\ env \in DOMAIN Envs
        /\ day \in Days /\ fails \in 0..MaxFails
        /\ Offered \subseteq Release /\ Base \in Tree
    BY OfferedAreReleases DEF Typed, TypeOK
  <2>2. hand.cab \in Cabs /\ ctl.sequence \in Nat /\ ctl.published \in Days
    BY <2>1, ListParts DEF Release, ctl
  <2>3. CASE DayPasses
    BY <2>3, AuthrootAssumption
       DEF DayPasses, Typed, TypeOK, Arrived, Days, fetchVars, Missing, Selected,
           Grants, Ekus, ctl
  <2>4. CASE PutUp
    BY <2>4, AuthrootAssumption
       DEF PutUp, Typed, TypeOK, Arrived, fetchVars, Missing, Selected,
           Grants, Ekus, ctl
  <2>5. CASE RunUnreached
    BY <2>1, <2>5, SettlesTyped DEF RunUnreached
  <2>6. ASSUME NEW r \in Offered,
               RunNotModified(r) \/ RunUnusable(r) \/ RunReplayed(r)
               \/ RunCommittedUnreadable(r)
        PROVE  Typed'
    BY <2>1, <2>6, SettlesTyped
       DEF RunNotModified, RunUnusable, RunReplayed, RunCommittedUnreadable
  <2>7. ASSUME NEW r \in Offered, RunSame(r) PROVE Typed'
    BY <2>1, <2>7, StampedType, SettlesTyped DEF RunSame
  <2>8. ASSUME NEW r \in Offered, RunTaken(r) PROVE Typed'
    BY <2>1, <2>8, AsksTyped
  <2>9. ASSUME NEW a \in AnswersTo(pending), FetchPass(a) PROVE Typed'
    BY <2>9, PassTyped
  <2>10. CASE FetchComplete
    BY <2>10 DEF FetchComplete, Typed, TypeOK, Arrived, envVars, fetchVars
  <2>11. CASE FetchShort
    BY <2>1, <2>11, EndsTyped DEF FetchShort
  <2>12. CASE Build
    BY <2>1, <2>12, EndsTyped DEF Build, BuildMissing, BuildEmpty
  <2>13. CASE ClearRoots
    <3>1. [tree EXCEPT !.roots = {}] \in Tree
      BY <2>1, TreeParts DEF Tree
    <3>2. 1 \in DOMAIN Envs
      BY AuthrootAssumption
    <3> QED BY <2>13, <3>1, <3>2, WritesTyped DEF ClearRoots
  <2>14. CASE WriteRoots
    <3> DEFINE built == Built
               files == [tree EXCEPT !.roots = @ \cup built]
    <3>1. built \in SUBSET Certs /\ Missing(ctl, got, Envs[env]) = {}
      BY <2>1, <2>14, BuiltAsListed DEF WriteRoots, Builds
    <3>2. Writes("build", "index", files) /\ env' = env
      BY <2>14 DEF WriteRoots
    <3> HIDE DEF built
    <3>3. files \in Tree
      BY <2>1, <3>1, TreeParts DEF Tree
    <3> HIDE DEF files
    <3>4. Missing(ctl, got, Envs[env])'= Missing(ctl, got, Envs[env])
      BY <3>2 DEF Writes, fetchVars, Missing, Selected, Grants, Ekus, ctl
    <3> QED BY <2>1, <3>1, <3>2, <3>3, <3>4
            DEF Typed, TypeOK, Arrived, Writes, envVars, fetchVars
  <2>15. CASE WriteIndex
    BY <2>15, IndexTyped
  <2>16. CASE WriteCab
    <3>1. [tree EXCEPT !.cab = hand.cab] \in Tree
      BY <2>1, <2>2, TreeParts
    <3> QED BY <2>1, <2>16, <3>1, WritesTyped DEF WriteCab
  <2>17. CASE WritePublished
    <3>1. [tree EXCEPT !.published = ctl.published] \in Tree
      BY <2>1, <2>2, TreeParts
    <3> QED BY <2>1, <2>17, <3>1, WritesTyped DEF WritePublished
  <2>18. CASE WriteCollected
    <3>1. [tree EXCEPT !.collected = day] \in Tree
      BY <2>1, TreeParts
    <3> QED BY <2>1, <2>18, <3>1, WritesTyped DEF WriteCollected
  <2>19. CASE WriteSequence
    <3>1. [tree EXCEPT !.sequence = ctl.sequence] \in Tree
      BY <2>1, <2>2, TreeParts
    <3>2. (IF ctl.sequence = NoSequence THEN tree
           ELSE [tree EXCEPT !.sequence = ctl.sequence]) \in Tree
      BY <2>1, <3>1
    <3> QED BY <2>1, <2>19, <3>2, WritesTyped DEF WriteSequence
  <2>20. CASE WriteModified
    BY <2>1, <2>20, StampedType, EndsTyped DEF WriteModified
  <2>21. CASE RunDies
    <3>1. tree' \in Tree
      <4>1. [tree EXCEPT !.cab = Torn] \in Tree
        BY <2>1, TreeParts
      <4> QED BY <2>1, <2>21, <4>1 DEF RunDies
    <3>2. fails' \in 0..MaxFails
      BY <2>1, <2>21, AuthrootAssumption DEF RunDies
    <3> QED BY <2>21, <3>1, <3>2, EndsTyped DEF RunDies
  <2>22. CASE Merge
    BY <2>22 DEF Merge, Typed, TypeOK, Arrived, envVars, fetchVars
  <2>23. CASE UNCHANGED vars
    BY <2>23 DEF vars, envVars, fetchVars, Typed, TypeOK, Arrived, Missing,
                 Selected, Grants, Ekus, ctl
  <2> QED BY <2>3, <2>4, <2>5, <2>6, <2>7, <2>8, <2>9, <2>10, <2>11, <2>12, <2>13,
             <2>14, <2>15, <2>16, <2>17, <2>18, <2>19, <2>20, <2>21, <2>22, <2>23
          DEF Next, Run, Fetch, Write
<1> QED BY <1>1, <1>2, PTL DEF Spec

(* THEOREM TypeCorrect: the runs of authroot_refresh.rs leave every file   *)
(* and every variable of its type.                                         *)
THEOREM TypeCorrect == Spec => []TypeOK
<1>1. Typed => TypeOK
  BY DEF Typed
<1> QED BY <1>1, TypedAlways, PTL

-----------------------------------------------------------------------------
(* What a run has written so far is what the list in hand yields.          *)
RootsUpTo(n) == UNION {Anchors(ctl, Envs[i]) : i \in {j \in DOMAIN Envs : j <= n}}

IndexUpTo(n) ==
  \A i \in DOMAIN Envs : i <= n => tree.index[i] = Anchors(ctl, Envs[i])

Written ==
  /\ pc = "build" => tree.roots = RootsUpTo(env - 1) /\ IndexUpTo(env - 1)
  /\ pc = "index" => tree.roots = RootsUpTo(env) /\ IndexUpTo(env - 1)
  /\ pc \in {"cab", "published", "collected", "sequence", "modified"} =>
       tree.roots = Material(ctl).roots /\ tree.index = Material(ctl).index
  /\ pc \in {"published", "collected", "sequence", "modified"} =>
       tree.cab = hand.cab
  /\ pc \in {"collected", "sequence", "modified"} =>
       tree.published = ctl.published

Complete(t) ==
  t.cab \in Cabs => /\ t.roots = Material(ListIn[t.cab]).roots
                    /\ t.index = Material(ListIn[t.cab]).index
                    /\ t.published = ListIn[t.cab].published

Whole(t) == t.cab # Torn /\ Complete(t)

(* Whatever is committed, and what a run that ended well leaves, is made   *)
(* from the cabinet beside it.                                             *)
Reported == pc = "idle" /\ outcome \in {"not_modified", "unchanged", "rewritten", "merged"}

Committable ==
  /\ Whole(head)
  /\ Reported => Whole(tree)
  /\ Reported /\ outcome = "rewritten" => tree.cab = hand.cab
  /\ Reported /\ outcome = "unchanged" => tree.cab = head.cab

LEMMA StepsUpTo ==
  ASSUME NEW n \in DOMAIN Envs
  PROVE  /\ RootsUpTo(n) = RootsUpTo(n - 1) \cup Anchors(ctl, Envs[n])
         /\ RootsUpTo(0) = {}
         /\ RootsUpTo(Len(Envs)) = Material(ctl).roots
<1>1. DOMAIN Envs = 1..Len(Envs) /\ n \in 1..Len(Envs) /\ Len(Envs) \in Nat
  BY AuthrootAssumption
<1>2. /\ {j \in DOMAIN Envs : j <= n} = {j \in DOMAIN Envs : j <= n - 1} \cup {n}
      /\ {j \in DOMAIN Envs : j <= 0} = {}
      /\ {j \in DOMAIN Envs : j <= Len(Envs)} = DOMAIN Envs
  BY <1>1
<1> QED
  BY <1>2 DEF RootsUpTo, Material

LEMMA SettlesCommittable ==
  ASSUME Typed, Committable, NEW r, NEW files, Whole(files),
         NEW how \in {"kept", "not_modified", "unchanged"},
         how = "unchanged" => files.cab = head.cab,
         Settles(r, files, how)
  PROVE  (Written /\ Committable)'
<1>1. /\ pc' = "idle" /\ outcome' = how /\ tree' = files /\ head' = head
  BY DEF Settles, Ends
<1>2. Whole(head)' /\ Whole(tree)'
  BY <1>1 DEF Whole, Complete, Committable
<1> QED
  BY <1>1, <1>2 DEF Written, Committable, Reported

(* A run that has not ended leaves what is committed, and so does one that *)
(* ends badly.                                                             *)
LEMMA UnfinishedCommittable ==
  ASSUME Committable, head' = head,
         pc' # "idle" \/ outcome' \in {"kept", "unmatched", "empty_env", "failed"}
  PROVE  Committable'
BY DEF Committable, Reported, Whole, Complete

LEMMA MaterialStays ==
  ASSUME hand' = hand
  PROVE  /\ ctl' = ctl
         /\ \A n : RootsUpTo(n)' = RootsUpTo(n)
         /\ tree'.index = tree.index => \A n : IndexUpTo(n)' = IndexUpTo(n)
<1>1. ctl' = ctl
  BY DEF ctl
<1> QED
  BY <1>1 DEF RootsUpTo, IndexUpTo, ctl

LEMMA WritesCommittable ==
  ASSUME Committable, NEW from, NEW to, to # "idle", NEW files, Writes(from, to, files)
  PROVE  /\ Committable'
         /\ pc = from /\ pc' = to /\ tree' = files /\ hand' = hand /\ ctl' = ctl
         /\ Material(ctl)' = Material(ctl)
<1>1. pc = from /\ pc' = to /\ tree' = files /\ hand' = hand /\ head' = head
  BY DEF Writes
<1>2. Committable'
  BY <1>1, UnfinishedCommittable
<1>3. ctl' = ctl
  BY <1>1 DEF ctl
<1>4. Material(ctl)' = Material(ctl)
  BY <1>1 DEF ctl, Material, Anchors, Selected, Retired, Grants, Ekus
<1> QED
  BY <1>1, <1>2, <1>3, <1>4

LEMMA RootsWritten ==
  ASSUME Typed, Written, Committable, WriteRoots
  PROVE  Written' /\ Committable'
<1> DEFINE built == Built
           files == [tree EXCEPT !.roots = @ \cup built]
<1>1. Writes("build", "index", files) /\ env' = env /\ tree \in Tree
      /\ env \in DOMAIN Envs
  BY DEF WriteRoots, Typed, TypeOK
<1>2. built = Anchors(ctl, Envs[env])
  BY BuiltAsListed DEF Typed, WriteRoots, Builds
<1> HIDE DEF built
<1>3. files.roots = tree.roots \cup built /\ files.index = tree.index
  BY <1>1 DEF Tree
<1> HIDE DEF files
<1>4. /\ Committable' /\ pc = "build" /\ pc' = "index" /\ tree' = files /\ hand' = hand
  BY <1>1, WritesCommittable
<1>5. files.roots = RootsUpTo(env) /\ IndexUpTo(env - 1)
  BY <1>1, <1>2, <1>3, <1>4, StepsUpTo DEF Written
<1>6. RootsUpTo(env)' = RootsUpTo(env) /\ IndexUpTo(env - 1)' = IndexUpTo(env - 1)
  BY <1>1, <1>3, <1>4 DEF RootsUpTo, IndexUpTo, ctl, Anchors, Selected, Retired,
                          Grants, Ekus
<1> QED
  BY <1>1, <1>4, <1>5, <1>6 DEF Written

LEMMA IndexWritten ==
  ASSUME Typed, Written, Committable, WriteIndex
  PROVE  Written' /\ Committable'
<1> DEFINE last == env = Len(Envs)
           to == IF last THEN "cab" ELSE "build"
           files == [tree EXCEPT !.index[env] = Built]
<1>1. Writes("index", to, files) /\ env' = IF last THEN env ELSE env + 1
  BY DEF WriteIndex
<1>2. tree \in Tree /\ env \in DOMAIN Envs /\ files.roots = tree.roots
      /\ tree.index \in [DOMAIN Envs -> SUBSET Certs]
  BY TreeParts DEF Typed, TypeOK, Tree
<1> HIDE DEF files
<1>3. /\ Committable' /\ pc = "index" /\ pc' = to /\ tree'.roots = tree.roots
      /\ hand' = hand /\ ctl' = ctl /\ Material(ctl)' = Material(ctl)
  BY <1>1, <1>2, WritesCommittable
<1>4. tree'.index = [tree.index EXCEPT ![env] = Anchors(ctl, Envs[env])]
  BY IndexTyped
<1>5. env \in Nat /\ \A i \in DOMAIN Envs : i \in Nat
  BY <1>2, AuthrootAssumption
<1>6. \A i \in DOMAIN Envs : i <= env => tree'.index[i] = Anchors(ctl, Envs[i])
  <2> SUFFICES ASSUME NEW i \in DOMAIN Envs, i <= env
               PROVE  tree'.index[i] = Anchors(ctl, Envs[i])
    OBVIOUS
  <2>1. CASE i = env
    BY <1>2, <1>4, <2>1
  <2>2. CASE i # env
    <3>1. i <= env - 1
      BY <1>5, <2>2
    <3>2. tree.index[i] = Anchors(ctl, Envs[i])
      BY <1>3, <3>1 DEF Written, IndexUpTo
    <3> QED BY <1>2, <1>4, <2>2, <3>2
  <2> QED BY <2>1, <2>2
<1>7. tree'.roots = RootsUpTo(env)
  BY <1>3 DEF Written
<1>8. CASE last
  <2>1. RootsUpTo(env) = Material(ctl).roots
    BY <1>2, <1>8, StepsUpTo
  <2>2. \A i \in DOMAIN Envs : i <= env
    BY <1>8, AuthrootAssumption
  <2>3. tree'.index = [i \in DOMAIN Envs |-> Anchors(ctl, Envs[i])]
    BY <1>2, <1>4, <1>6, <2>2
  <2>4. tree'.index = Material(ctl).index
    BY <2>3 DEF Material
  <2> QED BY <1>3, <1>7, <1>8, <2>1, <2>4 DEF Written
<1>9. CASE ~last
  <2>1. env' = env + 1 /\ env' - 1 = env /\ pc' = "build"
    BY <1>1, <1>3, <1>5, <1>9
  <2>2. \A i \in DOMAIN Envs : Anchors(ctl, Envs[i])' = Anchors(ctl, Envs[i])
    BY <1>3 DEF Anchors, Selected, Retired, Grants, Ekus
  <2>3. IndexUpTo(env - 1)'
    BY <1>6, <2>1, <2>2 DEF IndexUpTo
  <2>4. RootsUpTo(env - 1)' = RootsUpTo(env)
    BY <2>1, <2>2 DEF RootsUpTo
  <2> QED BY <1>3, <1>7, <2>1, <2>3, <2>4 DEF Written
<1> QED
  BY <1>8, <1>9

LEMMA NothingMoves ==
  ASSUME Written, Committable,
         UNCHANGED <<pc, tree, head, hand, outcome, env>>
  PROVE  Written' /\ Committable'
<1>1. /\ pc' = pc /\ tree' = tree /\ head' = head /\ hand' = hand
      /\ outcome' = outcome /\ env' = env /\ ctl' = ctl
  BY DEF ctl
<1>2. \A i \in DOMAIN Envs : Anchors(ctl, Envs[i])' = Anchors(ctl, Envs[i])
  BY <1>1 DEF Anchors, Selected, Retired, Grants, Ekus
<1>3. Material(ctl)' = Material(ctl)
  BY <1>1 DEF Material, Anchors, Selected, Retired, Grants, Ekus
<1>4. /\ RootsUpTo(env - 1)' = RootsUpTo(env - 1) /\ RootsUpTo(env)' = RootsUpTo(env)
      /\ IndexUpTo(env - 1)' = IndexUpTo(env - 1)
  BY <1>1, <1>2 DEF RootsUpTo, IndexUpTo
<1>5. Written'
  BY <1>1, <1>3, <1>4 DEF Written
<1>6. Committable'
  BY <1>1 DEF Committable, Reported, Whole, Complete
<1> QED
  BY <1>5, <1>6

LEMMA CommittableAlways ==
  ASSUME \A s \in Settings : s.checkout
  PROVE  Spec => [](Written /\ Committable)
<1>1. Init => Written /\ Committable
  <2> SUFFICES ASSUME Init PROVE Written /\ Committable
    OBVIOUS
  <2>1. head.cab = NoCab
    BY DEF Init, EmptyCrate, LegacyCrate
  <2> QED
    BY <2>1, AuthrootAssumption
       DEF Init, Written, Committable, Reported, Whole, Complete
<1>2. Typed /\ Written /\ Committable /\ [Next]_vars => (Written /\ Committable)'
  <2> SUFFICES ASSUME Typed, Written, Committable, [Next]_vars
               PROVE  Written' /\ Committable'
    OBVIOUS
  <2>1. /\ TypeOK /\ tree \in Tree /\ Base = head /\ head \in Tree
        /\ Offered \subseteq Release /\ hand \in Release /\ hand.cab \in Cabs
    BY OfferedAreReleases DEF Typed, TypeOK, Base, Release
  <2>2. Whole(Base)
    BY <2>1 DEF Committable
  <2>3. CASE DayPasses \/ PutUp
    <3>1. /\ pc' = pc /\ tree' = tree /\ head' = head /\ hand' = hand
          /\ outcome' = outcome /\ env' = env
      BY <2>3 DEF DayPasses, PutUp
    <3> QED BY <3>1, NothingMoves
  <2>4. CASE RunUnreached
    BY <2>2, <2>4, SettlesCommittable DEF RunUnreached
  <2>5. ASSUME NEW r, RunNotModified(r) \/ RunUnusable(r) \/ RunReplayed(r)
                      \/ RunCommittedUnreadable(r)
        PROVE  Written' /\ Committable'
    BY <2>2, <2>5, SettlesCommittable
       DEF RunNotModified, RunUnusable, RunReplayed, RunCommittedUnreadable
  <2>6. ASSUME NEW r \in Offered, RunSame(r) PROVE Written' /\ Committable'
    <3>1. /\ Stamped(head, r).roots = head.roots /\ Stamped(head, r).index = head.index
          /\ Stamped(head, r).cab = head.cab
          /\ Stamped(head, r).published = head.published
      BY <2>1, StampedType
    <3>2. Whole(Stamped(head, r))
      BY <2>1, <2>2, <3>1 DEF Whole, Complete
    <3>3. Settles(r, Stamped(head, r), "unchanged")
      BY <2>1, <2>6 DEF RunSame
    <3> QED BY <3>1, <3>2, <3>3, SettlesCommittable
  <2>7. ASSUME NEW r, RunTaken(r) PROVE Written' /\ Committable'
    <3>1. pc' = "fetch" /\ head' = head
      BY <2>7 DEF RunTaken, Asks
    <3> QED BY <3>1, UnfinishedCommittable DEF Written
  <2>8. ASSUME NEW a, FetchPass(a) PROVE Written' /\ Committable'
    <3>1. pc' = "fetch" /\ head' = head
      BY <2>8 DEF FetchPass
    <3> QED BY <3>1, UnfinishedCommittable DEF Written
  <2>9. CASE FetchComplete
    <3>1. pc' = "clear" /\ head' = head
      BY <2>9 DEF FetchComplete
    <3> QED BY <3>1, UnfinishedCommittable DEF Written
  <2>10. CASE FetchShort \/ Build \/ RunDies
    <3>1. /\ pc' = "idle" /\ head' = head
          /\ outcome' \in {"kept", "unmatched", "empty_env", "failed"}
      BY <2>10 DEF FetchShort, Build, BuildMissing, BuildEmpty, RunDies, Ends
    <3> QED BY <3>1, UnfinishedCommittable DEF Written
  <2>11. CASE ClearRoots
    <3> DEFINE files == [tree EXCEPT !.roots = {}]
    <3>1. Writes("clear", "build", files) /\ env' = 1 /\ files.roots = {}
      BY <2>1, <2>11 DEF ClearRoots, Tree
    <3> HIDE DEF files
    <3>2. Committable' /\ pc' = "build" /\ tree'.roots = {}
      BY <3>1, WritesCommittable
    <3>3. env' - 1 = 0 /\ 1 \in DOMAIN Envs /\ \A i \in DOMAIN Envs : ~(i <= 0)
      BY <3>1, AuthrootAssumption
    <3>4. RootsUpTo(env - 1)' = {} /\ IndexUpTo(env - 1)'
      BY <3>3 DEF RootsUpTo, IndexUpTo
    <3> QED BY <3>2, <3>4 DEF Written
  <2>12. CASE WriteRoots
    BY <2>12, RootsWritten
  <2>13. CASE WriteIndex
    BY <2>13, IndexWritten
  <2>14. CASE WriteCab
    <3> DEFINE files == [tree EXCEPT !.cab = hand.cab]
    <3>1. /\ Writes("cab", "published", files) /\ files.cab = hand.cab
          /\ files.roots = tree.roots /\ files.index = tree.index
      BY <2>1, <2>14 DEF WriteCab, Tree
    <3> HIDE DEF files
    <3>2. /\ Committable' /\ pc = "cab" /\ pc' = "published" /\ tree' = files
          /\ hand' = hand /\ Material(ctl)' = Material(ctl)
      BY <3>1, WritesCommittable
    <3> QED BY <3>1, <3>2 DEF Written
  <2>15. CASE WritePublished
    <3> DEFINE files == [tree EXCEPT !.published = ctl.published]
    <3>1. /\ Writes("published", "collected", files) /\ files.cab = tree.cab
          /\ files.roots = tree.roots /\ files.index = tree.index
          /\ files.published = ctl.published
      BY <2>1, <2>15 DEF WritePublished, Tree
    <3> HIDE DEF files
    <3>2. /\ Committable' /\ pc = "published" /\ pc' = "collected" /\ tree' = files
          /\ hand' = hand /\ Material(ctl)' = Material(ctl) /\ ctl' = ctl
      BY <3>1, WritesCommittable
    <3> QED BY <3>1, <3>2 DEF Written
  <2>16. ASSUME NEW from \in {"collected", "sequence"},
                NEW to \in {"sequence", "modified"}, NEW files,
                Writes(from, to, files),
                files.cab = tree.cab, files.published = tree.published,
                files.roots = tree.roots, files.index = tree.index
         PROVE  Written' /\ Committable'
    <3>1. /\ Committable' /\ pc = from /\ pc' = to /\ tree' = files
          /\ hand' = hand /\ Material(ctl)' = Material(ctl) /\ ctl' = ctl
      BY <2>16, WritesCommittable
    <3> QED BY <2>16, <3>1 DEF Written
  <2>17. CASE WriteCollected
    <3> DEFINE files == [tree EXCEPT !.collected = day]
    <3>1. Writes("collected", "sequence", files)
      BY <2>17 DEF WriteCollected
    <3>2. /\ files.cab = tree.cab /\ files.published = tree.published
          /\ files.roots = tree.roots /\ files.index = tree.index
      BY <2>1 DEF Tree
    <3> HIDE DEF files
    <3> QED BY <2>16, <3>1, <3>2
  <2>18. CASE WriteSequence
    <3> DEFINE seen == [tree EXCEPT !.sequence = ctl.sequence]
               files == IF ctl.sequence = NoSequence THEN tree ELSE seen
    <3>1. Writes("sequence", "modified", files)
      BY <2>18 DEF WriteSequence
    <3>2. /\ seen.cab = tree.cab /\ seen.published = tree.published
          /\ seen.roots = tree.roots /\ seen.index = tree.index
      BY <2>1 DEF Tree
    <3> HIDE DEF seen
    <3>3. /\ files.cab = tree.cab /\ files.published = tree.published
          /\ files.roots = tree.roots /\ files.index = tree.index
      BY <3>2
    <3> HIDE DEF files
    <3> QED BY <2>16, <3>1, <3>3
  <2>19. CASE WriteModified
    <3>1. /\ pc = "modified" /\ pc' = "idle" /\ outcome' = "rewritten"
          /\ tree' = Stamped(tree, hand) /\ head' = head /\ hand' = hand
      BY <2>19 DEF WriteModified, Ends
    <3>2. /\ tree'.roots = Material(ctl).roots /\ tree'.index = Material(ctl).index
          /\ tree'.cab = hand.cab /\ tree'.published = ctl.published
      BY <2>1, <3>1, StampedType DEF Written
    <3>3. Whole(tree')
      BY <2>1, <3>2, AuthrootAssumption DEF Whole, Complete, ctl
    <3>4. Whole(tree)' /\ Whole(head)'
      BY <3>1, <3>3 DEF Whole, Complete, Committable
    <3> QED BY <3>1, <3>2, <3>4 DEF Written, Committable, Reported
  <2>20. CASE Merge
    <3>1. /\ Reported /\ tree' = tree /\ head' = tree
          /\ pc' = "idle" /\ outcome' = "merged"
      BY <2>20 DEF Merge, Reported
    <3>2. Whole(tree)' /\ Whole(head)'
      BY <3>1 DEF Committable, Whole, Complete
    <3> QED BY <3>1, <3>2 DEF Written, Committable, Reported
  <2>21. CASE UNCHANGED vars
    <3>1. /\ pc' = pc /\ tree' = tree /\ head' = head /\ hand' = hand
          /\ outcome' = outcome /\ env' = env
      BY <2>21 DEF vars
    <3> QED BY <3>1, NothingMoves
  <2> QED BY <2>3, <2>4, <2>5, <2>6, <2>7, <2>8, <2>9, <2>10, <2>11, <2>12, <2>13,
             <2>14, <2>15, <2>17, <2>18, <2>19, <2>20, <2>21
          DEF Next, Run, Fetch, Write
<1> QED BY <1>1, <1>2, TypedAlways, PTL DEF Spec

(* THEOREM MaterialOfTheCabinet: in runs that start from a fresh checkout, *)
(* what a run finds current, writes or has merged is what the list in the  *)
(* cabinet beside it yields, whatever was served for the certificates and  *)
(* wherever runs died before it.                                           *)
THEOREM MaterialOfTheCabinet ==
  ASSUME \A s \in Settings : s.checkout
  PROVE  Spec => []MaterialMatchesCabinet
<1>1. Committable => MaterialMatchesCabinet
  BY DEF Committable, Reported, Whole, Complete, MaterialMatchesCabinet
<1> QED BY <1>1, CommittableAlways, PTL

-----------------------------------------------------------------------------
(* Nothing goes before everything has arrived.                             *)
Answered(x) == x \in pending \/ x \in absent \/ got[x] # Nothing

Accounted ==
  /\ pc = "fetch" => \A x \in ctl.entries : Answered(x)
  /\ pc \notin {"idle", "fetch"} => \A x \in ctl.entries : got[x] # Nothing

LEMMA PassAccounts ==
  ASSUME Typed, Accounted, NEW a \in AnswersTo(pending), FetchPass(a)
  PROVE  Accounted'
<1>1. /\ pc = "fetch" /\ pc' = "fetch" /\ hand' = hand /\ ctl' = ctl
      /\ ctl.entries \in SUBSET Certs
  BY ListParts DEF FetchPass, Typed, TypeOK, Release, ctl
<1> SUFFICES ASSUME NEW x \in ctl.entries PROVE Answered(x)'
  BY <1>1 DEF Accounted
<1>2. Answered(x) /\ x \in Certs
  BY <1>1 DEF Accounted
<1>3. CASE x \notin pending
  BY <1>2, <1>3 DEF FetchPass, Answered
<1>4. CASE x \in pending
  <2>1. a[x] \in {"absent", "silent"} \/ a[x] \in Certs
    BY <1>4, AuthrootAssumption DEF AnswersTo, Served, Answers
  <2>2. a[x] = "silent" => x \in pending'
    BY <1>4 DEF FetchPass
  <2>3. a[x] = "absent" => x \in absent'
    BY <1>4 DEF FetchPass
  <2>4. a[x] \in Certs => got'[x] # Nothing
    BY <1>2, <1>4, AuthrootAssumption DEF FetchPass
  <2> QED BY <2>1, <2>2, <2>3, <2>4 DEF Answered
<1> QED
  BY <1>3, <1>4

LEMMA AccountedAlways == Spec => []Accounted
<1>1. Init => Accounted
  BY DEF Init, Accounted
<1>2. Typed /\ Accounted /\ [Next]_vars => Accounted'
  <2> SUFFICES ASSUME Typed, Accounted, [Next]_vars PROVE Accounted'
    OBVIOUS
  <2>1. ASSUME pc' = "idle" PROVE Accounted'
    BY <2>1 DEF Accounted
  <2>2. ASSUME UNCHANGED <<pc, hand, fetchVars>> PROVE Accounted'
    BY <2>2 DEF Accounted, Answered, ctl, fetchVars
  <2>3. ASSUME NEW r, RunTaken(r) PROVE Accounted'
    <3>1. pc' = "fetch" /\ hand' = r /\ pending' = ListIn[r.cab].entries
      BY <2>3 DEF RunTaken, Asks
    <3> QED BY <3>1 DEF Accounted, Answered, ctl
  <2>4. CASE Run
    BY <2>1, <2>3, <2>4
       DEF Run, RunUnreached, RunNotModified, RunUnusable, RunReplayed,
           RunCommittedUnreadable, RunSame, Settles, Ends
  <2>5. CASE FetchComplete
    BY <2>5 DEF FetchComplete, Accounted, Answered, ctl, fetchVars
  <2>6. ASSUME NEW from, from \notin {"idle", "fetch"}, NEW to, to # "fetch",
               NEW files, Writes(from, to, files)
        PROVE  Accounted'
    BY <2>6 DEF Writes, Accounted, ctl, fetchVars
  <2>7. CASE Write
    BY <2>1, <2>6, <2>7
       DEF Write, ClearRoots, WriteRoots, WriteIndex, WriteCab, WritePublished,
           WriteCollected, WriteSequence, WriteModified, Ends
  <2>8. CASE DayPasses \/ PutUp \/ UNCHANGED vars
    BY <2>2, <2>8 DEF DayPasses, PutUp, vars
  <2>9. CASE Fetch \/ Build \/ RunDies \/ Merge
    BY <2>1, <2>5, <2>9, PassAccounts
       DEF Fetch, FetchShort, Build, BuildMissing, BuildEmpty, RunDies, Merge, Ends
  <2> QED BY <2>4, <2>7, <2>8, <2>9 DEF Next
<1> QED BY <1>1, <1>2, TypedAlways, PTL DEF Spec

(* THEOREM NothingGoesEarly: no run removes a root before bytes have       *)
(* arrived for each entry of its list, whatever tree it started in.        *)
THEOREM NothingGoesEarly == Spec => NothingDeletedUntilAllArrived
<1>1. Typed /\ Accounted /\ [Next]_vars
        => [pc # "idle" /\ ~(tree.roots \subseteq tree'.roots)
              => \A x \in ctl.entries : got[x] # Nothing]_vars
  <2> SUFFICES ASSUME Typed, Accounted, Next,
                      pc # "idle", ~(tree.roots \subseteq tree'.roots)
               PROVE  \A x \in ctl.entries : got[x] # Nothing
    OBVIOUS
  <2>1. CASE pc = "fetch"
    <3>1. tree' = tree
      BY <2>1 DEF Next, DayPasses, PutUp, Run, RunUnreached, RunNotModified,
                  RunUnusable, RunReplayed, RunCommittedUnreadable, RunSame,
                  RunTaken, Asks, Settles, Fetch, FetchPass, FetchComplete,
                  FetchShort, Build, BuildMissing, BuildEmpty, Write, ClearRoots,
                  WriteRoots, WriteIndex, WriteCab, WritePublished,
                  WriteCollected, WriteSequence, WriteModified, Writes, RunDies,
                  Merge
    <3> QED BY <3>1
  <2>2. CASE pc # "fetch"
    BY <2>2 DEF Accounted
  <2> QED BY <2>1, <2>2
<1> QED BY <1>1, TypedAlways, AccountedAlways, PTL
        DEF Spec, NothingDeletedUntilAllArrived

-----------------------------------------------------------------------------
(* The rollback guard, from the transfer to the merge.                     *)

(* A run under way, or one whose result may be merged.                     *)
Pending == pc # "idle" \/ outcome = "rewritten"

Successor ==
  Pending => Usable(hand.cab) /\ NotEarlier(hand.cab, head.cab)

LEMMA TakenFollows ==
  ASSUME TypeOK, Base = head, Whole(head), NEW r \in Release, RunTaken(r)
  PROVE  /\ Usable(r.cab) /\ NotEarlier(r.cab, head.cab)
         /\ pc' = "fetch" /\ hand' = r /\ head' = head
<1>1. /\ Usable(r.cab) /\ pc' = "fetch" /\ hand' = r /\ head' = head
      /\ ~Replayed(ListIn[r.cab]) /\ ~Same(ListIn[r.cab])
  BY DEF RunTaken, Asks, Arrives
<1>2. r.cab \in Cabs /\ head.cab \in Cabs \cup {NoCab}
  BY TreeParts DEF Release, Whole, TypeOK
<1> SUFFICES ASSUME head.cab # NoCab
             PROVE  NotEarlier(r.cab, head.cab)
  BY <1>1 DEF NotEarlier, Usable
<1> DEFINE new == ListIn[r.cab]
           have == ListIn[head.cab]
<1>3. head.cab \in Cabs
  BY <1>2
<1>4. /\ new.sequence \in Nat /\ new.published \in Nat
      /\ have.sequence \in Nat /\ have.published \in Nat
  BY <1>2, <1>3, ListParts DEF Days
<1>5. new.sequence = NoSequence \/ new.sequence # have.sequence
  BY <1>1, <1>3 DEF Same
<1>6. /\ ~(NoSequence \notin {new.sequence, have.sequence} /\ new.sequence < have.sequence)
      /\ ~(new.published < have.published)
  BY <1>1, <1>3, <1>5 DEF Replayed
<1> QED
  BY <1>1, <1>4, <1>6 DEF NotEarlier, Usable

LEMMA SuccessorAlways ==
  ASSUME \A s \in Settings : s.checkout
  PROVE  Spec => []Successor
<1>1. Init => Successor
  BY DEF Init, Successor, Pending
<1>2. Typed /\ Committable /\ Successor /\ [Next]_vars => Successor'
  <2> SUFFICES ASSUME Typed, Committable, Successor, [Next]_vars PROVE Successor'
    OBVIOUS
  <2>1. TypeOK /\ Offered \subseteq Release /\ Base = head /\ Whole(head)
    BY OfferedAreReleases DEF Typed, TypeOK, Base, Committable
  <2>2. ASSUME ~Pending' PROVE Successor'
    BY <2>2 DEF Successor
  <2>3. ASSUME Pending, UNCHANGED <<hand, head>> PROVE Successor'
    BY <2>3 DEF Successor, Usable, Vouched, NotEarlier
  <2>4. CASE DayPasses \/ PutUp \/ UNCHANGED vars
    BY <2>2, <2>3, <2>4 DEF DayPasses, PutUp, vars, Pending
  <2>5. ASSUME NEW r \in Offered, RunTaken(r) PROVE Successor'
    BY <2>1, <2>5, TakenFollows DEF Successor, Usable, Vouched, NotEarlier
  <2>6. CASE Run
    BY <2>2, <2>5, <2>6
       DEF Run, RunUnreached, RunNotModified, RunUnusable, RunReplayed,
           RunCommittedUnreadable, RunSame, Settles, Ends, Pending
  <2>7. CASE Fetch \/ Build \/ RunDies
    <3>1. pc # "idle" /\ UNCHANGED <<hand, head>>
      BY <2>7 DEF Fetch, FetchPass, FetchComplete, FetchShort, Build, BuildMissing,
                  BuildEmpty, RunDies
    <3> QED BY <2>3, <3>1 DEF Pending
  <2>8. CASE Write
    <3>1. pc # "idle" /\ UNCHANGED <<hand, head>>
      BY <2>8 DEF Write, ClearRoots, WriteRoots, WriteIndex, WriteCab,
                  WritePublished, WriteCollected, WriteSequence, WriteModified,
                  Writes
    <3> QED BY <2>3, <3>1 DEF Pending
  <2>9. CASE Merge
    BY <2>2, <2>9 DEF Merge, Pending
  <2> QED BY <2>4, <2>6, <2>7, <2>8, <2>9 DEF Next
<1> QED BY <1>1, <1>2, TypedAlways, CommittableAlways, PTL DEF Spec

(* THEOREM Implements: in runs that start from a fresh checkout,           *)
(* authroot_refresh.rs keeps the promise of CommittedStore: what is        *)
(* committed is what the list committed with it yields, and no merge       *)
(* replaces a list with an earlier one or with one not vouched for.        *)
THEOREM Implements ==
  ASSUME \A s \in Settings : s.checkout
  PROVE  Spec => ImplementsCommittedStore
<1>1. Init => Committed!Init
  BY DEF Init, EmptyCrate, LegacyCrate, HeadMaterial, Committed!Init
<1>2. ASSUME Typed, Committable, Successor, [Next]_vars
      PROVE  [Committed!Next]_(Committed!vars)
  <2> SUFFICES ASSUME <<head.cab, HeadMaterial>>' # <<head.cab, HeadMaterial>>
               PROVE  Committed!Next
    BY DEF Committed!vars
  <2>1. head' # head
    BY DEF HeadMaterial
  <2>2. Merge
    BY <1>2, <2>1
       DEF Next, vars, DayPasses, PutUp, Run, RunUnreached, RunNotModified,
           RunUnusable, RunReplayed, RunCommittedUnreadable, RunSame, RunTaken,
           Asks, Settles, Fetch, FetchPass, FetchComplete, FetchShort, Build,
           BuildMissing, BuildEmpty, Write, ClearRoots, WriteRoots, WriteIndex,
           WriteCab, WritePublished, WriteCollected, WriteSequence,
           WriteModified, Writes, RunDies
  <2>3. Reported /\ head' = tree /\ Whole(tree) /\ Whole(head)
        /\ tree \in Tree /\ head \in Tree
    BY <1>2, <2>2 DEF Merge, Reported, Committable, Typed, TypeOK
  <2>4. outcome = "rewritten"
    <3> SUFFICES ASSUME outcome = "unchanged" PROVE FALSE
      BY <2>2 DEF Merge
    <3>1. tree.cab = head.cab /\ head.cab \in Cabs \cup {NoCab}
      BY <1>2, <2>3, TreeParts DEF Committable, Whole
    <3>2. HeadMaterial' = HeadMaterial
      <4>1. CASE head.cab = NoCab
        BY <2>3, <3>1, <4>1 DEF HeadMaterial, NoMaterial
      <4>2. CASE head.cab \in Cabs
        BY <2>3, <3>1, <4>2 DEF HeadMaterial, Whole, Complete
      <4> QED BY <3>1, <4>1, <4>2
    <3> QED BY <2>3, <3>1, <3>2
  <2>5. /\ tree.cab = hand.cab /\ hand.cab \in Cabs /\ hand.cab # NoCab
        /\ Usable(hand.cab) /\ NotEarlier(hand.cab, head.cab)
    BY <1>2, <2>3, <2>4, AuthrootAssumption
       DEF Committable, Successor, Pending, Typed, TypeOK, Release
  <2>6. HeadMaterial' = Material(ListIn[hand.cab])
    <3> DEFINE all == Material(ListIn[hand.cab])
    <3>1. all = [roots |-> all.roots, index |-> all.index, published |-> all.published]
      BY DEF Material
    <3>2. /\ tree.roots = all.roots /\ tree.index = all.index
          /\ tree.published = all.published
      BY <2>3, <2>5, MaterialType DEF Whole, Complete
    <3>3. HeadMaterial' = [roots |-> tree.roots, index |-> tree.index,
                           published |-> tree.published]
      BY <2>3, <2>5 DEF HeadMaterial
    <3> HIDE DEF all
    <3>4. HeadMaterial' = all
      BY <3>1, <3>2, <3>3
    <3> QED BY <3>4 DEF all
  <2>7. MaterialOf(head'.cab) = HeadMaterial'
    BY <2>3, <2>5, <2>6 DEF MaterialOf
  <2> QED BY <2>3, <2>5, <2>7 DEF Committed!Next, Committed!Commit
<1> QED BY <1>1, <1>2, TypedAlways, CommittableAlways, SuccessorAlways, PTL
        DEF Spec, ImplementsCommittedStore, Committed!Spec

-----------------------------------------------------------------------------
(* What a 304 may hide.                                                    *)

Takable == {r \in {Releases[i] : i \in DOMAIN Releases} : Usable(r.cab)}

SequenceOf(r) == ListIn[r.cab].sequence

(* Lists that can be taken are numbered, and their stamps, where the       *)
(* server states them, are in the order of their numbers; a crate without  *)
(* a cabinet is of no later list.                                          *)
StampsInOrder ==
  /\ \A r \in Takable : SequenceOf(r) # NoSequence
  /\ \A r, s \in Takable :
       r.modified # NoDate /\ s.modified # NoDate /\ r.modified <= s.modified
       => SequenceOf(r) <= SequenceOf(s)
  /\ \A c \in Legacy, r \in Takable : ListIn[c].sequence <= SequenceOf(r)

(* The stamp in t is from the transfer of a list numbered n at most.       *)
StampedBy(t, n) ==
  t.modified # NoDate =>
    \E r \in Takable : r.modified = t.modified /\ SequenceOf(r) <= n

Dated(t) ==
  /\ t.cab \in Cabs => /\ \E r \in Takable : r.cab = t.cab
                       /\ StampedBy(t, ListIn[t.cab].sequence)
  /\ t.cab = NoCab =>
       \A r \in Takable : t.sequence <= SequenceOf(r) /\ StampedBy(t, SequenceOf(r))

InHand == hand \in Takable /\ StampedBy(tree, SequenceOf(hand)) /\ outcome = "none"

Stamps ==
  /\ Dated(head) /\ Dated(tree)
  /\ pc # "idle" => InHand
  /\ pc \in {"published", "collected", "sequence", "modified"} => tree.cab = hand.cab
  /\ NotModifiedMissesNothing

LEMMA TakableTypes ==
  /\ Takable \subseteq Release /\ Takable' = Takable
  /\ \A r \in Takable : r.cab \in Cabs /\ r.modified \in Nat /\ SequenceOf(r) \in Nat
<1>1. Takable \subseteq Release
  BY AuthrootAssumption DEF Takable
<1>2. Takable' = Takable
  BY DEF Takable, Usable, Vouched
<1> QED
  BY <1>1, <1>2, ListParts DEF Release, SequenceOf

LEMMA OfferedOrRefused ==
  ASSUME TypeOK, NEW r \in Offered
  PROVE  r \in Release /\ (Usable(r.cab) => r \in Takable)
BY OfferedAreReleases, AuthrootAssumption DEF TypeOK, Offered, Takable

(* The state a step leaves, stated of its files and what is in hand.       *)
LEMMA StampsLeft ==
  ASSUME Dated(head'), Dated(tree'),
         pc' # "idle" => /\ hand' \in Takable /\ StampedBy(tree', SequenceOf(hand'))
                         /\ outcome' = "none",
         pc' \in {"published", "collected", "sequence", "modified"} => tree'.cab = hand'.cab,
         outcome' = "not_modified" /\ Usable(hand'.cab) /\ tree'.cab \in Cabs
           => SequenceOf(hand') <= ListIn[tree'.cab].sequence
  PROVE  Stamps'
<1>1. Dated(head)' /\ Dated(tree)'
  BY TakableTypes DEF Dated, StampedBy, SequenceOf
<1>2. (pc # "idle" => InHand)'
  BY TakableTypes DEF InHand, StampedBy, SequenceOf
<1>3. NotModifiedMissesNothing'
  BY DEF NotModifiedMissesNothing, SequenceOf, Usable, Vouched, ctl
<1> QED
  BY <1>1, <1>2, <1>3 DEF Stamps

(* A list taken after the committed one is numbered at least as high as    *)
(* the one the stamp is from.                                              *)
LEMMA TakenIsLater ==
  ASSUME TypeOK, StampsInOrder, Dated(Base), NEW r \in Takable,
         ~Replayed(ListIn[r.cab]), Base.cab # Torn
  PROVE  StampedBy(Base, SequenceOf(r))
<1>1. Base \in Tree /\ Base.cab \in Cabs \cup {NoCab} /\ SequenceOf(r) \in Nat
  BY OfferedAreReleases, TreeParts, TakableTypes
<1>2. CASE Base.cab = NoCab
  BY <1>2 DEF Dated
<1>3. CASE Base.cab \in Cabs
  <2>1. PICK s \in Takable : s.cab = Base.cab
    BY <1>3 DEF Dated
  <2>2. SequenceOf(s) \in Nat /\ SequenceOf(s) # NoSequence /\ SequenceOf(r) # NoSequence
    BY TakableTypes DEF StampsInOrder
  <2>3. SequenceOf(s) <= SequenceOf(r)
    BY <1>1, <1>3, <2>1, <2>2 DEF Replayed, SequenceOf
  <2>4. StampedBy(Base, SequenceOf(s))
    BY <1>3, <2>1 DEF Dated, SequenceOf
  <2> QED BY <1>1, <2>2, <2>3, <2>4, TakableTypes DEF StampedBy
<1> QED
  BY <1>1, <1>2, <1>3

(* A run that compares equal leaves the stamp of what it compared.         *)
LEMMA SameIsDated ==
  ASSUME TypeOK, Dated(Base), NEW r \in Takable, Same(ListIn[r.cab])
  PROVE  Dated(Stamped(Base, r))
<1> DEFINE t == Stamped(Base, r)
<1> SUFFICES Dated(t)
  OBVIOUS
<1>1. /\ Base \in Tree /\ r \in Release /\ SequenceOf(r) \in Nat
      /\ t.cab = Base.cab /\ t.sequence = Base.sequence
      /\ Base.cab \in Cabs \cup {NoCab, Torn} /\ Base.sequence \in Nat
  BY OfferedAreReleases, StampedType, TreeParts, TakableTypes
<1>2. t.modified = (IF r.modified = NoDate THEN Base.modified ELSE r.modified)
  BY <1>1 DEF Stamped, Tree
<1> HIDE DEF t
<1>3. ASSUME NEW n \in Nat, SequenceOf(r) <= n, StampedBy(Base, n)
      PROVE  StampedBy(t, n)
  BY <1>2, <1>3 DEF StampedBy
<1>4. NoCab \notin Cabs /\ Torn \notin Cabs /\ NoCab # Torn
  BY AuthrootAssumption
<1>5. CASE Base.cab \in Cabs
  <2>1. SequenceOf(r) = ListIn[Base.cab].sequence
    BY <1>4, <1>5 DEF Same, SequenceOf
  <2>2. StampedBy(t, SequenceOf(r))
    BY <1>1, <1>3, <1>5, <2>1 DEF Dated
  <2>3. /\ t.cab # NoCab /\ \E s \in Takable : s.cab = t.cab
        /\ StampedBy(t, ListIn[t.cab].sequence)
    BY <1>1, <1>4, <1>5, <2>1, <2>2 DEF Dated
  <2> QED BY <2>3, Zenon DEF Dated
<1>6. CASE Base.cab = NoCab
  <2>1. SequenceOf(r) = Base.sequence
    BY <1>4, <1>6 DEF Same, SequenceOf
  <2>2. \A s \in Takable : SequenceOf(s) \in Nat /\ Base.sequence <= SequenceOf(s)
    BY <1>6, TakableTypes DEF Dated
  <2>3. \A s \in Takable : StampedBy(Base, SequenceOf(s))
    BY <1>6 DEF Dated
  <2>4. \A s \in Takable : StampedBy(t, SequenceOf(s))
    BY <1>3, <2>1, <2>2, <2>3
  <2>5. t.cab \notin Cabs /\ \A s \in Takable : t.sequence <= SequenceOf(s)
    BY <1>1, <1>4, <1>6, <2>2
  <2> QED BY <2>4, <2>5, Zenon DEF Dated
<1>7. CASE Base.cab = Torn
  BY <1>1, <1>4, <1>7 DEF Dated
<1> QED
  BY <1>1, <1>5, <1>6, <1>7

(* Writing what does not name the list keeps the stamp and its list.       *)
LEMMA FilesBesideCab ==
  ASSUME Stamps, pc # "idle", UNCHANGED <<head, hand, outcome>>, pc' # "idle",
         tree'.cab = tree.cab, tree'.modified = tree.modified,
         tree'.cab # NoCab \/ tree'.sequence = tree.sequence,
         pc' \in {"published", "collected", "sequence", "modified"} => tree'.cab = hand.cab
  PROVE  Stamps'
<1>1. Dated(tree')
  BY DEF Stamps, Dated, StampedBy
<1>2. hand' \in Takable /\ StampedBy(tree', SequenceOf(hand')) /\ outcome' = "none"
  BY DEF Stamps, InHand, StampedBy
<1> QED
  BY <1>1, <1>2, StampsLeft DEF Stamps

LEMMA StampsAlways ==
  ASSUME StampsInOrder
  PROVE  Spec => []Stamps
<1>1. Init => Stamps
  <2> SUFFICES ASSUME Init PROVE Stamps
    OBVIOUS
  <2>1. \A r \in Takable : head.sequence <= SequenceOf(r)
    <3>1. head.sequence = NoSequence \/ \E c \in Legacy : head.sequence = ListIn[c].sequence
      BY DEF Init, EmptyCrate, LegacyCrate
    <3> QED BY <3>1, TakableTypes DEF StampsInOrder, NoSequence
  <2>2. head.cab = NoCab /\ head.modified = NoDate
    BY DEF Init, EmptyCrate, LegacyCrate
  <2>3. Dated(head)
    BY <2>1, <2>2, AuthrootAssumption DEF Dated, StampedBy
  <2> QED BY <2>3 DEF Init, Stamps, NotModifiedMissesNothing
<1>2. Typed /\ Stamps /\ [Next]_vars => Stamps'
  <2> SUFFICES ASSUME Typed, Stamps, [Next]_vars PROVE Stamps'
    OBVIOUS
  <2>1. /\ TypeOK /\ Dated(head) /\ Dated(tree) /\ Dated(Base)
        /\ tree \in Tree /\ head \in Tree /\ Base \in Tree
    BY OfferedAreReleases DEF Typed, TypeOK, Stamps, Base
  <2>2. ASSUME UNCHANGED <<head, tree, pc, hand, outcome>> PROVE Stamps'
    BY <2>2, StampsLeft DEF Stamps, InHand, NotModifiedMissesNothing, SequenceOf, ctl
  <2>3. ASSUME head' = head, Dated(tree'), pc' = "idle", outcome' # "not_modified" PROVE Stamps'
    BY <2>1, <2>3, StampsLeft
  <2>4. CASE DayPasses \/ PutUp \/ UNCHANGED vars
    BY <2>2, <2>4 DEF DayPasses, PutUp, vars
  <2>5. ASSUME NEW r \in Offered, RunNotModified(r) PROVE Stamps'
    <3>1. /\ head' = head /\ tree' = Base /\ hand' = r /\ pc' = "idle"
          /\ Base.modified # NoDate /\ r.modified # NoDate /\ r.modified <= Base.modified
      BY <2>5 DEF RunNotModified, NotModified, Settles, Ends
    <3>2. ASSUME Usable(r.cab), Base.cab \in Cabs
          PROVE  SequenceOf(r) <= ListIn[Base.cab].sequence
      <4>1. r \in Takable
        BY <2>1, <3>2, OfferedOrRefused
      <4>2. PICK s \in Takable : s.modified = Base.modified
                                 /\ SequenceOf(s) <= ListIn[Base.cab].sequence
        BY <2>1, <3>1, <3>2 DEF Dated, StampedBy
      <4>3. SequenceOf(r) <= SequenceOf(s)
        BY <3>1, <4>1, <4>2 DEF StampsInOrder
      <4> QED BY <3>2, <4>1, <4>2, <4>3, ListParts, TakableTypes
    <3> QED BY <2>1, <3>1, <3>2, StampsLeft
  <2>6. ASSUME NEW r \in Offered, RunSame(r) PROVE Stamps'
    <3>1. /\ head' = head /\ tree' = Stamped(Base, r) /\ pc' = "idle"
          /\ outcome' = "unchanged" /\ Usable(r.cab) /\ Same(ListIn[r.cab])
      BY <2>6 DEF RunSame, Arrives, Settles, Ends
    <3> QED BY <2>1, <2>3, <3>1, OfferedOrRefused, SameIsDated
  <2>7. ASSUME NEW r \in Offered, RunTaken(r) PROVE Stamps'
    <3>1. /\ head' = head /\ tree' = Base /\ hand' = r /\ pc' = "fetch" /\ outcome' = "none"
          /\ Usable(r.cab) /\ ~Replayed(ListIn[r.cab]) /\ Base.cab # Torn
      BY <2>7 DEF RunTaken, Asks, Arrives
    <3>2. r \in Takable
      BY <2>1, <3>1, OfferedOrRefused
    <3>3. StampedBy(Base, SequenceOf(r))
      BY <2>1, <3>1, <3>2, TakenIsLater
    <3> QED BY <2>1, <3>1, <3>2, <3>3, StampsLeft
  <2>8. CASE Run
    <3>1. CASE RunUnreached \/ \E r \in Offered : \/ RunUnusable(r) \/ RunReplayed(r)
                                                  \/ RunCommittedUnreadable(r)
      BY <2>1, <2>3, <3>1
         DEF RunUnreached, RunUnusable, RunReplayed, RunCommittedUnreadable, Settles, Ends
    <3> QED BY <2>5, <2>6, <2>7, <2>8, <3>1 DEF Run
  <2>9. ASSUME NEW a, FetchPass(a) PROVE Stamps'
    BY <2>2, <2>9 DEF FetchPass
  <2>10. CASE FetchComplete
    BY <2>1, <2>10, FilesBesideCab DEF FetchComplete
  <2>11. CASE FetchShort \/ Build
    BY <2>1, <2>3, <2>11 DEF FetchShort, Build, BuildMissing, BuildEmpty, Ends
  <2>12. CASE RunDies
    <3>1. Dated(tree')
      <4>1. CASE tree' = tree
        BY <2>1, <4>1
      <4>2. CASE tree' = [tree EXCEPT !.cab = Torn]
        <5>1. tree'.cab = Torn
          BY <2>1, <4>2 DEF Tree
        <5> QED BY <5>1, AuthrootAssumption DEF Dated
      <4> QED BY <2>12, <4>1, <4>2 DEF RunDies
    <3> QED BY <2>3, <2>12, <3>1 DEF RunDies, Ends
  <2>13. ASSUME NEW files, NEW from \in {"clear", "build", "index"},
                NEW to \in {"build", "index", "cab"}, Writes(from, to, files),
                files.cab = tree.cab, files.modified = tree.modified,
                files.sequence = tree.sequence
         PROVE  Stamps'
    BY <2>13, FilesBesideCab DEF Writes
  <2>14. CASE ClearRoots
    <3> DEFINE files == [tree EXCEPT !.roots = {}]
    <3>1. files.cab = tree.cab /\ files.modified = tree.modified
          /\ files.sequence = tree.sequence
      BY <2>1 DEF Tree
    <3>2. Writes("clear", "build", files)
      BY <2>14 DEF ClearRoots
    <3> HIDE DEF files
    <3> QED BY <2>13, <3>1, <3>2
  <2>15. CASE WriteRoots
    <3> DEFINE files == [tree EXCEPT !.roots = @ \cup Built]
    <3>1. files.cab = tree.cab /\ files.modified = tree.modified
          /\ files.sequence = tree.sequence
      BY <2>1 DEF Tree
    <3>2. Writes("build", "index", files)
      BY <2>15 DEF WriteRoots
    <3> HIDE DEF files
    <3> QED BY <2>13, <3>1, <3>2
  <2>16. CASE WriteIndex
    <3> DEFINE files == [tree EXCEPT !.index[env] = Built]
               to == IF env = Len(Envs) THEN "cab" ELSE "build"
    <3>1. files.cab = tree.cab /\ files.modified = tree.modified
          /\ files.sequence = tree.sequence
      BY <2>1 DEF Tree
    <3>2. Writes("index", to, files) /\ to \in {"build", "index", "cab"}
      BY <2>16 DEF WriteIndex
    <3> HIDE DEF files, to
    <3> QED BY <2>13, <3>1, <3>2
  <2>17. CASE WriteCab
    <3> DEFINE files == [tree EXCEPT !.cab = hand.cab]
    <3>1. files.cab = hand.cab /\ files.modified = tree.modified
      BY <2>1 DEF Tree
    <3>2. /\ head' = head /\ hand' = hand /\ tree' = files /\ pc # "idle"
          /\ pc' = "published" /\ outcome' = outcome
      BY <2>17 DEF WriteCab, Writes
    <3> HIDE DEF files
    <3>3. hand \in Takable /\ StampedBy(tree', SequenceOf(hand)) /\ outcome' = "none"
      BY <3>1, <3>2 DEF Stamps, InHand, StampedBy
    <3>4. hand.cab # NoCab
      BY <3>3, TakableTypes, AuthrootAssumption
    <3>5. Dated(tree')
      BY <3>1, <3>2, <3>3, <3>4 DEF Dated, SequenceOf
    <3> QED BY <2>1, <3>1, <3>2, <3>3, <3>5, StampsLeft
  <2>18. ASSUME NEW files, NEW from \in {"published", "collected", "sequence"},
                NEW to \in {"collected", "sequence", "modified"}, Writes(from, to, files),
                files.cab = tree.cab, files.modified = tree.modified
         PROVE  Stamps'
    <3>1. hand \in Takable /\ tree.cab = hand.cab
      BY <2>18 DEF Stamps, InHand, Writes
    <3>2. tree.cab # NoCab
      BY <3>1, TakableTypes, AuthrootAssumption
    <3> QED BY <2>18, <3>1, <3>2, FilesBesideCab DEF Writes
  <2>19. CASE WritePublished
    <3> DEFINE files == [tree EXCEPT !.published = ctl.published]
    <3>1. files.cab = tree.cab /\ files.modified = tree.modified
      BY <2>1 DEF Tree
    <3>2. Writes("published", "collected", files)
      BY <2>19 DEF WritePublished
    <3> HIDE DEF files
    <3> QED BY <2>18, <3>1, <3>2
  <2>20. CASE WriteCollected
    <3> DEFINE files == [tree EXCEPT !.collected = day]
    <3>1. files.cab = tree.cab /\ files.modified = tree.modified
      BY <2>1 DEF Tree
    <3>2. Writes("collected", "sequence", files)
      BY <2>20 DEF WriteCollected
    <3> HIDE DEF files
    <3> QED BY <2>18, <3>1, <3>2
  <2>21. CASE WriteSequence
    <3> DEFINE files == IF ctl.sequence = NoSequence THEN tree
                        ELSE [tree EXCEPT !.sequence = ctl.sequence]
    <3>1. files.cab = tree.cab /\ files.modified = tree.modified
      BY <2>1 DEF Tree
    <3>2. Writes("sequence", "modified", files)
      BY <2>21 DEF WriteSequence
    <3> HIDE DEF files
    <3> QED BY <2>18, <3>1, <3>2
  <2>22. CASE WriteModified
    <3>1. /\ tree' = Stamped(tree, hand) /\ head' = head /\ pc' = "idle"
          /\ outcome' = "rewritten" /\ pc = "modified"
      BY <2>22 DEF WriteModified, Ends
    <3>2. /\ hand \in Takable /\ tree.cab = hand.cab /\ StampedBy(tree, SequenceOf(hand))
      BY <3>1 DEF Stamps, InHand
    <3>3. /\ hand \in Release /\ SequenceOf(hand) \in Nat /\ tree'.cab = hand.cab
          /\ hand.cab # NoCab
      BY <2>1, <3>1, <3>2, TakableTypes, StampedType, AuthrootAssumption
    <3>4. tree'.modified = (IF hand.modified = NoDate THEN tree.modified ELSE hand.modified)
      BY <2>1, <3>1 DEF Stamped, Tree
    <3>5. StampedBy(tree', SequenceOf(hand))
      BY <3>2, <3>3, <3>4 DEF StampedBy
    <3>6. Dated(tree')
      BY <3>2, <3>3, <3>5 DEF Dated, SequenceOf
    <3> QED BY <2>3, <3>1, <3>6
  <2>23. CASE Merge
    <3>1. head' = tree /\ tree' = tree /\ pc' = "idle" /\ outcome' = "merged"
      BY <2>23 DEF Merge
    <3> QED BY <2>1, <3>1, StampsLeft
  <2> QED BY <2>4, <2>8, <2>9, <2>10, <2>11, <2>12, <2>14, <2>15, <2>16, <2>17,
             <2>19, <2>20, <2>21, <2>22, <2>23
          DEF Next, Fetch, Write
<1> QED BY <1>1, <1>2, TypedAlways, PTL DEF Spec

(* THEOREM NotModifiedIsCurrent: of lists numbered in the order of their   *)
(* stamps, a 304 hides none that could have been taken, although the stamp *)
(* is stored apart from the list, wherever runs died between the two.      *)
THEOREM NotModifiedIsCurrent ==
  ASSUME StampsInOrder
  PROVE  Spec => []NotModifiedMissesNothing
<1>1. Stamps => NotModifiedMissesNothing
  BY DEF Stamps
<1> QED BY <1>1, StampsAlways, PTL
=============================================================================
