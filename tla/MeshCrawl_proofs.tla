-------------------------- MODULE MeshCrawl_proofs --------------------------
(***************************************************************************)
(* Proofs about the walk of MeshCrawl, for every mesh, network and limit.  *)
(***************************************************************************)
EXTENDS MeshCrawl, FiniteSetTheorems, TLAPS

-----------------------------------------------------------------------------
(* The inductive invariant.                                                *)

(* A URI has been taken from the queue and has no answer yet.              *)
InHand == pc \in {"fetch", "sample", "read"}

Settled == Held(bundles) \cup absent \cup unreachable

(* The sequence q lists the members of S, each once.                       *)
Lists(q, S) ==
  /\ \A i, k \in 1..Len(q) : q[i] = q[k] => i = k
  /\ \A i \in 1..Len(q) : q[i] \in S
  /\ \A u \in S : \E i \in 1..Len(q) : q[i] = u

QueueInv ==
  /\ Lists(queue, seenUris)
  /\ Complete => head = Len(queue)
  /\ truncated => pc = "done"

(* Exactly the URIs taken before the one in hand have an answer, one each, *)
(* and only one without an earlier copy is left without a bundle by        *)
(* silence.                                                                *)
SettledInv ==
  /\ Settled = {queue[i] : i \in 1..(IF InHand THEN head - 1 ELSE head)}
  /\ Held(bundles) \cap absent = {}
  /\ (Held(bundles) \cup absent) \cap unreachable = {}
  /\ \A u \in unreachable : earlier[u] = NoBody

(* What was collected is what the bundles read so far hold, less the part  *)
(* of the current bundle not looked at yet, and the URIs seen are the ones *)
(* the certificates seen name.                                             *)
CertInv ==
  /\ seenCerts = Anchors \cup certificates
  /\ certificates \cap Anchors = {}
  /\ seenUris = LinksOf(seenCerts)
  /\ CertsOf(bundles) = certificates \cup ((pending \cap Certs) \ Anchors)
  /\ pc # "certs" => pending = {}

(* Nothing is seen that the bundles read do not lead to.                   *)
LeastInv ==
  \A S \in SUBSET Uris : ClosedUnder(bundles, S) => seenUris \subseteq S

(* The limits were not reached when the URI in hand was taken.             *)
LimitInv ==
  /\ fetched <= MaxFetches
  /\ InHand => fetched < MaxFetches /\ Cardinality(certificates) < MaxCertificates

IInv == TypeOK /\ QueueInv /\ SettledInv /\ CertInv /\ LeastInv /\ LimitInv

-----------------------------------------------------------------------------
(* Facts about the mesh and the queue.                                     *)

(* A subset of the certificates can be counted.                            *)
LEMMA CertsCountable ==
  ASSUME NEW S \in SUBSET Certs
  PROVE  Cardinality(S) \in Nat
BY MeshAssumption, FS_Subset, FS_CardinalityType

(* A listing of a set of URIs is a sequence with each member once.         *)
LEMMA OrdersAreLists ==
  ASSUME NEW S \in SUBSET Uris, NEW s \in Orders(S)
  PROVE  /\ s \in Seq(Uris)
         /\ Len(s) \in Nat
         /\ Lists(s, S)
<1>1. Cardinality(S) \in Nat
  BY MeshAssumption, FS_Subset, FS_CardinalityType
<1>2. s \in [1..Cardinality(S) -> S]
  BY DEF Orders
<1>3. s \in Seq(Uris) /\ Len(s) = Cardinality(S)
  BY <1>1, <1>2
<1>4. QED
  BY <1>1, <1>2, <1>3 DEF Orders, Lists

LEMMA LinksAreUris ==
  ASSUME NEW S \in SUBSET Certs
  PROVE  LinksOf(S) \in SUBSET Uris
BY MeshAssumption DEF LinksOf

(* Appending new URIs to a queue without repetitions leaves it without     *)
(* repetitions, and changes nothing already in it.                         *)
LEMMA QueueGrows ==
  ASSUME NEW q \in Seq(Uris), NEW seen \in SUBSET Uris, NEW S \in SUBSET Uris,
         NEW s \in Orders(S \ seen),
         Lists(q, seen)
  PROVE  /\ q \o s \in Seq(Uris)
         /\ Len(q \o s) \in Nat /\ Len(q \o s) >= Len(q)
         /\ \A i \in 1..Len(q) : (q \o s)[i] = q[i]
         /\ Lists(q \o s, seen \cup S)
<1>0. /\ \A i, k \in 1..Len(q) : q[i] = q[k] => i = k
      /\ \A i \in 1..Len(q) : q[i] \in seen
      /\ \A u \in seen : \E i \in 1..Len(q) : q[i] = u
  BY DEF Lists
<1>1. /\ s \in Seq(Uris)
      /\ Len(s) \in Nat
      /\ \A i \in 1..Len(s) : s[i] \in S \ seen
      /\ \A i, k \in 1..Len(s) : s[i] = s[k] => i = k
      /\ \A u \in S \ seen : \E i \in 1..Len(s) : s[i] = u
  <2>1. S \ seen \in SUBSET Uris
    OBVIOUS
  <2>2. s \in Seq(Uris) /\ Len(s) \in Nat /\ Lists(s, S \ seen)
    BY <2>1, OrdersAreLists
  <2>3. QED
    BY <2>2 DEF Lists
<1> DEFINE r == q \o s
<1>2. /\ r \in Seq(Uris)
      /\ Len(q) \in Nat
      /\ Len(r) = Len(q) + Len(s)
      /\ \A i \in 1..Len(q) : r[i] = q[i]
      /\ \A i \in 1..Len(s) : r[Len(q) + i] = s[i]
      /\ \A i \in 1..Len(r) : i \notin 1..Len(q) =>
           i - Len(q) \in 1..Len(s) /\ r[i] = s[i - Len(q)]
  BY <1>1
<1> HIDE DEF r
<1>3. \A i \in 1..Len(r) : i \notin 1..Len(q) => r[i] \in S \ seen
  BY <1>1, <1>2
<1>4. \A i \in 1..Len(q) : r[i] \in seen
  BY <1>0, <1>2
<1>5. ASSUME NEW i \in 1..Len(r), NEW k \in 1..Len(r), r[i] = r[k]
      PROVE  i = k
  <2>1. CASE i \in 1..Len(q) /\ k \in 1..Len(q)
    BY <2>1, <1>0, <1>2, <1>5
  <2>2. CASE i \notin 1..Len(q) /\ k \notin 1..Len(q)
    <3>1. s[i - Len(q)] = s[k - Len(q)]
      BY <2>2, <1>2, <1>5
    <3>2. i - Len(q) = k - Len(q)
      BY <2>2, <3>1, <1>1, <1>2
    <3>3. QED
      BY <3>2, <1>2
  <2>3. CASE (i \in 1..Len(q)) # (k \in 1..Len(q))
    BY <2>3, <1>3, <1>4, <1>5
  <2>4. QED
    BY <2>1, <2>2, <2>3
<1>6. ASSUME NEW u \in seen \cup S
      PROVE  \E i \in 1..Len(r) : r[i] = u
  <2>1. CASE u \in seen
    <3>1. PICK i \in 1..Len(q) : q[i] = u
      BY <2>1, <1>0
    <3>2. i \in 1..Len(r) /\ r[i] = u
      BY <3>1, <1>1, <1>2
    <3>3. QED
      BY <3>2
  <2>2. CASE u \in S \ seen
    <3>1. PICK i \in 1..Len(s) : s[i] = u
      BY <2>2, <1>1
    <3>2. Len(q) + i \in 1..Len(r) /\ r[Len(q) + i] = u
      BY <3>1, <1>1, <1>2
    <3>3. QED
      BY <3>2
  <2>3. QED
    BY <2>1, <2>2
<1>7. \A i \in 1..Len(r) : r[i] \in seen \cup S
  BY <1>3, <1>4
<1>8. QED
  <2>1. Lists(r, seen \cup S)
    BY <1>5, <1>6, <1>7 DEF Lists
  <2>2. QED
    BY <1>1, <1>2, <2>1 DEF r

-----------------------------------------------------------------------------
(* Type correctness.                                                       *)

LEMMA InitTypeOK == Init => TypeOK
<1>1. LinksOf(Anchors) \in SUBSET Uris
  BY MeshAssumption, LinksAreUris
<1>2. \A s \in Orders(LinksOf(Anchors)) : s \in Seq(Uris)
  BY <1>1, OrdersAreLists
<1>3. <<>> \in Seq(Served)
  OBVIOUS
<1> SUFFICES ASSUME Init
             PROVE  TypeOK
  OBVIOUS
<1>4. queue \in Seq(Uris) /\ head \in 0..Len(queue)
  BY <1>2 DEF Init
<1>5. attempt \in 0..Retries /\ tries \in 0..Resamples
  BY CrawlAssumption DEF Init
<1>6. earlier \in Folder /\ bundles \in Folder
  BY DEF Init, Folder
<1>7. QED
  BY <1>1, <1>3, <1>4, <1>5, <1>6, MeshAssumption DEF Init, TypeOK

LEMMA NextTypeOK == TypeOK /\ [Next]_vars => TypeOK'
<1> USE DEF TypeOK
<1> SUFFICES ASSUME TypeOK, [Next]_vars
             PROVE  TypeOK'
  OBVIOUS
<1>1. CASE StopAtLimit
  BY <1>1 DEF StopAtLimit, netVars, walkVars
<1>2. CASE Finish
  BY <1>2 DEF Finish, netVars, walkVars, outVars
<1>3. CASE TakeUri
  BY <1>3, CrawlAssumption DEF TakeUri, outVars
<1>0. pc \notin {"next", "done"} => uri \in Uris
  BY DEF uri
<1>4. CASE AnswerAsBefore
  BY <1>0, <1>4, CrawlAssumption DEF AnswerAsBefore, walkVars, outVars, Served
<1>5. CASE AnswerDiffers
  BY <1>0, <1>5, CrawlAssumption DEF AnswerDiffers, walkVars, outVars, Served
<1>6. CASE AnswerAbsent
  BY <1>0, <1>6, CrawlAssumption DEF AnswerAbsent, walkVars
<1>7. CASE AskAgain
  BY <1>0, <1>7, CrawlAssumption DEF AskAgain, walkVars, outVars
<1>8. CASE FallBack
  BY <1>0, <1>8, MeshAssumption, CrawlAssumption DEF FallBack, walkVars, Folder
<1>9. CASE GiveUp
  BY <1>0, <1>9, CrawlAssumption DEF GiveUp, walkVars
<1>10. CASE Resample
  BY <1>0, <1>10, CrawlAssumption DEF Resample, walkVars, outVars, Served
<1>11. CASE ResampleFails
  BY <1>0, <1>11, CrawlAssumption DEF ResampleFails, walkVars, outVars
<1>12. CASE KeepNewest
  <2>1. \A i \in DOMAIN copies : copies[i].body \in Bodies
    <3>1. copies \in Seq(Served)
      OBVIOUS
    <3>2. \A i \in DOMAIN copies : copies[i] \in Served
      BY <3>1
    <3>3. QED
      BY <3>2 DEF Served
  <2>2. <<>> \in Seq(Served)
    OBVIOUS
  <2>3. body' \in Bodies
    BY <1>12, <2>1 DEF KeepNewest
  <2>4. disagreed' \in SUBSET Uris
    <3>1. disagreed' = disagreed \/ disagreed' = disagreed \cup {uri}
      BY <1>12 DEF KeepNewest
    <3>2. QED
      BY <1>0, <1>12, <3>1 DEF KeepNewest
  <2>5. /\ pc' = "read" /\ copies' = <<>> /\ tries' = 0
        /\ UNCHANGED <<earlier, attempt, walkVars, fetched, absent,
                       unreachable, fellBack, truncated, bundles>>
        /\ head > 0
    BY <1>12 DEF KeepNewest
  <2>6. tries' \in 0..Resamples
    BY <2>5, CrawlAssumption
  <2>7. QED
    BY <2>2, <2>3, <2>4, <2>5, <2>6 DEF walkVars
<1>13. CASE ReadBundle
  BY <1>0, <1>13, MeshAssumption DEF ReadBundle, Folder
<1>14. CASE NotABundle
  BY <1>0, <1>14 DEF NotABundle, walkVars
<1>15. ASSUME NEW c \in pending, SkipEntry(c)
       PROVE  TypeOK'
  BY <1>15 DEF SkipEntry, netVars, outVars
<1>16. ASSUME NEW c \in pending, TakeCert(c)
       PROVE  TypeOK'
  <2>1. Repositories[c] \in SUBSET Uris
    BY <1>16, MeshAssumption DEF TakeCert
  <2>2. PICK s \in Orders(Repositories[c] \ seenUris) : queue' = queue \o s
    BY <1>16 DEF TakeCert
  <2>3. s \in Seq(Uris)
    BY <2>1, <2>2, OrdersAreLists
  <2>4. queue' \in Seq(Uris) /\ head \in 0..Len(queue')
    BY <2>2, <2>3
  <2>5. QED
    BY <1>16, <2>1, <2>4 DEF TakeCert, netVars, outVars
<1>17. CASE BundleDone
  BY <1>17 DEF BundleDone, netVars, walkVars, outVars
<1>18. CASE UNCHANGED vars
  BY <1>18 DEF vars, netVars, walkVars, outVars
<1>19. QED
  BY <1>1, <1>2, <1>3, <1>4, <1>5, <1>6, <1>7, <1>8, <1>9, <1>10, <1>11,
     <1>12, <1>13, <1>14, <1>15, <1>16, <1>17, <1>18 DEF Next, Done

(* Every variable of the walk keeps its type, stage by stage.              *)
THEOREM TypeCorrect == Spec => []TypeOK
<1>1. QED
  BY InitTypeOK, NextTypeOK, PTL DEF Spec

-----------------------------------------------------------------------------
(* The invariant.                                                          *)

LEMMA InitIInv == Init => IInv
<1> SUFFICES ASSUME Init
             PROVE  IInv
  OBVIOUS
<1>1. TypeOK
  BY InitTypeOK
<1>2. LinksOf(Anchors) \in SUBSET Uris
  BY MeshAssumption, LinksAreUris
<1>3. Held(bundles) = {} /\ CertsOf(bundles) = {}
  BY DEF Init, Held, CertsOf
<1>4. QueueInv
  <2>1. Lists(queue, seenUris)
    BY <1>2, OrdersAreLists DEF Init
  <2>2. QED
    BY <2>1 DEF Init, QueueInv, Complete
<1>5. SettledInv
  BY <1>3 DEF Init, SettledInv, Settled, InHand
<1>6. CertInv
  BY <1>3 DEF Init, CertInv
<1>7. LeastInv
  BY DEF Init, LeastInv, ClosedUnder
<1>8. LimitInv
  BY CrawlAssumption DEF Init, LimitInv, InHand
<1>9. QED
  BY <1>1, <1>4, <1>5, <1>6, <1>7, <1>8 DEF IInv

(* The steps of fetch_with_retries and newest_copy that settle nothing.    *)
FetchStep ==
  /\ InHand /\ InHand'
  /\ UNCHANGED <<earlier, walkVars, fetched, absent, unreachable, bundles,
                 truncated>>

LEMMA FetchSteps ==
  \/ AnswerAsBefore \/ AnswerDiffers \/ AskAgain \/ FallBack
  \/ Resample \/ ResampleFails \/ KeepNewest
  => FetchStep
BY DEF FetchStep, InHand, walkVars, outVars, AnswerAsBefore, AnswerDiffers,
       AskAgain, FallBack, Resample, ResampleFails, KeepNewest

(* The URI in hand has no answer yet, and with one all URIs taken have.    *)
LEMMA UriInHand ==
  ASSUME TypeOK, QueueInv, SettledInv, InHand
  PROVE  /\ uri \in Uris
         /\ uri \in seenUris
         /\ uri \notin Settled
         /\ Settled \cup {uri} = {queue[i] : i \in 1..head}
<1>1. head \in 1..Len(queue) /\ uri = queue[head]
  BY DEF TypeOK, InHand, uri
<1>2. Settled = {queue[i] : i \in 1..(head - 1)}
  BY DEF SettledInv
<1>3. uri \notin Settled
  BY <1>1, <1>2 DEF QueueInv, Lists, TypeOK
<1>4. Settled \cup {uri} = {queue[i] : i \in 1..head}
  <2>1. \A i \in 1..head : i = head \/ i \in 1..(head - 1)
    BY <1>1
  <2>2. \A i \in 1..(head - 1) : i \in 1..head
    BY <1>1
  <2>3. \A i \in 1..head : queue[i] \in Settled \cup {uri}
    BY <1>1, <1>2, <2>1
  <2>4. \A u \in Settled \cup {uri} : \E i \in 1..head : u = queue[i]
    BY <1>1, <1>2, <2>2
  <2>5. QED
    BY <2>3, <2>4
<1>5. QED
  BY <1>1, <1>3, <1>4 DEF QueueInv, Lists, TypeOK

LEMMA CertsOfMember ==
  ASSUME NEW folder, NEW c
  PROVE  c \in CertsOf(folder)
         <=> c \notin Anchors /\ \E u \in Held(folder) : c \in CertsIn(folder[u])
BY Zenon DEF CertsOf

(* What reading a bundle from the URI in hand adds to the folder.          *)
LEMMA ReadAdds ==
  ASSUME TypeOK, QueueInv, SettledInv, ReadBundle
  PROVE  /\ Held(bundles') = Held(bundles) \cup {uri}
         /\ uri \notin Held(bundles)
         /\ bundles'[uri] = body
         /\ \A u \in Held(bundles) : bundles'[u] = bundles[u]
         /\ CertsOf(bundles') = CertsOf(bundles) \cup (CertsIn(body) \ Anchors)
<1>1. InHand
  BY DEF ReadBundle, InHand
<1>2. uri \in Uris /\ uri \notin Held(bundles)
  BY <1>1, UriInHand DEF Settled
<1>3. /\ bundles' = [bundles EXCEPT ![uri] = body]
      /\ body # NoBody
      /\ bundles \in [Uris -> Bundles \cup {NoBody}]
  BY MeshAssumption DEF ReadBundle, TypeOK, Folder
<1>4. bundles'[uri] = body /\ \A u \in Uris : u # uri => bundles'[u] = bundles[u]
  BY <1>2, <1>3
<1>5. Held(bundles') = Held(bundles) \cup {uri}
  BY <1>2, <1>3, <1>4 DEF Held
<1>6. \A u \in Held(bundles) : bundles'[u] = bundles[u]
  BY <1>2, <1>4 DEF Held
<1>7. CertsOf(bundles') = CertsOf(bundles) \cup (CertsIn(body) \ Anchors)
  <2>1. ASSUME NEW c
        PROVE  c \in CertsOf(bundles')
               <=> c \in CertsOf(bundles) \cup (CertsIn(body) \ Anchors)
    BY <1>4, <1>5, <1>6, CertsOfMember
  <2>2. QED
    BY <2>1
<1>8. QED
  BY <1>2, <1>4, <1>5, <1>6, <1>7

LEMMA NextQueueInv == IInv /\ Next => QueueInv'
<1> SUFFICES ASSUME IInv, Next
             PROVE  QueueInv'
  OBVIOUS
<1>1. TypeOK /\ QueueInv
  BY DEF IInv
<1>2. ASSUME NEW c \in pending, TakeCert(c)
      PROVE  QueueInv'
  <2>1. Repositories[c] \in SUBSET Uris
    BY <1>2, MeshAssumption DEF TakeCert
  <2>2. PICK s \in Orders(Repositories[c] \ seenUris) : queue' = queue \o s
    BY <1>2 DEF TakeCert
  <2>3. /\ queue \in Seq(Uris) /\ seenUris \in SUBSET Uris
        /\ Lists(queue, seenUris)
    BY <1>1 DEF TypeOK, QueueInv
  <2>4. Lists(queue', seenUris \cup Repositories[c])
    BY <2>1, <2>2, <2>3, QueueGrows
  <2>5. seenUris' = seenUris \cup Repositories[c] /\ ~Complete' /\ ~truncated'
    BY <1>1, <1>2 DEF TakeCert, Complete, QueueInv, outVars
  <2>6. QED
    BY <2>4, <2>5 DEF QueueInv
<1>3. CASE Finish
  BY <1>1, <1>3 DEF Finish, QueueInv, Complete, walkVars, outVars
<1>4. CASE StopAtLimit
  BY <1>1, <1>4 DEF StopAtLimit, QueueInv, Complete, walkVars, outVars
<1>5. CASE TakeUri
  BY <1>1, <1>5 DEF TakeUri, QueueInv, Complete, outVars
<1>6. CASE FetchStep
  BY <1>1, <1>6 DEF FetchStep, InHand, QueueInv, Complete, walkVars, outVars
<1>7. CASE AnswerAbsent \/ GiveUp \/ NotABundle
  BY <1>1, <1>7 DEF AnswerAbsent, GiveUp, NotABundle, QueueInv, Complete, walkVars, outVars
<1>8. CASE ReadBundle
  BY <1>1, <1>8 DEF ReadBundle, QueueInv, Complete, outVars
<1>9. ASSUME NEW c \in pending, SkipEntry(c)
      PROVE  QueueInv'
  BY <1>1, <1>9 DEF SkipEntry, QueueInv, Complete, outVars
<1>10. CASE BundleDone
  BY <1>1, <1>10 DEF BundleDone, QueueInv, Complete, walkVars, outVars
<1>11. CASE Done
  BY <1>1, <1>11 DEF Done, vars, walkVars, outVars, QueueInv, Complete
<1>12. QED
  BY <1>2, <1>3, <1>4, <1>5, <1>6, <1>7, <1>8, <1>9, <1>10, <1>11, FetchSteps
     DEF Next

LEMMA NextSettledInv == IInv /\ Next => SettledInv'
<1> SUFFICES ASSUME IInv, Next
             PROVE  SettledInv'
  OBVIOUS
<1>1. TypeOK /\ QueueInv /\ SettledInv
  BY DEF IInv
<1>2. CASE TakeUri
  <2>1. Settled' = Settled /\ ~InHand /\ InHand' /\ head' - 1 = head
    BY <1>1, <1>2 DEF TakeUri, Settled, InHand, TypeOK, outVars
  <2>2. QED
    BY <1>1, <1>2, <2>1 DEF TakeUri, SettledInv, outVars
<1>3. CASE AnswerAbsent \/ NotABundle
  <2>1. /\ InHand /\ ~InHand'
        /\ absent' = absent \cup {uri}
        /\ UNCHANGED <<earlier, queue, head, unreachable, bundles>>
    BY <1>3 DEF AnswerAbsent, NotABundle, InHand, walkVars
  <2>2. Settled' = Settled \cup {uri}
    BY <2>1 DEF Settled
  <2>3. QED
    BY <1>1, <2>1, <2>2, UriInHand DEF SettledInv, Settled
<1>4. CASE GiveUp
  <2>1. /\ InHand /\ ~InHand'
        /\ unreachable' = unreachable \cup {uri}
        /\ earlier[uri] = NoBody
        /\ UNCHANGED <<earlier, queue, head, absent, bundles>>
    BY <1>4 DEF GiveUp, InHand, walkVars
  <2>2. Settled' = Settled \cup {uri}
    BY <2>1 DEF Settled
  <2>3. QED
    BY <1>1, <2>1, <2>2, UriInHand DEF SettledInv, Settled
<1>5. CASE ReadBundle
  <2>1. /\ InHand /\ ~InHand'
        /\ UNCHANGED <<earlier, queue, head, absent, unreachable>>
    BY <1>5 DEF ReadBundle, InHand
  <2>2. Held(bundles') = Held(bundles) \cup {uri}
    BY <1>1, <1>5, ReadAdds
  <2>3. Settled' = Settled \cup {uri}
    BY <2>1, <2>2 DEF Settled
  <2>4. QED
    BY <1>1, <2>1, <2>2, <2>3, UriInHand DEF SettledInv, Settled
<1>6. ASSUME NEW c \in pending, TakeCert(c)
      PROVE  SettledInv'
  <2>1. PICK s \in Orders(Repositories[c] \ seenUris) : queue' = queue \o s
    BY <1>6 DEF TakeCert
  <2>2. /\ queue \in Seq(Uris) /\ seenUris \in SUBSET Uris
        /\ Lists(queue, seenUris)
        /\ Repositories[c] \in SUBSET Uris
    BY <1>1, <1>6, MeshAssumption DEF TypeOK, QueueInv, TakeCert
  <2>3. \A i \in 1..Len(queue) : queue'[i] = queue[i]
    BY <2>1, <2>2, QueueGrows
  <2>4. /\ ~InHand /\ ~InHand'
        /\ UNCHANGED <<earlier, head, absent, unreachable, bundles>>
    BY <1>6 DEF TakeCert, InHand, outVars
  <2>5. \A i \in 1..head : queue'[i] = queue[i]
    BY <1>1, <2>2, <2>3 DEF TypeOK
  <2>6. {queue'[i] : i \in 1..head} = {queue[i] : i \in 1..head}
    BY <2>5
  <2>7. QED
    BY <1>1, <2>4, <2>6 DEF SettledInv, Settled
<1>7. CASE FetchStep
  BY <1>1, <1>7 DEF FetchStep, SettledInv, Settled, walkVars
<1>8. CASE StopAtLimit \/ Finish
  BY <1>1, <1>8 DEF StopAtLimit, Finish, SettledInv, Settled, InHand, walkVars,
                    outVars
<1>9. ASSUME NEW c \in pending, SkipEntry(c)
      PROVE  SettledInv'
  BY <1>1, <1>9 DEF SkipEntry, SettledInv, Settled, InHand, outVars
<1>10. CASE BundleDone
  BY <1>1, <1>10 DEF BundleDone, SettledInv, Settled, InHand, walkVars, outVars
<1>11. CASE Done
  BY <1>1, <1>11 DEF Done, vars, SettledInv, Settled, InHand, walkVars, outVars
<1>12. QED
  BY <1>2, <1>3, <1>4, <1>5, <1>6, <1>7, <1>8, <1>9, <1>10, <1>11, FetchSteps
     DEF Next

LEMMA LinksOfMember ==
  ASSUME NEW certs, NEW u
  PROVE  u \in LinksOf(certs) <=> \E c \in certs : u \in Repositories[c]
BY DEF LinksOf

LEMMA NextCertInv == IInv /\ Next => CertInv'
<1> SUFFICES ASSUME IInv, Next
             PROVE  CertInv'
  OBVIOUS
<1>1. TypeOK /\ QueueInv /\ SettledInv /\ CertInv
  BY DEF IInv
<1>2. CASE ReadBundle
  <2>1. CertsOf(bundles') = CertsOf(bundles) \cup (CertsIn(body) \ Anchors)
    BY <1>1, <1>2, ReadAdds
  <2>2. pending = {} /\ pending' = Entries[body] /\ pc' = "certs"
    BY <1>1, <1>2 DEF ReadBundle, CertInv
  <2>3. UNCHANGED <<seenUris, seenCerts, certificates>>
    BY <1>2 DEF ReadBundle
  <2>4. CertsOf(bundles) = certificates
    BY <1>1, <2>2 DEF CertInv
  <2>5. CertsOf(bundles') = certificates \cup ((pending' \cap Certs) \ Anchors)
    BY <2>1, <2>2, <2>4 DEF CertsIn
  <2>6. QED
    BY <1>1, <2>2, <2>3, <2>5 DEF CertInv
<1>3. ASSUME NEW c \in pending, TakeCert(c)
      PROVE  CertInv'
  <2>1. /\ c \in Certs /\ c \notin Anchors /\ c \notin certificates
        /\ pc = "certs" /\ pc' = "certs"
        /\ pending' = pending \ {c}
        /\ seenCerts' = seenCerts \cup {c}
        /\ certificates' = certificates \cup {c}
        /\ seenUris' = seenUris \cup Repositories[c]
        /\ bundles' = bundles
    BY <1>1, <1>3 DEF TakeCert, CertInv, outVars
  <2>2. seenUris' = LinksOf(seenCerts')
    <3>1. ASSUME NEW u
          PROVE  u \in seenUris' <=> u \in LinksOf(seenCerts')
      <4>1. u \in seenUris <=> \E d \in seenCerts : u \in Repositories[d]
        BY <1>1, LinksOfMember DEF CertInv
      <4>2. QED
        BY <2>1, <4>1, LinksOfMember
    <3>2. QED
      BY <3>1
  <2>3. certificates' \cup ((pending' \cap Certs) \ Anchors)
        = certificates \cup ((pending \cap Certs) \ Anchors)
    BY <1>3, <2>1
  <2>4. QED
    BY <1>1, <2>1, <2>2, <2>3 DEF CertInv
<1>4. ASSUME NEW c \in pending, SkipEntry(c)
      PROVE  CertInv'
  <2>1. /\ c \notin Certs \/ c \in Anchors \/ c \in certificates
        /\ pc' = pc /\ pc = "certs"
        /\ pending' = pending \ {c}
        /\ UNCHANGED <<seenUris, seenCerts, certificates, bundles>>
    BY <1>1, <1>4 DEF SkipEntry, CertInv, outVars
  <2>2. certificates \cup ((pending' \cap Certs) \ Anchors)
        = certificates \cup ((pending \cap Certs) \ Anchors)
    BY <2>1
  <2>3. QED
    BY <1>1, <2>1, <2>2 DEF CertInv
<1>5. CASE TakeUri
  BY <1>1, <1>5 DEF TakeUri, CertInv, outVars
<1>6. CASE FetchStep
  BY <1>1, <1>6 DEF FetchStep, CertInv, InHand, walkVars
<1>7. CASE AnswerAbsent \/ GiveUp \/ NotABundle
  BY <1>1, <1>7 DEF AnswerAbsent, GiveUp, NotABundle, CertInv, walkVars
<1>8. CASE StopAtLimit \/ Finish
  BY <1>1, <1>8 DEF StopAtLimit, Finish, CertInv, walkVars, outVars
<1>9. CASE BundleDone
  BY <1>1, <1>9 DEF BundleDone, CertInv, walkVars, outVars
<1>10. CASE Done
  BY <1>1, <1>10 DEF Done, vars, CertInv, walkVars, outVars
<1>11. QED
  BY <1>2, <1>3, <1>4, <1>5, <1>6, <1>7, <1>8, <1>9, <1>10, FetchSteps DEF Next

LEMMA NextLeastInv == IInv /\ Next => LeastInv'
<1> SUFFICES ASSUME IInv, Next
             PROVE  LeastInv'
  OBVIOUS
<1>1. TypeOK /\ QueueInv /\ SettledInv /\ CertInv /\ LeastInv
  BY DEF IInv
<1>2. CASE ReadBundle
  <2> SUFFICES ASSUME NEW S \in SUBSET Uris, ClosedUnder(bundles', S)
               PROVE  seenUris' \subseteq S
    BY DEF LeastInv
  <2>1. /\ Held(bundles) \subseteq Held(bundles')
        /\ \A u \in Held(bundles) : bundles'[u] = bundles[u]
    BY <1>1, <1>2, ReadAdds
  <2>2. ClosedUnder(bundles, S)
    BY <2>1 DEF ClosedUnder
  <2>3. QED
    BY <1>1, <1>2, <2>2 DEF LeastInv, ReadBundle
<1>3. ASSUME NEW c \in pending, TakeCert(c)
      PROVE  LeastInv'
  <2> SUFFICES ASSUME NEW S \in SUBSET Uris, ClosedUnder(bundles, S)
               PROVE  seenUris' \subseteq S
    BY <1>3 DEF LeastInv, TakeCert, outVars
  <2>1. seenUris \subseteq S
    BY <1>1 DEF LeastInv
  <2>2. c \in CertsOf(bundles)
    BY <1>1, <1>3 DEF TakeCert, CertInv
  <2>3. PICK v \in Held(bundles) : c \in CertsIn(bundles[v])
    BY <2>2, CertsOfMember
  <2>4. v \in seenUris
    <3>1. v \in Settled
      BY <2>3 DEF Settled
    <3>2. PICK i \in 1..(IF InHand THEN head - 1 ELSE head) : v = queue[i]
      BY <1>1, <3>1 DEF SettledInv
    <3>3. i \in 1..Len(queue)
      BY <1>1, <3>2 DEF TypeOK
    <3>4. QED
      BY <1>1, <3>2, <3>3 DEF QueueInv, Lists
  <2>5. LinksOf(CertsIn(bundles[v])) \subseteq S
    BY <2>1, <2>3, <2>4 DEF ClosedUnder
  <2>6. Repositories[c] \subseteq S
    BY <2>3, <2>5, LinksOfMember
  <2>7. QED
    BY <1>3, <2>1, <2>6 DEF TakeCert
<1>4. CASE UNCHANGED <<bundles, seenUris>>
  BY <1>1, <1>4 DEF LeastInv, ClosedUnder, Held
<1>5. \/ ReadBundle
      \/ \E c \in pending : TakeCert(c)
      \/ UNCHANGED <<bundles, seenUris>>
  BY FetchSteps DEF Next, StopAtLimit, Finish, TakeUri, AnswerAbsent, GiveUp,
     NotABundle, SkipEntry, BundleDone, Done, FetchStep, vars, walkVars, outVars
<1>6. QED
  BY <1>2, <1>3, <1>4, <1>5

LEMMA NextLimitInv == IInv /\ Next => LimitInv'
<1> SUFFICES ASSUME IInv, Next
             PROVE  LimitInv'
  OBVIOUS
<1>1. TypeOK /\ LimitInv
  BY DEF IInv
<1>2. CASE TakeUri
  <2>1. Cardinality(certificates) \in Nat
    BY <1>1, CertsCountable DEF TypeOK
  <2>2. QED
    BY <1>1, <1>2, <2>1, CrawlAssumption
       DEF TakeUri, AtLimit, LimitInv, TypeOK, outVars
<1>3. CASE ReadBundle \/ NotABundle
  <2>1. InHand /\ ~InHand' /\ fetched' = fetched + 1
    BY <1>3 DEF ReadBundle, NotABundle, InHand
  <2>2. QED
    BY <1>1, <2>1, CrawlAssumption DEF LimitInv, TypeOK
<1>4. CASE FetchStep
  BY <1>1, <1>4 DEF FetchStep, LimitInv, walkVars
<1>5. CASE fetched' = fetched /\ ~InHand'
  BY <1>1, <1>5 DEF LimitInv
<1>6. CASE Done
  BY <1>1, <1>6 DEF Done, LimitInv, InHand, vars, walkVars, outVars
<1>7. \/ TakeUri \/ ReadBundle \/ NotABundle \/ FetchStep
      \/ fetched' = fetched /\ ~InHand'
      \/ Done
  BY FetchSteps DEF Next, StopAtLimit, Finish, AnswerAbsent, GiveUp, SkipEntry,
     TakeCert, BundleDone, InHand, outVars
<1>8. QED
  BY <1>2, <1>3, <1>4, <1>5, <1>6, <1>7

LEMMA NextIInv == IInv /\ [Next]_vars => IInv'
<1> SUFFICES ASSUME IInv, [Next]_vars
             PROVE  IInv'
  OBVIOUS
<1>1. CASE Next
  <2>1. TypeOK'
    BY <1>1, NextTypeOK DEF IInv
  <2>2. QED
    BY <1>1, <2>1, NextQueueInv, NextSettledInv, NextCertInv, NextLeastInv,
       NextLimitInv DEF IInv
<1>2. CASE UNCHANGED vars
  <2>2. UNCHANGED <<pc, earlier, queue, head, seenUris, seenCerts, pending,
                    certificates, fetched, absent, unreachable, bundles,
                    truncated>>
    BY <1>2 DEF vars, walkVars, outVars
  <2>3. TypeOK'
    BY <1>2, NextTypeOK DEF IInv
  <2>4. QED
    <3>1. QueueInv'
      BY <2>2 DEF IInv, QueueInv, Complete
    <3>2. SettledInv'
      BY <2>2 DEF IInv, SettledInv, Settled, InHand
    <3>3. CertInv'
      BY <2>2 DEF IInv, CertInv
    <3>4. LeastInv'
      BY <2>2 DEF IInv, LeastInv
    <3>5. LimitInv'
      BY <2>2 DEF IInv, LimitInv, InHand
    <3>6. QED
      BY <2>3, <3>1, <3>2, <3>3, <3>4, <3>5 DEF IInv
<1>3. QED
  BY <1>1, <1>2

LEMMA Invariance == Spec => []IInv
BY InitIInv, NextIInv, PTL DEF Spec

-----------------------------------------------------------------------------
(* What the invariant says of a walk that has returned.                    *)

(* The URIs of a complete walk are closed under the links it read.         *)
LEMMA CompleteIsClosed ==
  ASSUME IInv, Complete
  PROVE  /\ seenUris \in SUBSET Uris
         /\ seenUris = Settled
         /\ ClosedUnder(bundles, seenUris)
<1>1. TypeOK /\ QueueInv /\ SettledInv /\ CertInv
  BY DEF IInv
<1>2. pc = "done" /\ ~InHand /\ head = Len(queue) /\ Len(queue) \in Nat
  BY <1>1 DEF QueueInv, Complete, InHand, TypeOK
<1>3. seenUris = Settled
  <2>1. Settled = {queue[i] : i \in 1..Len(queue)}
    BY <1>1, <1>2 DEF SettledInv
  <2>2. QED
    BY <1>1, <2>1 DEF QueueInv, Lists
<1>4. pending = {} /\ seenCerts = Anchors \cup CertsOf(bundles)
  BY <1>1, <1>2 DEF CertInv
<1>5. LinksOf(Anchors) \subseteq seenUris
  BY <1>1, <1>4, LinksOfMember DEF CertInv
<1>6. ASSUME NEW u \in Held(bundles)
      PROVE  LinksOf(CertsIn(bundles[u])) \subseteq seenUris
  <2>1. CertsIn(bundles[u]) \subseteq seenCerts
    BY <1>4, CertsOfMember
  <2>2. QED
    BY <1>1, <2>1, LinksOfMember DEF CertInv
<1>7. QED
  BY <1>1, <1>3, <1>5, <1>6 DEF ClosedUnder, TypeOK

LEMMA IInvExactWalk == IInv => ExactWalk
<1> SUFFICES ASSUME IInv, Complete
             PROVE  /\ seenUris = Reachable(bundles)
                    /\ seenUris = Held(bundles) \cup absent \cup unreachable
                    /\ Held(bundles) \cap absent = {}
                    /\ (Held(bundles) \cup absent) \cap unreachable = {}
  BY DEF ExactWalk
<1>1. SettledInv /\ LeastInv
  BY DEF IInv
<1>2. seenUris \subseteq Reachable(bundles)
  BY <1>1, CompleteIsClosed DEF LeastInv, Reachable
<1>3. Reachable(bundles) \subseteq seenUris
  BY CompleteIsClosed DEF Reachable
<1>4. QED
  BY <1>1, <1>2, <1>3, CompleteIsClosed DEF SettledInv, Settled

LEMMA IInvSameCertificates == IInv => SameCertificates
BY DEF IInv, CertInv, SameCertificates

LEMMA IInvOnlyAnAnswerRemoves == IInv => OnlyAnAnswerRemoves
<1> SUFFICES ASSUME IInv, Complete, IsWalk(earlier), absent = {},
                    \A u \in Held(bundles) : bundles[u] = earlier[u]
             PROVE  bundles = earlier
  BY DEF OnlyAnAnswerRemoves
<1>1. TypeOK /\ SettledInv
  BY DEF IInv
<1>2. /\ seenUris \in SUBSET Uris
      /\ seenUris = Held(bundles) \cup unreachable
      /\ ClosedUnder(bundles, seenUris)
  BY CompleteIsClosed DEF Settled
<1>3. \A u \in unreachable : u \notin Held(earlier)
  BY <1>1 DEF SettledInv, Held
<1>4. ClosedUnder(earlier, seenUris)
  <2>1. \A u \in seenUris \cap Held(earlier) :
          u \in Held(bundles) /\ bundles[u] = earlier[u]
    BY <1>2, <1>3
  <2>2. QED
    BY <1>2, <2>1 DEF ClosedUnder
<1>5. Held(earlier) \subseteq seenUris
  BY <1>2, <1>4 DEF IsWalk, Reachable
<1>6. \A u \in Uris : u \in Held(earlier) => u \in Held(bundles)
  BY <1>2, <1>3, <1>5
<1>7. \A u \in Uris : bundles[u] = earlier[u]
  BY <1>6 DEF Held
<1>8. QED
  BY <1>1, <1>7 DEF TypeOK, Folder

LEMMA IInvLimitsHold == IInv => LimitsHold
BY DEF IInv, LimitInv, LimitsHold, InHand

(* A walk that no limit stopped visits exactly what the bundles it read    *)
(* lead to, and each repository has one answer.                            *)
THEOREM WalkIsExact == Spec => []ExactWalk
BY Invariance, IInvExactWalk, PTL

(* The certificates returned are those of the bundles returned.            *)
THEOREM CertificatesMatchBundles == Spec => []SameCertificates
BY Invariance, IInvSameCertificates, PTL

(* Silence removes nothing an earlier complete walk had.                   *)
THEOREM SilenceRemovesNothing == Spec => []OnlyAnAnswerRemoves
BY Invariance, IInvOnlyAnAnswerRemoves, PTL

(* The limits bound the fetches, and no fetch starts at a limit.           *)
THEOREM LimitsBound == Spec => []LimitsHold
BY Invariance, IInvLimitsHold, PTL

-----------------------------------------------------------------------------
(* Refinement.                                                             *)

(* Known and Visited of the abstract walk, between two repositories: the   *)
(* URIs seen and the URIs answered.                                        *)
LEMMA KnownAndVisited ==
  ASSUME IInv
  PROVE  /\ Walk!Visited = Settled
         /\ pc # "certs" => Walk!Known = seenUris
<1>1. TypeOK /\ CertInv
  BY DEF IInv
<1>2. Walk!Visited = Settled
  BY DEF Walk!Visited, Settled, Walk!Held, Held
<1>3. ASSUME pc # "certs"
      PROVE  Walk!Known = seenUris
  <2>1. seenCerts = Anchors \cup CertsOf(bundles)
    BY <1>1, <1>3 DEF CertInv
  <2>2. Walk!Known = LinksOf(Anchors) \cup LinksOf(CertsOf(bundles))
    BY DEF Walk!Known, Walk!LinksOf, LinksOf, Walk!CertsOf, CertsOf,
           Walk!CertsIn, CertsIn, Walk!Held, Held
  <2>3. ASSUME NEW u
        PROVE  u \in Walk!Known <=> u \in seenUris
    BY <1>1, <2>1, <2>2, LinksOfMember DEF CertInv
  <2>4. QED
    BY <2>3
<1>4. QED
  BY <1>2, <1>3

LEMMA InitRefines == Init => Walk!Init
BY DEF Init, Walk!Init, Status, Walk!Folder, Folder

LEMMA NextRefines == IInv /\ [Next]_vars => [Walk!Next]_Walk!vars
<1> SUFFICES ASSUME IInv, [Next]_vars
             PROVE  [Walk!Next]_Walk!vars
  OBVIOUS
<1>1. TypeOK /\ QueueInv /\ SettledInv /\ CertInv
  BY DEF IInv
<1>2. CASE AnswerAbsent \/ NotABundle
  <2>1. /\ InHand /\ pc # "certs" /\ Status = "walking" /\ Status' = "walking"
        /\ absent' = absent \cup {uri}
        /\ UNCHANGED <<earlier, bundles, unreachable>>
    BY <1>2 DEF AnswerAbsent, NotABundle, InHand, Status
  <2>2. uri \in Walk!Known \ Walk!Visited
    BY <1>1, <2>1, UriInHand, KnownAndVisited
  <2>3. Walk!Visit(uri)
    BY <2>1 DEF Walk!Visit, Walk!Refuse
  <2>4. QED
    BY <2>2, <2>3 DEF Walk!Next
<1>3. CASE GiveUp
  <2>1. /\ InHand /\ pc # "certs" /\ Status = "walking" /\ Status' = "walking"
        /\ earlier[uri] = NoBody
        /\ unreachable' = unreachable \cup {uri}
        /\ UNCHANGED <<earlier, bundles, absent>>
    BY <1>3 DEF GiveUp, InHand, Status
  <2>2. uri \in Walk!Known \ Walk!Visited
    BY <1>1, <2>1, UriInHand, KnownAndVisited
  <2>3. Walk!Visit(uri)
    BY <2>1 DEF Walk!Visit, Walk!StaySilent
  <2>4. QED
    BY <2>2, <2>3 DEF Walk!Next
<1>4. CASE ReadBundle
  <2>1. /\ InHand /\ pc # "certs" /\ Status = "walking" /\ Status' = "walking"
        /\ body \in Bundles
        /\ bundles' = [bundles EXCEPT ![uri] = body]
        /\ UNCHANGED <<earlier, absent, unreachable>>
    BY <1>4 DEF ReadBundle, InHand, Status
  <2>2. uri \in Walk!Known \ Walk!Visited
    BY <1>1, <2>1, UriInHand, KnownAndVisited
  <2>3. Walk!Visit(uri)
    BY <2>1 DEF Walk!Visit, Walk!Read
  <2>4. QED
    BY <2>2, <2>3 DEF Walk!Next
<1>5. CASE Finish
  <2>1. /\ pc # "certs" /\ Status = "walking"
        /\ UNCHANGED <<earlier, bundles, absent, unreachable>>
    BY <1>5 DEF Finish, Status, outVars
  <2>2. seenUris = Settled
    <3>1. ~InHand /\ head = Len(queue)
      BY <1>5 DEF Finish, InHand
    <3>2. Settled = {queue[i] : i \in 1..Len(queue)}
      BY <1>1, <3>1 DEF SettledInv
    <3>3. QED
      BY <1>1, <3>2 DEF QueueInv, Lists
  <2>3. Status' = "complete"
    BY <1>1, <1>5 DEF Finish, Status, QueueInv, outVars
  <2>4. QED
    BY <2>1, <2>2, <2>3, KnownAndVisited DEF Walk!Next, Walk!CompleteWalk
<1>6. CASE StopAtLimit
  <2>1. /\ pc # "certs" /\ ~InHand /\ head + 1 \in 1..Len(queue)
        /\ Status = "walking" /\ Status' = "stopped"
        /\ UNCHANGED <<earlier, bundles, absent, unreachable>>
    BY <1>1, <1>6 DEF StopAtLimit, Status, InHand, TypeOK
  <2>2. queue[head + 1] \in seenUris
    BY <1>1, <2>1 DEF QueueInv, Lists
  <2>3. queue[head + 1] \notin Settled
    BY <1>1, <2>1 DEF SettledInv, QueueInv, Lists, TypeOK
  <2>4. QED
    BY <2>1, <2>2, <2>3, KnownAndVisited DEF Walk!Next, Walk!StopWalk
<1>7. CASE UNCHANGED <<earlier, bundles, absent, unreachable, Status>>
  BY <1>7 DEF Walk!vars
<1>8. \/ AnswerAbsent \/ NotABundle \/ GiveUp \/ ReadBundle
      \/ Finish \/ StopAtLimit
      \/ UNCHANGED <<earlier, bundles, absent, unreachable, Status>>
  <2>1. TakeUri \/ BundleDone =>
          UNCHANGED <<earlier, bundles, absent, unreachable, Status>>
    BY DEF TakeUri, BundleDone, Status, outVars
  <2>2. \A c \in pending : SkipEntry(c) \/ TakeCert(c) =>
          UNCHANGED <<earlier, bundles, absent, unreachable, Status>>
    BY DEF SkipEntry, TakeCert, Status, outVars
  <2>3. FetchStep => UNCHANGED <<earlier, bundles, absent, unreachable, Status>>
    BY DEF FetchStep, InHand, Status
  <2>4. UNCHANGED vars =>
          UNCHANGED <<earlier, bundles, absent, unreachable, Status>>
    BY DEF vars, Status, outVars
  <2>5. QED
    BY <2>1, <2>2, <2>3, <2>4, FetchSteps DEF Next, Done
<1>9. QED
  BY <1>2, <1>3, <1>4, <1>5, <1>6, <1>7, <1>8

(* The walk of crawl.rs implements the order-free walk of MeshWalk.        *)
THEOREM Implements == Spec => ImplementsWalk
BY Invariance, InitRefines, NextRefines, PTL
   DEF Spec, ImplementsWalk, Walk!Spec
=============================================================================
