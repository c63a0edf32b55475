----------------------------- MODULE MeshCrawl -----------------------------
(***************************************************************************)
(* The breadth-first walk of crawl.rs, from_anchors_with: fetch each       *)
(* repository once, ask again when nothing answers, take more samples when *)
(* the answer differs from the earlier copy, fall back to that copy when   *)
(* there is no answer at all, and queue what the certificates found name.  *)
(*                                                                         *)
(* The network is the environment.  A fetch returns one of the copies the  *)
(* servers behind the URI hold (Serves), a 4xx, or nothing, chosen afresh  *)
(* for every request, so servers may disagree and outages come and go.     *)
(***************************************************************************)
EXTENDS Mesh, Sequences

CONSTANTS
  Serves,           \* Serves[u]: the copies the servers behind u may return
  EarlierCopies,    \* EarlierCopies[u]: bundles an earlier walk may have kept
  MaxFetches,       \* Limits::max_fetches
  MaxCertificates,  \* Limits::max_certificates
  Retries,          \* RETRIES
  Resamples         \* RESAMPLES

(* One fetched copy: its bytes, and the sort key of its Last-Modified,     *)
(* which is 0 for a copy with no usable date.                              *)
Served == [body : Bodies, date : Nat]

ASSUME CrawlAssumption ==
  /\ Serves \in [Uris -> SUBSET Served]
  /\ EarlierCopies \in [Uris -> SUBSET Bundles]
  /\ MaxFetches \in Nat /\ MaxCertificates \in Nat
  /\ Retries \in Nat /\ Resamples \in Nat

VARIABLES
  pc,            \* where the loop is
  earlier,       \* the caller's fallback: the copies of an earlier walk
  queue, head,   \* the URIs found, and how many were taken
  seenUris, seenCerts,
  attempt,       \* failed attempts of the fetch under way
  copies,        \* the copies newest_copy has collected
  tries,         \* the further fetches newest_copy has made
  body,          \* the bytes kept for the current URI
  pending,       \* entries of the current bundle not looked at yet
  certificates, fetched, absent, unreachable, fellBack, disagreed,
  truncated, bundles   \* the fields of Crawled

netVars == <<attempt, copies, tries, body>>
walkVars == <<queue, head, seenUris, seenCerts, certificates, pending>>
outVars == <<fetched, absent, unreachable, fellBack, disagreed, truncated,
             bundles>>
vars == <<pc, earlier, netVars, walkVars, outVars>>

uri == queue[head]

(* Every order a set of URIs may be listed in.                             *)
Orders(S) ==
  {s \in [1..Cardinality(S) -> S] :
     /\ \A i, j \in 1..Cardinality(S) : s[i] = s[j] => i = j
     /\ \A u \in S : \E i \in 1..Cardinality(S) : s[i] = u}

Init ==
  /\ pc = "next"
  /\ earlier \in {f \in Folder : \A u \in Held(f) : f[u] \in EarlierCopies[u]}
  /\ queue \in Orders(LinksOf(Anchors))
  /\ head = 0
  /\ seenUris = LinksOf(Anchors)
  /\ seenCerts = Anchors
  /\ attempt = 0 /\ copies = <<>> /\ tries = 0
  /\ body = NoBody
  /\ pending = {}
  /\ certificates = {}
  /\ fetched = 0
  /\ absent = {} /\ unreachable = {} /\ fellBack = {} /\ disagreed = {}
  /\ truncated = FALSE
  /\ bundles = [u \in Uris |-> NoBody]

-----------------------------------------------------------------------------
(* The head of the loop.                                                   *)

(* Wrong version: stops one fetch or one certificate late.                 *)
AtLimitLate == \/ fetched > MaxFetches
               \/ Cardinality(certificates) > MaxCertificates

AtLimit == \/ fetched >= MaxFetches
           \/ Cardinality(certificates) >= MaxCertificates

(* Wrong version: a walk that hit a limit does not say so.                 *)
StopAtLimitQuietly ==
  /\ pc = "next" /\ head < Len(queue) /\ AtLimit
  /\ pc' = "done"
  /\ UNCHANGED <<earlier, netVars, walkVars, outVars>>

StopAtLimit ==
  /\ pc = "next" /\ head < Len(queue) /\ AtLimit
  /\ truncated' = TRUE
  /\ pc' = "done"
  /\ UNCHANGED <<earlier, netVars, walkVars, fetched, absent, unreachable,
                 fellBack, disagreed, bundles>>

Finish ==
  /\ pc = "next" /\ head = Len(queue)
  /\ pc' = "done"
  /\ UNCHANGED <<earlier, netVars, walkVars, outVars>>

TakeUri ==
  /\ pc = "next" /\ head < Len(queue) /\ ~AtLimit
  /\ head' = head + 1
  /\ attempt' = 0
  /\ pc' = "fetch"
  /\ UNCHANGED <<earlier, copies, tries, body, queue, seenUris, seenCerts,
                 certificates, pending, outVars>>

-----------------------------------------------------------------------------
(* fetch_with_retries, and what the caller makes of its result.            *)

(* The usual case costs one request: the repository served what it served  *)
(* last time.                                                              *)
AnswerAsBefore ==
  /\ pc = "fetch"
  /\ \E copy \in Serves[uri] : /\ copy.body = earlier[uri]
                               /\ body' = copy.body
  /\ attempt' = 0
  /\ pc' = "read"
  /\ UNCHANGED <<earlier, copies, tries, walkVars, outVars>>

AnswerDiffers ==
  /\ pc = "fetch"
  /\ \E copy \in Serves[uri] : /\ copy.body # earlier[uri]
                               /\ copies' = <<copy>>
  /\ attempt' = 0
  /\ pc' = "sample"
  /\ UNCHANGED <<earlier, tries, body, walkVars, outVars>>

AnswerAbsent ==
  /\ pc = "fetch"
  /\ absent' = absent \cup {uri}
  /\ attempt' = 0
  /\ pc' = "next"
  /\ UNCHANGED <<earlier, copies, tries, body, walkVars, fetched, unreachable,
                 fellBack, disagreed, truncated, bundles>>

(* Wrong version: the count of attempts starts again instead of ending.    *)
AskAgainForever ==
  /\ pc = "fetch"
  /\ attempt' = IF attempt < Retries THEN attempt + 1 ELSE 0
  /\ UNCHANGED <<pc, earlier, copies, tries, body, walkVars, outVars>>

AskAgain ==
  /\ pc = "fetch" /\ attempt < Retries
  /\ attempt' = attempt + 1
  /\ UNCHANGED <<pc, earlier, copies, tries, body, walkVars, outVars>>

(* Wrong version: an outage is taken for an answer even where an earlier   *)
(* copy could stand in.                                                    *)
FallBackToNothing ==
  /\ pc = "fetch" /\ attempt = Retries
  /\ unreachable' = unreachable \cup {uri}
  /\ attempt' = 0
  /\ pc' = "next"
  /\ UNCHANGED <<earlier, copies, tries, body, walkVars, fetched, absent,
                 fellBack, disagreed, truncated, bundles>>

FallBack ==
  /\ pc = "fetch" /\ attempt = Retries
  /\ earlier[uri] # NoBody
  /\ fellBack' = fellBack \cup {uri}
  /\ body' = earlier[uri]
  /\ attempt' = 0
  /\ pc' = "read"
  /\ UNCHANGED <<earlier, copies, tries, walkVars, fetched, absent,
                 unreachable, disagreed, truncated, bundles>>

GiveUp ==
  /\ pc = "fetch" /\ attempt = Retries
  /\ earlier[uri] = NoBody
  /\ unreachable' = unreachable \cup {uri}
  /\ attempt' = 0
  /\ pc' = "next"
  /\ UNCHANGED <<earlier, copies, tries, body, walkVars, fetched, absent,
                 fellBack, disagreed, truncated, bundles>>

-----------------------------------------------------------------------------
(* newest_copy.                                                            *)

(* newest: the first of the copies with the newest date.                   *)
Newest(cs, i) ==
  \A k \in DOMAIN cs : /\ cs[k].date <= cs[i].date
                       /\ k < i => cs[k].date < cs[i].date

(* Wrong version: one sample more than RESAMPLES.                          *)
ResampleOnceMore ==
  /\ pc = "sample" /\ tries <= Resamples
  /\ \E copy \in Serves[uri] : copies' = Append(copies, copy)
  /\ tries' = tries + 1
  /\ UNCHANGED <<pc, earlier, attempt, body, walkVars, outVars>>

Resample ==
  /\ pc = "sample" /\ tries < Resamples
  /\ \E copy \in Serves[uri] : copies' = Append(copies, copy)
  /\ tries' = tries + 1
  /\ UNCHANGED <<pc, earlier, attempt, body, walkVars, outVars>>

ResampleFails ==
  /\ pc = "sample" /\ tries < Resamples
  /\ tries' = tries + 1
  /\ UNCHANGED <<pc, earlier, attempt, copies, body, walkVars, outVars>>

KeepNewest ==
  /\ pc = "sample" /\ tries = Resamples
  /\ \E i \in DOMAIN copies : Newest(copies, i) /\ body' = copies[i].body
  /\ disagreed' = IF \E i, j \in DOMAIN copies : copies[i].body # copies[j].body
                  THEN disagreed \cup {uri} ELSE disagreed
  /\ copies' = <<>>
  /\ tries' = 0
  /\ pc' = "read"
  /\ UNCHANGED <<earlier, attempt, walkVars, fetched, absent,
                 unreachable, fellBack, truncated, bundles>>

-----------------------------------------------------------------------------
(* The rest of the loop body.                                              *)

ReadBundle ==
  /\ pc = "read" /\ body \in Bundles
  /\ fetched' = fetched + 1
  /\ bundles' = [bundles EXCEPT ![uri] = body]
  /\ pending' = Entries[body]
  /\ body' = NoBody
  /\ pc' = "certs"
  /\ UNCHANGED <<earlier, attempt, copies, tries, queue, head, seenUris, seenCerts,
                 certificates, absent, unreachable, fellBack, disagreed,
                 truncated>>

NotABundle ==
  /\ pc = "read" /\ body \notin Bundles
  /\ fetched' = fetched + 1
  /\ absent' = absent \cup {uri}
  /\ body' = NoBody
  /\ pc' = "next"
  /\ UNCHANGED <<earlier, attempt, copies, tries, walkVars, unreachable,
                 fellBack, disagreed, truncated, bundles>>

(* Wrong version: an anchor met in a bundle is collected.                  *)
SkipEntryKeepingAnchors(c) ==
  /\ pc = "certs" /\ c \in pending
  /\ c \notin Certs \/ c \in seenCerts
  /\ pending' = pending \ {c}
  /\ certificates' = certificates \cup ({c} \cap Anchors)
  /\ UNCHANGED <<pc, earlier, netVars, queue, head, seenUris, seenCerts,
                 outVars>>

SkipEntry(c) ==
  /\ pc = "certs" /\ c \in pending
  /\ c \notin Certs \/ c \in seenCerts
  /\ pending' = pending \ {c}
  /\ UNCHANGED <<pc, earlier, netVars, queue, head, seenUris, seenCerts,
                 certificates, outVars>>

(* Wrong version: every URI is queued, whether seen before or not.         *)
TakeCertRequeuing(c) ==
  /\ pc = "certs" /\ c \in pending
  /\ c \in Certs /\ c \notin seenCerts
  /\ pending' = pending \ {c}
  /\ seenCerts' = seenCerts \cup {c}
  /\ certificates' = certificates \cup {c}
  /\ seenUris' = seenUris \cup Repositories[c]
  /\ \E s \in Orders(Repositories[c]) : queue' = queue \o s
  /\ UNCHANGED <<pc, earlier, netVars, head, outVars>>

TakeCert(c) ==
  /\ pc = "certs" /\ c \in pending
  /\ c \in Certs /\ c \notin seenCerts
  /\ pending' = pending \ {c}
  /\ seenCerts' = seenCerts \cup {c}
  /\ certificates' = certificates \cup {c}
  /\ seenUris' = seenUris \cup Repositories[c]
  /\ \E s \in Orders(Repositories[c] \ seenUris) : queue' = queue \o s
  /\ UNCHANGED <<pc, earlier, netVars, head, outVars>>

BundleDone ==
  /\ pc = "certs" /\ pending = {}
  /\ pc' = "next"
  /\ UNCHANGED <<earlier, netVars, walkVars, outVars>>

(* The walk has returned.                                                  *)
Done == pc = "done" /\ UNCHANGED vars

Next ==
  \/ StopAtLimit \/ Finish \/ TakeUri
  \/ AnswerAsBefore \/ AnswerDiffers \/ AnswerAbsent
  \/ AskAgain \/ FallBack \/ GiveUp
  \/ Resample \/ ResampleFails \/ KeepNewest
  \/ ReadBundle \/ NotABundle
  \/ \E c \in pending : SkipEntry(c) \/ TakeCert(c)
  \/ BundleDone
  \/ Done

Spec == Init /\ [][Next]_vars

(* Every request has a timeout (refresh.rs, AGENT and FRESH_AGENT), so a   *)
(* walk that has a step to take takes it.                                  *)
FairSpec == Spec /\ WF_vars(Next)

-----------------------------------------------------------------------------
(* The values each variable takes, stage by stage.                         *)
TypeOK ==
  /\ pc \in {"next", "fetch", "sample", "read", "certs", "done"}
  /\ earlier \in Folder
  /\ queue \in Seq(Uris)
  /\ head \in 0..Len(queue) /\ (pc \notin {"next", "done"} => head > 0)
  /\ seenUris \in SUBSET Uris
  /\ seenCerts \in SUBSET Certs
  /\ attempt \in 0..Retries
  /\ copies \in Seq(Served)
  /\ tries \in 0..Resamples
  /\ body \in Bodies \cup {NoBody}
  /\ pending \in SUBSET (Certs \cup Junk)
  /\ certificates \in SUBSET Certs
  /\ fetched \in Nat
  /\ absent \in SUBSET Uris
  /\ unreachable \in SUBSET Uris
  /\ fellBack \in SUBSET Uris
  /\ disagreed \in SUBSET Uris
  /\ truncated \in BOOLEAN
  /\ bundles \in Folder

Complete == pc = "done" /\ ~truncated

(* A walk no limit stopped has asked exactly the repositories that can be  *)
(* reached from the anchors through the bundles it read: none is skipped,  *)
(* whatever cycles the mesh has, and none is asked on any other ground.    *)
(* Each has one answer: a bundle, a refusal, or silence.                   *)
ExactWalk ==
  Complete =>
    /\ seenUris = Reachable(bundles)
    /\ seenUris = Held(bundles) \cup absent \cup unreachable
    /\ Held(bundles) \cap absent = {}
    /\ (Held(bundles) \cup absent) \cap unreachable = {}

(* The certificates a walk returns are the certificates of the bundles it  *)
(* returns, so the store rebuilt from the committed bundles (inputs_from)  *)
(* is built from what the walk saw.                                        *)
SameCertificates == pc \in {"next", "done"} => certificates = CertsOf(bundles)

(* fpki_refresh.rs, "A repository that does not answer": silence costs     *)
(* nothing an earlier walk had.  When every repository that answered       *)
(* answered as before and none refused, the result is the earlier walk.    *)
OnlyAnAnswerRemoves ==
  ( /\ Complete
    /\ IsWalk(earlier)
    /\ absent = {}
    /\ \A u \in Held(bundles) : bundles[u] = earlier[u] )
  => bundles = earlier

(* A walk never fetches more bundles than Limits allows.  The limit on     *)
(* certificates is looked at once per repository, so only the last bundle  *)
(* can carry the walk past it.                                             *)
LimitsHold ==
  /\ fetched <= MaxFetches
  /\ pc \in {"fetch", "sample", "read"} =>
       Cardinality(certificates) < MaxCertificates

(* A mesh is not guaranteed to be small, acyclic or well behaved, and the  *)
(* walk still ends (crawl.rs, Limits).                                     *)
Terminates == <>(pc = "done")

-----------------------------------------------------------------------------
(* The walk implements its order-free specification, MeshWalk.             *)
Status == IF pc # "done" THEN "walking"
          ELSE IF truncated THEN "stopped" ELSE "complete"

Walk == INSTANCE MeshWalk WITH
          read <- bundles, refused <- absent, silent <- unreachable,
          status <- Status

(* Every step of the walk is a visit of one known repository, its end, or  *)
(* invisible: MeshCrawl implements MeshWalk.                               *)
ImplementsWalk == Walk!Spec
=============================================================================
