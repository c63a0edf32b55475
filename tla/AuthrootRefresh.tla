-------------------------- MODULE AuthrootRefresh --------------------------
(***************************************************************************)
(* The refresh of certval_stores_msft (authroot_refresh.rs with            *)
(* adapters/authroot.rs): a conditional GET of the signed list, the checks *)
(* of its signature and of its place after the committed list, one fetch   *)
(* per listed certificate with retries, then one write after another:      *)
(* roots/, an index per environment, the cabinet, and the provenance.      *)
(*                                                                         *)
(* A certificate stands for its bytes and for their SHA-1, which names it  *)
(* in the list and in roots/.  Only the list is signed, so what a URL      *)
(* serves may be another certificate than the one listed.                  *)
(***************************************************************************)
EXTENDS Naturals, Sequences, FiniteSets

CONSTANTS
  Certs,
  Nothing,        \* what has been fetched for an entry before an answer
  Purposes,       \* the EKUs environments filter by
  Every,          \* the filter that takes every root, an Env without an EKU
  Envs,           \* ENVIRONMENTS: a sequence of filters
  Unreadable,     \* a property of an entry that does not decode
  Cabs,           \* cabinets, by their bytes
  NoCab,
  Torn,           \* a cabinet file whose write was cut short
  PackagingOf,    \* PackagingOf[c]: how the cabinet unpacks
  SignatureOf,    \* SignatureOf[c]: the signature on the list in c
  Pinned,         \* the anchors in inputs/
  ListIn,         \* ListIn[c]: the trust list in c
  NotAfter,       \* NotAfter[x]: the last day of x's validity
  Unverifiable,   \* certificates signed with MD2, MD4 or MD5
  MayServe,       \* MayServe[x]: what the URL of x may serve
  Releases,       \* what Microsoft puts up, in order: a cabinet and a stamp
  Legacy,         \* lists that crates without a committed cabinet come from
  MaxDay,         \* bound: days that pass
  MaxFails,       \* bound: runs that end early
  Retries,        \* passes over what gave no answer, after the first
  Settings        \* where runs take place

Days == 1..MaxDay
NoDate == 0
NoSequence == 0

Properties == [eku : SUBSET (Purposes \cup {Unreadable}),
               disallowedEku : SUBSET (Purposes \cup {Unreadable}),
               disallowedAfter : Days \cup {NoDate, Unreadable}]

Ctl == [sequence : Nat, published : Days, entries : SUBSET Certs,
        subjects : [Certs -> Properties]]

(* Whether digest and signature hold, and the paths from the signer: where *)
(* each ends, the days it is valid, and whether it is one for signing root *)
(* lists throughout.                                                       *)
Signature == [covers : BOOLEAN,
              paths : SUBSET [anchor : Certs, days : SUBSET Days,
                              rootListSigner : BOOLEAN]]

(* checkout: a run starts from what is committed, not from what the last   *)
(* one left.  mirrors: any earlier release may be served.                  *)
Setting == [checkout : BOOLEAN, mirrors : BOOLEAN]

Release == [cab : Cabs, modified : Nat]

ASSUME AuthrootAssumption ==
  /\ Nothing \notin Certs
  /\ Every \notin Purposes
  /\ Envs \in Seq(Purposes \cup {Every}) /\ Envs # <<>>
  /\ Unreadable \notin Purposes /\ Unreadable \notin Nat
  /\ NoCab \notin Cabs /\ Torn \notin Cabs /\ NoCab # Torn
  /\ PackagingOf \in [Cabs -> {"list", "signed", "no_list"}]
  /\ SignatureOf \in [Cabs -> Signature]
  /\ Pinned \subseteq Certs
  /\ ListIn \in [Cabs -> Ctl]
  /\ NotAfter \in [Certs -> Nat]
  /\ Unverifiable \subseteq Certs
  /\ MayServe \in [Certs -> SUBSET Certs]
  /\ Releases \in Seq(Release) /\ Releases # <<>>
  /\ Legacy \subseteq Cabs
  /\ MaxDay \in Nat \ {0} /\ MaxFails \in Nat /\ Retries \in Nat
  /\ Settings \subseteq Setting

-----------------------------------------------------------------------------
(* What a list says, and what is made from it.                             *)

(* eku_list: a property that does not decode is skipped.                   *)
Ekus(attr) == IF Unreadable \in attr THEN {} ELSE attr

Grants(list, x, eku) ==
  /\ eku \in Ekus(list.subjects[x].eku)
  /\ eku \notin Ekus(list.subjects[x].disallowedEku)

Selected(list, eku) == {x \in list.entries : eku = Every \/ Grants(list, x, eku)}

Retired(list, x) ==
  LET after == list.subjects[x].disallowedAfter
  IN  after \notin {NoDate, Unreadable} /\ after < list.published

(* As of the day the list states, so that it alone determines the store.   *)
Anchors(list, eku) ==
  {x \in Selected(list, eku) : /\ NotAfter[x] >= list.published
                               /\ ~Retired(list, x)
                               /\ x \notin Unverifiable}

(* The entries an environment asks for and did not get, whether or not it  *)
(* would carry them.                                                       *)
Missing(list, got, eku) == {x \in Selected(list, eku) : got[x] # x}

(* Every root of a list is in its environment of every root; see           *)
(* ENVIRONMENTS.                                                           *)
Material(list) ==
  [roots |-> UNION {Anchors(list, Envs[i]) : i \in DOMAIN Envs},
   index |-> [i \in DOMAIN Envs |-> Anchors(list, Envs[i])],
   published |-> list.published]

-----------------------------------------------------------------------------
(* The files of the crate.  A provenance file that is missing reads NoDate *)
(* or NoSequence, and an index that is missing lists nothing.              *)
Tree == [roots : SUBSET Certs,
         index : [DOMAIN Envs -> SUBSET Certs],
         cab : Cabs \cup {NoCab, Torn},
         published : Days \cup {NoDate},
         collected : Days \cup {NoDate},
         sequence : Nat,
         modified : Nat]

VARIABLES
  setting,   \* where the runs of this behaviour take place
  day,
  released,  \* how many of Releases are out
  head,      \* the files committed
  tree,      \* the files of the working tree
  pc,        \* the step the run is at, or "idle"
  hand,      \* what the server sent
  pending,   \* entries not answered yet
  absent,    \* entries answered with 4xx
  got,       \* what was served for an entry
  passes,    \* passes over the entries made
  env,       \* the environment at work
  outcome,   \* what the last run returned
  fails

envVars == <<setting, day, released>>
fetchVars == <<pending, absent, got, passes>>
vars == <<envVars, head, tree, pc, hand, fetchVars, env, outcome, fails>>

ctl == ListIn[hand.cab]

NoCerts == [x \in Certs |-> Nothing]

NotFetching == pending = {} /\ absent = {} /\ got = NoCerts /\ passes = 0

EmptyCrate ==
  [roots |-> {}, index |-> [i \in DOMAIN Envs |-> {}], cab |-> NoCab,
   published |-> NoDate, collected |-> NoDate, sequence |-> NoSequence,
   modified |-> NoDate]

(* A crate refreshed before cabinets were committed.                       *)
LegacyCrate(c) ==
  [roots |-> Material(ListIn[c]).roots, index |-> Material(ListIn[c]).index,
   cab |-> NoCab, published |-> ListIn[c].published, collected |-> 1,
   sequence |-> ListIn[c].sequence, modified |-> NoDate]

Init ==
  /\ setting \in Settings
  /\ day = 1 /\ released = 1
  /\ head \in {EmptyCrate} \cup {LegacyCrate(c) : c \in Legacy}
  /\ tree = head
  /\ pc = "idle" /\ hand = Releases[1]
  /\ NotFetching
  /\ env = 1
  /\ outcome = "none" /\ fails = 0

DayPasses ==
  /\ day < MaxDay
  /\ day' = day + 1
  /\ UNCHANGED <<setting, released, head, tree, pc, hand, fetchVars, env,
                 outcome, fails>>

PutUp ==
  /\ released < Len(Releases)
  /\ released' = released + 1
  /\ UNCHANGED <<setting, day, head, tree, pc, hand, fetchVars, env, outcome,
                 fails>>

-----------------------------------------------------------------------------
(* What vouches for a list.                                                *)

(* verify_stl: as of the day the list states, not today.                   *)
Vouched(c) ==
  /\ SignatureOf[c].covers
  /\ \E path \in SignatureOf[c].paths :
       /\ path.anchor \in Pinned
       /\ ListIn[c].published \in path.days
       /\ path.rootListSigner

(* Wrong version: the signer has to be valid on the day of the refresh.    *)
UsableToday(c) ==
  /\ PackagingOf[c] = "list"
  /\ SignatureOf[c].covers
  /\ \E path \in SignatureOf[c].paths :
       path.anchor \in Pinned /\ day \in path.days /\ path.rootListSigner

(* is_signed, stl_from_cab, verify_stl.                                    *)
Usable(c) == PackagingOf[c] = "list" /\ Vouched(c)

-----------------------------------------------------------------------------
(* A run, up to the first certificate.                                     *)

Base == IF setting.checkout THEN head ELSE tree

Offered ==
  {Releases[i] : i \in IF setting.mirrors THEN 1..released ELSE {released}}

Ends(how) ==
  /\ pc' = "idle" /\ outcome' = how
  /\ pending' = {} /\ absent' = {} /\ got' = NoCerts /\ passes' = 0
  /\ env' = 1

(* A run that fetches no certificate.                                      *)
Settles(r, files, how) ==
  /\ pc = "idle"
  /\ hand' = r
  /\ tree' = files
  /\ Ends(how)
  /\ UNCHANGED <<envVars, head, fails>>

RunUnreached == Settles(hand, Base, "kept")

(* fetch_if_modified: If-Modified-Since the stamp of the last transfer.    *)
NotModified(r) ==
  Base.modified # NoDate /\ r.modified # NoDate /\ r.modified <= Base.modified

RunNotModified(r) == NotModified(r) /\ Settles(r, Base, "not_modified")

RunUnusable(r) ==
  /\ ~NotModified(r)
  /\ ~Usable(r.cab)
  /\ Settles(r, Base, "kept")

Arrives(r) == ~NotModified(r) /\ Usable(r.cab)

(* Wrong version: sequence numbers are not compared for order.             *)
ReplayedByDate(new) ==
  Base.cab \in Cabs /\ new.published < ListIn[Base.cab].published

(* The rollback guard: by sequence number if both lists have one, and by   *)
(* date.                                                                   *)
Replayed(new) ==
  /\ Base.cab \in Cabs
  /\ LET have == ListIn[Base.cab] IN
       \/ /\ NoSequence \notin {new.sequence, have.sequence}
          /\ new.sequence < have.sequence
       \/ /\ new.sequence # have.sequence \/ new.sequence = NoSequence
          /\ new.published < have.published

RunReplayed(r) ==
  /\ Arrives(r) /\ Replayed(ListIn[r.cab])
  /\ Settles(r, Base, "kept")

RunCommittedUnreadable(r) ==
  /\ Arrives(r) /\ Base.cab = Torn
  /\ Settles(r, Base, "kept")

(* The list is the committed one: only the sequence numbers are compared,  *)
(* with the recorded one before a cabinet is committed.                    *)
Same(new) ==
  /\ new.sequence # NoSequence
  /\ new.sequence = (CASE Base.cab \in Cabs -> ListIn[Base.cab].sequence
                       [] Base.cab = NoCab -> Base.sequence
                       [] OTHER -> NoSequence)

(* write_provenance: a value the server did not give leaves the old one.   *)
Stamped(files, r) ==
  IF r.modified = NoDate THEN files ELSE [files EXCEPT !.modified = r.modified]

RunSame(r) ==
  /\ Arrives(r) /\ Same(ListIn[r.cab])
  /\ Settles(r, Stamped(Base, r), "unchanged")

Asks(r, files) ==
  /\ pc = "idle"
  /\ Arrives(r)
  /\ ~Replayed(ListIn[r.cab]) /\ ~Same(ListIn[r.cab]) /\ Base.cab # Torn
  /\ hand' = r
  /\ tree' = files
  /\ pc' = "fetch" /\ outcome' = "none"
  /\ pending' = ListIn[r.cab].entries
  /\ UNCHANGED <<envVars, head, absent, got, passes, env, fails>>

(* Wrong version: the stamp is stored with the transfer it came from.      *)
RunTakenStamping(r) == Asks(r, Stamped(Base, r))

RunTaken(r) == Asks(r, Base)

-----------------------------------------------------------------------------
(* fetch_certificates: all of them or nothing is written.                  *)

Answers == {"absent", "silent"}

(* Wrong version: one pass too many.                                       *)
FetchPassOnceMore(answer) ==
  /\ pc = "fetch" /\ pending # {} /\ passes <= Retries + 1
  /\ pending' = {x \in pending : answer[x] = "silent"}
  /\ absent' = absent \cup {x \in pending : answer[x] = "absent"}
  /\ got' = [x \in Certs |-> IF x \in pending /\ answer[x] \in Certs
                             THEN answer[x] ELSE got[x]]
  /\ passes' = passes + 1
  /\ UNCHANGED <<envVars, head, tree, pc, hand, env, outcome, fails>>

FetchPass(answer) ==
  /\ pc = "fetch" /\ pending # {} /\ passes <= Retries
  /\ pending' = {x \in pending : answer[x] = "silent"}
  /\ absent' = absent \cup {x \in pending : answer[x] = "absent"}
  /\ got' = [x \in Certs |-> IF x \in pending /\ answer[x] \in Certs
                             THEN answer[x] ELSE got[x]]
  /\ passes' = passes + 1
  /\ UNCHANGED <<envVars, head, tree, pc, hand, env, outcome, fails>>

Served(x) == Answers \cup MayServe[x]

AnswersTo(S) == {a \in [S -> Answers \cup Certs] : \A x \in S : a[x] \in Served(x)}

(* Each certificate of the latest list is served when first asked for.     *)
FetchAll ==
  /\ passes = 0 /\ hand = Releases[released]
  /\ \E a \in AnswersTo(pending) : (\A x \in pending : a[x] = x) /\ FetchPass(a)

FetchComplete ==
  /\ pc = "fetch" /\ pending = {} /\ absent = {}
  /\ pc' = "clear"
  /\ UNCHANGED <<envVars, head, tree, hand, fetchVars, env, outcome, fails>>

(* Wrong version: what arrived is built from, and the rest left out.       *)
FetchShortGoesOn ==
  /\ pc = "fetch"
  /\ pending = {} \/ passes > Retries
  /\ pending # {} \/ absent # {}
  /\ pc' = "clear"
  /\ UNCHANGED <<envVars, head, tree, hand, fetchVars, env, outcome, fails>>

FetchShort ==
  /\ pc = "fetch"
  /\ pending = {} \/ passes > Retries
  /\ pending # {} \/ absent # {}
  /\ Ends("kept")
  /\ UNCHANGED <<envVars, head, tree, hand, fails>>

-----------------------------------------------------------------------------
(* A run's writes, in order: write_material, then the cabinet, then what   *)
(* is recorded about it.                                                   *)

Writes(from, to, files) ==
  /\ pc = from
  /\ tree' = files
  /\ pc' = to
  /\ UNCHANGED <<envVars, head, hand, fetchVars, outcome, fails>>

(* Wrong version: the cabinet is put in place before what is made from it. *)
ClearRootsAndCab ==
  Writes("clear", "build", [tree EXCEPT !.roots = {}, !.cab = hand.cab]) /\ env' = 1

ClearRoots == Writes("clear", "build", [tree EXCEPT !.roots = {}]) /\ env' = 1

(* What was served for an entry is not what the list named.                *)
BuildMissing ==
  /\ pc = "build" /\ Missing(ctl, got, Envs[env]) # {}
  /\ Ends("unmatched")
  /\ UNCHANGED <<envVars, head, tree, hand, fails>>

(* An environment of a purpose no entry grants.                            *)
EmptyEnv == Envs[env] # Every /\ Anchors(ctl, Envs[env]) = {} /\ ctl.entries # {}

BuildEmpty ==
  /\ pc = "build" /\ Missing(ctl, got, Envs[env]) = {} /\ EmptyEnv
  /\ Ends("empty_env")
  /\ UNCHANGED <<envVars, head, tree, hand, fails>>

Builds == Missing(ctl, got, Envs[env]) = {} /\ ~EmptyEnv

(* The bytes written are those served, which Missing has shown to be the   *)
(* entries themselves.                                                     *)
Built == {got[x] : x \in Anchors(ctl, Envs[env])}

WriteRoots ==
  /\ Builds
  /\ Writes("build", "index", [tree EXCEPT !.roots = @ \cup Built])
  /\ UNCHANGED env

WriteIndex ==
  LET last == env = Len(Envs) IN
  /\ Writes("index", IF last THEN "cab" ELSE "build",
            [tree EXCEPT !.index[env] = Built])
  /\ env' = IF last THEN env ELSE env + 1

WriteCab ==
  Writes("cab", "published", [tree EXCEPT !.cab = hand.cab]) /\ UNCHANGED env

WritePublished ==
  Writes("published", "collected", [tree EXCEPT !.published = ctl.published])
    /\ UNCHANGED env

WriteCollected ==
  Writes("collected", "sequence", [tree EXCEPT !.collected = day]) /\ UNCHANGED env

WriteSequence ==
  Writes("sequence", "modified",
         IF ctl.sequence = NoSequence THEN tree
         ELSE [tree EXCEPT !.sequence = ctl.sequence])
    /\ UNCHANGED env

WriteModified ==
  /\ pc = "modified"
  /\ tree' = Stamped(tree, hand)
  /\ Ends("rewritten")
  /\ UNCHANGED <<envVars, head, hand, fails>>

Write == \/ ClearRoots \/ WriteRoots \/ WriteIndex \/ WriteCab
         \/ WritePublished \/ WriteCollected \/ WriteSequence \/ WriteModified

Build == BuildMissing \/ BuildEmpty

(* A write fails or the process dies; a cabinet may be cut short.          *)
RunDies ==
  /\ pc # "idle"
  /\ fails < MaxFails
  /\ fails' = fails + 1
  /\ tree' \in IF pc = "cab" THEN {tree, [tree EXCEPT !.cab = Torn]} ELSE {tree}
  /\ Ends("failed")
  /\ UNCHANGED <<envVars, head, hand>>

(* Whatever a run that returned Ok changed is put up for review and        *)
(* merged.                                                                 *)
Merge ==
  /\ setting.checkout
  /\ pc = "idle" /\ outcome \in {"unchanged", "rewritten"}
  /\ head' = tree
  /\ outcome' = "merged"
  /\ UNCHANGED <<envVars, tree, pc, hand, fetchVars, env, fails>>

(* The list that Microsoft put up last is taken.                           *)
TakeLatest == RunTaken(Releases[released])

Run ==
  \/ RunUnreached
  \/ \E r \in Offered : \/ RunNotModified(r) \/ RunUnusable(r)
                        \/ RunReplayed(r) \/ RunCommittedUnreadable(r)
                        \/ RunSame(r) \/ RunTaken(r)

Fetch ==
  \/ pc = "fetch" /\ \E a \in AnswersTo(pending) : FetchPass(a)
  \/ FetchComplete
  \/ FetchShort

Next == DayPasses \/ PutUp \/ Run \/ Fetch \/ Build \/ Write \/ RunDies \/ Merge

Spec == Init /\ [][Next]_vars

(* A process that is not killed goes on and its requests are answered or   *)
(* time out.  The workflow runs weekly; a run that may reach the latest    *)
(* release reaches it some week, and some week every URL serves what the   *)
(* list names.                                                             *)
FairSpec ==
  /\ Spec
  /\ WF_vars(PutUp) /\ WF_vars(Fetch) /\ WF_vars(Build) /\ WF_vars(Write)
  /\ SF_vars(TakeLatest) /\ SF_vars(FetchAll)

-----------------------------------------------------------------------------
TypeOK ==
  /\ setting \in Settings
  /\ day \in Days /\ released \in 1..Len(Releases)
  /\ head \in Tree /\ tree \in Tree
  /\ pc \in {"idle", "fetch", "clear", "build", "index", "cab", "published",
             "collected", "sequence", "modified"}
  /\ hand \in Release
  /\ pending \in SUBSET Certs /\ absent \in SUBSET Certs
  /\ got \in [Certs -> Certs \cup {Nothing}]
  /\ passes \in 0..Retries + 1
  /\ env \in DOMAIN Envs
  /\ outcome \in {"none", "kept", "not_modified", "unchanged", "unmatched",
                  "empty_env", "failed", "rewritten", "merged"}
  /\ fails \in 0..MaxFails

(* "The committed cabinet is the reference": once a run has ended well,    *)
(* even one that only compared with it, roots/ and every index are what    *)
(* the list in it yields, so that each certificate an index includes is    *)
(* there.  Checked from checkouts that mirrors may serve earlier lists,    *)
(* and in one tree after runs that died there.                             *)
MaterialMatchesCabinet ==
  (/\ pc = "idle" /\ tree.cab \in Cabs
   /\ outcome \in {"not_modified", "unchanged", "rewritten", "merged"})
  => /\ tree.roots = Material(ListIn[tree.cab]).roots
     /\ tree.index = Material(ListIn[tree.cab]).index

(* "304 -> nothing to do; the committed copy is current": a server that    *)
(* answers 304 holds no list after the committed one that could have been  *)
(* taken.  The stamp sent is from the transfer of the committed list or of *)
(* one with its sequence number, even after a run that died.               *)
NotModifiedMissesNothing ==
  (outcome = "not_modified" /\ Usable(hand.cab) /\ tree.cab \in Cabs)
  => ctl.sequence <= ListIn[tree.cab].sequence

(* "One bad morning of DNS would empty the store": a run removes nothing   *)
(* before each entry of the list has been answered with bytes.             *)
NothingDeletedUntilAllArrived ==
  [][pc # "idle" /\ ~(tree.roots \subseteq tree'.roots)
     => \A x \in ctl.entries : got[x] # Nothing]_vars

(* "Every entry in the list must be fetched and thumbprint-matched before  *)
(* anything is written or deleted; a single failure leaves the committed   *)
(* material alone."                                                        *)
UnmatchedLeavesMaterial ==
  outcome = "unmatched" /\ setting.checkout => tree.roots = head.roots

(* Runs from checkouts take the last list in the end, whichever mirrors    *)
(* answered, wherever earlier runs died and whatever was served for the    *)
(* certificates before.                                                    *)
CatchesUp ==
  setting.checkout
  => <>(outcome = "rewritten" /\ tree.cab = Releases[Len(Releases)].cab)

(* The refresh implements CommittedStore: what is merged is what the       *)
(* merged cabinet yields, with the date it states, and no merge replaces a *)
(* list with an earlier one or with one that is not vouched for.           *)
NotEarlier(new, old) ==
  /\ Vouched(new)
  /\ old # NoCab =>
       /\ ListIn[new].published >= ListIn[old].published
       /\ NoSequence \in {ListIn[new].sequence, ListIn[old].sequence}
          \/ ListIn[new].sequence >= ListIn[old].sequence

NoMaterial ==
  [roots |-> {}, index |-> [i \in DOMAIN Envs |-> {}], published |-> NoDate]

MaterialOf(c) == IF c = NoCab THEN NoMaterial ELSE Material(ListIn[c])

HeadMaterial ==
  IF head.cab = NoCab THEN NoMaterial
  ELSE [roots |-> head.roots, index |-> head.index, published |-> head.published]

Committed == INSTANCE CommittedStore WITH
  NoStore <- NoMaterial,
  Generates <- MaterialOf,
  MayFollow <- NotEarlier,
  input <- head.cab,
  store <- HeadMaterial

ImplementsCommittedStore == Committed!Spec
=============================================================================
