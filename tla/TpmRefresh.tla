----------------------------- MODULE TpmRefresh -----------------------------
(***************************************************************************)
(* The refresh of certval_stores_tpm (tpm_refresh.rs, with provider.rs's   *)
(* write): one cabinet is fetched, checked against the committed one, and  *)
(* the crate's files are written from it one after another, the cabinet    *)
(* last.  Any write may be the last one of its run.                        *)
(*                                                                         *)
(* Microsoft releases one cabinet after another, may reissue one without   *)
(* moving its date, and a mirror may still serve an earlier release.       *)
(***************************************************************************)
EXTENDS Naturals, Sequences, FiniteSets

CONSTANTS
  Certs,
  Cabs,           \* cabinets, by their bytes
  NoCab,
  Releases,       \* the cabinets Microsoft releases, in order
  Vouched,        \* the cabinets whose signature and members are accepted
  Published,      \* Published[c]: the day c's version.txt states, or NoDate
  RootsOf,        \* RootsOf[c]: the anchors in c
  CasOf,          \* CasOf[c]: the intermediates in c
  Carried,        \* Carried[c][d]: those of CasOf[c] that validate on day d
  AsOfs,          \* the reference days a person may choose
  MaxDay,         \* bound: days that pass
  MaxFails,       \* bound: runs that end early
  Settings        \* the circumstances to consider, see SettingRecord

Days == 1..MaxDay
NoDate == 0

(* checkout: every run starts from what is committed;                      *)
(* regenerate: a maintainer regenerates from the committed cabinet;        *)
(* mirrors: a mirror may serve an earlier release.                         *)
SettingRecord == [checkout : BOOLEAN, regenerate : BOOLEAN, mirrors : BOOLEAN]

ASSUME TpmAssumption ==
  /\ NoCab \notin Cabs
  /\ Releases \in Seq(Cabs) /\ Releases # <<>>
  /\ Vouched \subseteq Cabs
  /\ Published \in [Cabs -> Days \cup {NoDate}]
  /\ RootsOf \in [Cabs -> SUBSET Certs]
  /\ CasOf \in [Cabs -> SUBSET Certs]
  /\ Carried \in [Cabs -> [Days -> SUBSET Certs]]
  /\ \A c \in Cabs, d \in Days : Carried[c][d] \subseteq CasOf[c]
  /\ AsOfs \subseteq Days
  /\ MaxDay \in Nat \ {0} /\ MaxFails \in Nat
  /\ Settings \subseteq SettingRecord

(* The files of the crate.  A date file that is missing reads NoDate, and  *)
(* there is no tpm.cbor while the store is empty, since an empty one is    *)
(* not written.                                                            *)
Tree == [roots : SUBSET Certs,
         store : SUBSET Certs,
         dropped : SUBSET Certs,
         published : Days \cup {NoDate},
         collected : Days \cup {NoDate},
         asOf : AsOfs \cup {NoDate},
         cab : Cabs \cup {NoCab}]

VARIABLES
  setting,
  day,
  released,  \* how many of Releases are out
  head,      \* the files committed
  tree,      \* the files of the working tree
  pc,        \* the write the run is at, or "idle"
  cab,       \* the cabinet in hand
  source,    \* where it came from
  asOf,      \* the reference day the run was given, or NoDate
  outcome,   \* what the last run returned
  fails

envVars == <<setting, day, released>>
argVars == <<cab, source, asOf>>
vars == <<envVars, head, tree, pc, argVars, outcome, fails>>

(* The intermediates of c that validate on the day d, or on c's own date.  *)
Kept(c, d) == Carried[c][IF d = NoDate THEN Published[c] ELSE d]

(* regenerate_from, and what the crate's regeneration test compares with   *)
(* the store.                                                              *)
StoreOf(t) == IF t.cab = NoCab THEN {} ELSE Kept(t.cab, t.asOf)

Init ==
  /\ setting \in Settings
  /\ day = 1 /\ released = 1
  /\ head = [roots |-> {}, store |-> {}, dropped |-> {}, published |-> NoDate,
             collected |-> NoDate, asOf |-> NoDate, cab |-> NoCab]
  /\ tree = head
  /\ pc = "idle"
  /\ cab = NoCab /\ source = "none" /\ asOf = NoDate
  /\ outcome = "none"
  /\ fails = 0

DayPasses ==
  /\ day < MaxDay
  /\ day' = day + 1
  /\ UNCHANGED <<setting, released, head, tree, pc, argVars, outcome, fails>>

Release ==
  /\ released < Len(Releases)
  /\ released' = released + 1
  /\ UNCHANGED <<setting, day, head, tree, pc, argVars, outcome, fails>>

-----------------------------------------------------------------------------
(* A run, up to the first write.                                           *)

Base == IF setting.checkout THEN head ELSE tree

(* The releases a fetch may be answered with.                              *)
Offered == {Releases[i] : i \in IF setting.mirrors THEN 1..released ELSE {released}}

Ends(how) == pc' = "idle" /\ outcome' = how

(* A run that writes nothing.                                              *)
Declines(c, how) ==
  /\ pc = "idle"
  /\ tree' = Base
  /\ cab' = c /\ source' = "fetched" /\ asOf' = NoDate
  /\ Ends(how)
  /\ UNCHANGED <<envVars, head, fails>>

RunNoAnswer == Declines(NoCab, "kept")

RunUnvouched(c) == c \notin Vouched /\ Declines(c, "kept")

RunUndated(c) == c \in Vouched /\ Published[c] = NoDate /\ Declines(c, "failed")

(* Wrong version: the date must move for a cabinet to be taken.            *)
NotNewer(c) == Base.published # NoDate /\ Published[c] <= Base.published

(* The rollback guard.                                                     *)
Older(c) == Base.published # NoDate /\ Published[c] < Base.published

RunOlder(c) ==
  /\ c \in Vouched /\ Published[c] # NoDate /\ Older(c)
  /\ Declines(c, "kept")

(* Wrong version: a cabinet of the committed date is taken for the         *)
(* committed one.                                                          *)
IsCurrentByDate(c) == Published[c] = Base.published /\ Base.store # {}

IsCurrent(c) ==
  /\ Published[c] = Base.published
  /\ Base.store # {}
  /\ Base.cab = c

RunCurrent(c) ==
  /\ c \in Vouched /\ Published[c] # NoDate /\ IsCurrent(c)
  /\ Declines(c, "current")

Starts(c, from, d) ==
  /\ pc = "idle"
  /\ tree' = Base
  /\ cab' = c /\ source' = from /\ asOf' = d
  /\ outcome' = "none"
  /\ pc' = "as_of"
  /\ UNCHANGED <<envVars, head, fails>>

(* Wrong version: without the rollback guard.                              *)
RunTakenUnguarded(c, d) ==
  /\ c \in Vouched /\ Published[c] # NoDate
  /\ ~IsCurrent(c)
  /\ Starts(c, "fetched", d)

RunTaken(c, d) ==
  /\ c \in Vouched /\ Published[c] # NoDate
  /\ ~Older(c) /\ ~IsCurrent(c)
  /\ Starts(c, "fetched", d)

(* With from_committed nothing is fetched, and neither the signature nor   *)
(* the rollback guard applies.                                             *)
RunFromCommitted(d) ==
  /\ setting.regenerate
  /\ Base.cab # NoCab
  /\ Starts(Base.cab, "committed", d)

-----------------------------------------------------------------------------
(* A run's writes, in order.                                               *)

Writes(from, to, files) ==
  /\ pc = from
  /\ tree' = files
  /\ pc' = to
  /\ UNCHANGED <<envVars, head, argVars, outcome, fails>>

(* Wrong version: an earlier choice stands when none is made.              *)
WriteAsOfIfChosen ==
  Writes("as_of", "clear", IF asOf = NoDate THEN tree ELSE [tree EXCEPT !.asOf = asOf])

WriteAsOf == Writes("as_of", "clear", [tree EXCEPT !.asOf = asOf])

(* write_der_dir, the old files first.                                     *)
ClearRoots == Writes("clear", "roots", [tree EXCEPT !.roots = {}])

WriteRoots == Writes("roots", "store", [tree EXCEPT !.roots = RootsOf[cab]])

(* provider::write leaves the store it finds when generate made none.      *)
WriteStore ==
  LET store == Kept(cab, asOf)
  IN  Writes("store", "published",
             IF store = {} THEN tree ELSE [tree EXCEPT !.store = store])

WritePublished ==
  Writes("published", "collected", [tree EXCEPT !.published = Published[cab]])

(* Wrong version: every run is dated, whether it collected or not.         *)
CollectedStampToday == day

(* Wrong version: the date of a place that is a day ahead of UTC.          *)
CollectedStampLocal == IF source = "committed" /\ tree.collected # NoDate
                       THEN tree.collected ELSE day + 1

CollectedStamp == IF source = "committed" /\ tree.collected # NoDate
                  THEN tree.collected ELSE day

WriteCollected ==
  Writes("collected", "dropped", [tree EXCEPT !.collected = CollectedStamp])

WriteDropped ==
  Writes("dropped", "cab",
         [tree EXCEPT !.dropped = CasOf[cab] \ Kept(cab, asOf)])

WriteCab ==
  /\ pc = "cab"
  /\ tree' = [tree EXCEPT !.cab = cab]
  /\ Ends("regenerated")
  /\ UNCHANGED <<envVars, head, argVars, fails>>

Write == \/ WriteAsOf \/ ClearRoots \/ WriteRoots \/ WriteStore
         \/ WritePublished \/ WriteCollected \/ WriteDropped \/ WriteCab

(* A write or a step of the generator fails, or the process dies.          *)
RunDies ==
  /\ pc # "idle"
  /\ fails < MaxFails
  /\ fails' = fails + 1
  /\ Ends("failed")
  /\ UNCHANGED <<envVars, head, tree, argVars>>

(* What a run that regenerated leaves is reviewed and merged.              *)
Merge ==
  /\ pc = "idle" /\ outcome = "regenerated"
  /\ head' = tree
  /\ Ends("merged")
  /\ UNCHANGED <<envVars, tree, argVars, fails>>

Fetch == \E c \in Offered : \E d \in AsOfs \cup {NoDate} : RunTaken(c, d)

Run ==
  \/ RunNoAnswer
  \/ \E c \in Offered : \/ RunUnvouched(c) \/ RunUndated(c)
                        \/ RunOlder(c) \/ RunCurrent(c)
  \/ Fetch
  \/ \E d \in AsOfs \cup {NoDate} : RunFromCommitted(d)

Next == DayPasses \/ Release \/ Run \/ Write \/ RunDies \/ Merge

Spec == Init /\ [][Next]_vars

(* A process that is not killed goes on; the refresh runs on a schedule,   *)
(* and a fetch that may be answered is answered some day.                  *)
FairSpec == Spec /\ WF_vars(Release) /\ WF_vars(Write) /\ SF_vars(Fetch)

-----------------------------------------------------------------------------
TypeOK ==
  /\ setting \in Settings
  /\ day \in Days
  /\ released \in 1..Len(Releases)
  /\ head \in Tree
  /\ tree \in Tree
  /\ pc \in {"idle", "as_of", "clear", "roots", "store", "published",
             "collected", "dropped", "cab"}
  /\ cab \in Cabs \cup {NoCab}
  /\ source \in {"none", "fetched", "committed"}
  /\ asOf \in AsOfs \cup {NoDate}
  /\ outcome \in {"none", "kept", "failed", "current", "regenerated", "merged"}
  /\ fails \in 0..MaxFails

Matches(t) ==
  /\ t.cab # NoCab
  /\ t.store = StoreOf(t)
  /\ t.roots = RootsOf[t.cab]
  /\ t.published = Published[t.cab]
  /\ t.dropped = CasOf[t.cab] \ StoreOf(t)

(* "The store has to stay a function of what is committed, and a reference *)
(* date a person chose is part of that input": after a run that reports    *)
(* the crate current, or regenerated, every file beside the cabinet is     *)
(* what the cabinet and the recorded reference date yield.                 *)
StoreMatchesCabinet ==
  pc = "idle" /\ outcome \in {"current", "regenerated", "merged"} => Matches(tree)

(* "The date alone is not enough, because Microsoft reissues the cabinet   *)
(* with new vendor CAs without moving it": a run that fetched and calls    *)
(* the crate current, or regenerated it, leaves the cabinet it fetched.    *)
ReissueIsTaken ==
  pc = "idle" /\ outcome \in {"current", "regenerated"} => tree.cab = cab

(* "Stamping the run's date there would claim a freshness the store does   *)
(* not have": what is merged changes the collection date only if its       *)
(* cabinet was fetched.                                                    *)
CollectedByFetching ==
  [][head'.collected # head.collected => source = "fetched"]_vars

(* A refresh that is run again and again takes the last release, wherever  *)
(* earlier runs of it died and whatever dates the releases repeat, unless  *)
(* mirrors go on offering a release of the same date instead.              *)
CatchesUp ==
  \/ setting.mirrors
  \/ <>(/\ outcome = "regenerated" /\ Matches(tree)
        /\ tree.cab = Releases[Len(Releases)])

(* The refresh implements CommittedStore, the input being the cabinet and  *)
(* the reference date, and a new cabinet never older than the last.        *)
NotOlder(new, old) ==
  new.cab \in Vouched /\ Published[new.cab] >= Published[old.cab]

Input == [cab |-> head.cab, asOf |-> head.asOf]

Committed == INSTANCE CommittedStore WITH
  NoStore <- {},
  Generates <- StoreOf,
  MayFollow <- NotOlder,
  input <- Input,
  store <- head.store

ImplementsCommittedStore == Committed!Spec
=============================================================================
