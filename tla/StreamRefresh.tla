--------------------------- MODULE StreamRefresh ---------------------------
(***************************************************************************)
(* The refresh of a crate that is generated from InstallRoot streams: the  *)
(* refresh-streams job of refresh.yml with refresh.rs, the installroot     *)
(* command of main.rs and refresh-pr.sh.  A run starts from a checkout,    *)
(* asks once per channel, then for each interoperability bundle,           *)
(* regenerates every environment if an input moved, and opens a pull       *)
(* request, which a reviewer completes and merges once CI passes.          *)
(*                                                                         *)
(* Runs may overlap: refresh.yml states no concurrency group.  What two    *)
(* runs share is the repository, and a run turns to it at its checkout and *)
(* then in refresh-pr.sh only.  So one run at a time fetches and generates *)
(* here, while any run that has come to the script may stay at any of its  *)
(* steps: that leaves out no order of the steps that see each other.       *)
(*                                                                         *)
(* The comment a run leaves on a pull request that is already open, and    *)
(* the day of collection each regeneration states, are left out.           *)
(***************************************************************************)
EXTENDS StreamVerify

CONSTANTS
  Streams,       \* streams, by their bytes
  ContentOf,     \* ContentOf[s]: what s parses as
  Channels,      \* Channels[i]: the editions DISA puts up on it, in order
  Bundles,       \* issued-by bundles, by their bytes
  CertsIn,       \* CertsIn[b]
  NoBundle,
  Issuers,       \* Issuers[j]: the editions of one root's bundle, in order
  Environments,  \* a sequence: channel, extra roots, and issuer or 0
  Population,
  NoBranch,
  Forged,        \* streams that anybody may serve
  Vouched,       \* whom a responder calls good when asked
  Reliable,      \* those of Vouched whose responder always answers
  MaxFails,      \* bound: jobs that die and pull requests closed
  MaxScripts,    \* bound: runs that are in refresh-pr.sh
  Settings

(* mirrors: an earlier edition may be served.  flaky: a responder may not  *)
(* answer.  overlaps: how many runs may start while another is under way.  *)
(* late: every edition is up when the crate is handed over.                *)
Setting == [mirrors : BOOLEAN, flaky : BOOLEAN, overlaps : Nat, late : BOOLEAN]

Environment == [channel : DOMAIN Channels, extraRoots : SUBSET Certs,
                issuer : DOMAIN Issuers \cup {0}]

ASSUME StreamRefreshAssumption ==
  /\ ContentOf \in [Streams -> Stream]
  /\ Channels \in Seq(Seq(Streams)) /\ Channels # <<>>
  /\ \A i \in DOMAIN Channels : Channels[i] # <<>>
  /\ CertsIn \in [Bundles \cup {NoBundle} -> SUBSET Certs]
  /\ CertsIn[NoBundle] = {} /\ NoBundle \notin Bundles
  /\ Issuers \in Seq(Seq(Bundles))
  /\ \A j \in DOMAIN Issuers : Issuers[j] # <<>>
  /\ Environments \in Seq(Environment) /\ Environments # <<>>
  /\ Population \in {"dod", "nss", "eca", "wcf"}
  /\ Forged \subseteq Streams
  /\ Reliable \subseteq Vouched /\ Vouched \subseteq Certs
  /\ MaxFails \in Nat /\ MaxScripts \in Nat \ {0}
  /\ Settings \subseteq Setting

ChannelIds == DOMAIN Channels
IssuerIds == DOMAIN Issuers
EnvIds == DOMAIN Environments

(* The verdicts on a stream, by whom the responders vouch for and the day; *)
(* how one verification may go, by whether the responders are flaky; and   *)
(* what it is read as.                                                     *)
Holding == [s \in Streams |-> [a \in SUBSET Vouched |-> [d \in Days |->
              StreamHolds(ContentOf[s], StapledAndFetched(a), d)]]]
Building == [s \in Streams |-> [a \in SUBSET Vouched |-> [d \in Days |->
               Builds(ContentOf[s], Population, StapledAndFetched(a), d)]]]
BuildingOffline == [s \in Streams |-> [d \in Days |->
                      Builds(ContentOf[s], Population, Stapled, d)]]
Asked(flaky) == IF flaky THEN {a \in SUBSET Vouched : Reliable \subseteq a} ELSE {Vouched}
Outcomes == [s \in Streams |-> [flaky \in BOOLEAN |-> [d \in Days |->
               {Building[s][a][d] : a \in Asked(flaky)}]]]
Reading == [s \in Streams |-> Inputs(ContentOf[s], Population)]

DateOf(s) == Reading[s].published

-----------------------------------------------------------------------------
(* What an environment is generated from inputs.                           *)

Inputs_ == [streams : [ChannelIds -> Streams], bundles : [IssuerIds -> Bundles]]

(* merge_extras with reject_self_issued.                                   *)
MergeExtras(env, material, bundle) ==
  [material EXCEPT
     !.anchors = @ \cup env.extraRoots,
     !.cas = @ \cup {c \in CertsIn[bundle] : SubjectOf[c] # IssuerOf[c]}]

BundleFor(env, bundles) == IF env.issuer = 0 THEN NoBundle ELSE bundles[env.issuer]

MaterialOf(env, inputs) ==
  MergeExtras(env, Reading[inputs.streams[env.channel]],
              BundleFor(env, inputs.bundles))

Generated(inputs) == [e \in EnvIds |-> MaterialOf(Environments[e], inputs)]

Material == [anchors : SUBSET Certs, cas : SUBSET Certs, published : Days \cup {NoDate}]

(* The files of the crate.                                                 *)
Tree == [inputs : Inputs_, stores : [EnvIds -> Material]]

ASSUME NoBranchAssumption == NoBranch \notin Tree

(* A run in refresh-pr.sh: the step it is at, the files it proposes, and   *)
(* whether something was merged since it checked out.                      *)
Runners == 1..MaxScripts
Script == [at : {"look", "push", "create"}, files : Tree, behind : BOOLEAN]
NoScript == [at |-> "none", files |-> NoBranch, behind |-> FALSE]

VARIABLES
  setting,
  day,
  out,      \* out[i]: how many editions of channel i are up
  issued,   \* issued[j]: how many editions of bundle j are
  head,     \* the files committed
  tree,     \* the files of the run's checkout
  moved,    \* whether the run replaced an input
  calm,     \* whether every server is up to date and answers the run
  behind,   \* whether something was merged since it was checked out
  pc,       \* the step the run is at, or "idle"
  index,    \* the channel, bundle or environment it is at
  scripts,  \* the runs in refresh-pr.sh
  branch,   \* the files on refresh/<crate>, or NoBranch
  pr,       \* "none", "open", or "pinned" when its pins are updated
  conflict, \* whether the branch starts from what is not committed any more
  fails,
  beside    \* how many runs started while another was under way

worldVars == <<setting, day, out, issued>>
runVars == <<tree, moved, calm, behind, pc, index>>
prVars == <<branch, pr, conflict>>
counts == <<fails, beside>>
vars == <<worldVars, head, runVars, scripts, prVars, counts>>

(* A crate as it is handed over: generated from editions that are up.      *)
Init ==
  /\ setting \in Settings
  /\ day = IF setting.late THEN MaxDay ELSE 1
  /\ out = [i \in ChannelIds |-> IF setting.late THEN Len(Channels[i]) ELSE 1]
  /\ issued = [j \in IssuerIds |-> IF setting.late THEN Len(Issuers[j]) ELSE 1]
  /\ head = LET inputs == [streams |-> [i \in ChannelIds |-> Channels[i][1]],
                           bundles |-> [j \in IssuerIds |-> Issuers[j][1]]]
            IN  [inputs |-> inputs, stores |-> Generated(inputs)]
  /\ tree = head /\ moved = FALSE /\ calm = FALSE /\ behind = FALSE
  /\ pc = "idle" /\ index = 1
  /\ scripts = [r \in Runners |-> NoScript]
  /\ branch = NoBranch /\ pr = "none" /\ conflict = FALSE
  /\ fails = 0 /\ beside = 0

InScript(r) == scripts[r].at # "none"
NoneInScript == \A r \in Runners : ~InScript(r)
Quiet == pc = "idle" /\ NoneInScript

-----------------------------------------------------------------------------
(* The world.                                                              *)

(* A run takes less than a day.                                            *)
DayPasses ==
  /\ Quiet /\ day < MaxDay
  /\ day' = day + 1
  /\ UNCHANGED <<setting, out, issued, head, runVars, scripts, prVars, counts>>

(* DISA puts an edition up once it is timestamped.  A run reads a channel   *)
(* or a bundle once: one that goes up meanwhile might as well go up before *)
(* it or after it.                                                         *)
Publish(i) ==
  /\ pc = "idle" /\ out[i] < Len(Channels[i])
  /\ \A m \in MembersOf(ContentOf[Channels[i][out[i] + 1]]) : TimestampedAt(m) <= day
  /\ out' = [out EXCEPT ![i] = @ + 1]
  /\ UNCHANGED <<setting, day, issued, head, runVars, scripts, prVars, counts>>

Issue(j) ==
  /\ pc = "idle" /\ issued[j] < Len(Issuers[j])
  /\ issued' = [issued EXCEPT ![j] = @ + 1]
  /\ UNCHANGED <<setting, day, out, head, runVars, scripts, prVars, counts>>

UpTo(n) == IF setting.mirrors /\ ~calm THEN 1..n ELSE {n}

Served(i) ==
  {Channels[i][k] : k \in UpTo(out[i])} \cup (IF calm THEN {} ELSE Forged)

ServedBundles(j) ==
  {Issuers[j][k] : k \in UpTo(issued[j])}
    \cup (IF calm THEN {} ELSE {tree.inputs.bundles[j]})

(* Whom the responders call good, in one verification.                     *)
Answers == Asked(setting.flaky /\ ~calm)

(* How one verification of s may go.                                       *)
Verdicts(s) == Outcomes[s][setting.flaky /\ ~calm][day]

-----------------------------------------------------------------------------
(* A run: the streams, then the bundles.                                   *)

Goes(to, at) == pc' = to /\ index' = at

(* The runner and its checkout are gone.                                   *)
Ends ==
  /\ Goes("idle", 1)
  /\ tree' = head
  /\ moved' = FALSE /\ calm' = FALSE /\ behind' = FALSE

(* Any run may go like a calm one; they are told apart where FairSpec needs *)
(* them, once nothing is published any more and no pull request is open.   *)
Settled == Quiet /\ pr = "none" /\ day = MaxDay /\ out = [i \in ChannelIds |-> Len(Channels[i])]
           /\ issued = [j \in IssuerIds |-> Len(Issuers[j])]

RunStarts(isCalm) ==
  /\ pc = "idle" /\ \E r \in Runners : ~InScript(r)
  /\ IF NoneInScript THEN UNCHANGED beside
     ELSE beside < setting.overlaps /\ beside' = beside + 1
  /\ isCalm => Settled
  /\ calm' = isCalm
  /\ Goes("fetch", 1)
  /\ UNCHANGED <<worldVars, head, tree, moved, behind, scripts, prVars, fails>>

FetchDone == IF index < Len(Channels) THEN Goes("fetch", index + 1) ELSE Goes("bundle", 1)

(* Wrong version: a held stream that states no date is never replaced.     *)
ReplacesDated(s, held, holds) ==
  ~holds \/ (DateOf(held) # NoDate /\ DateOf(held) < DateOf(s))

(* The match on (held, offered).  NoDate is below every date, so a stream  *)
(* that states none replaces nothing that can be read, and any that does   *)
(* replaces one that does not.                                             *)
Replaces(s, held, holds) == ~holds \/ DateOf(held) < DateOf(s)

(* refresh::stream.  What is held is verified like what was fetched, at a  *)
(* later moment.                                                           *)
Held == tree.inputs.streams[index]

Fetch(s, good, holds) ==
  LET taken == good /\ Replaces(s, Held, holds)
  IN  /\ pc = "fetch"
      /\ tree' = IF taken THEN [tree EXCEPT !.inputs.streams[index] = s] ELSE tree
      /\ moved' = (moved \/ (taken /\ s # Held))
      /\ FetchDone
      /\ UNCHANGED <<worldVars, head, calm, behind, scripts, prVars, counts>>

(* No answer, or the file could not be written.                            *)
FetchFails ==
  /\ pc = "fetch" /\ ~calm
  /\ FetchDone
  /\ UNCHANGED <<worldVars, head, tree, moved, calm, behind, scripts, prVars, counts>>

BundlesDone == index > Len(Issuers)

(* fetch_bundle, whatever the bytes are.  Where none came or they do not   *)
(* parse the committed ones stay.                                          *)
FetchBundle(b) ==
  /\ pc = "bundle" /\ ~BundlesDone
  /\ tree' = [tree EXCEPT !.inputs.bundles[index] = b]
  /\ moved' = (moved \/ b # tree.inputs.bundles[index])
  /\ Goes("bundle", index + 1)
  /\ UNCHANGED <<worldVars, head, calm, behind, scripts, prVars, counts>>

(* git diff --quiet inputs.  Without a change git status is clean too.     *)
NothingMoved ==
  /\ pc = "bundle" /\ BundlesDone /\ ~moved
  /\ Ends
  /\ UNCHANGED <<worldVars, head, scripts, prVars, counts>>

SomethingMoved ==
  /\ pc = "bundle" /\ BundlesDone /\ moved
  /\ Goes("generate", 1)
  /\ UNCHANGED <<worldVars, head, tree, moved, calm, behind, scripts, prVars, counts>>

(* gen installroot for one environment after another, each of which        *)
(* verifies its stream again.                                              *)
Generate(e) ==
  /\ pc = "generate" /\ index = e
  /\ TRUE \in Verdicts(tree.inputs.streams[Environments[e].channel])
  /\ tree' = [tree EXCEPT !.stores[e] = MaterialOf(Environments[e], tree.inputs)]
  /\ IF e < Len(Environments) THEN Goes("generate", e + 1) ELSE Goes("propose", 1)
  /\ UNCHANGED <<worldVars, head, moved, calm, behind, scripts, prVars, counts>>

(* One that does not verify fails the job, and nothing is proposed.        *)
GenerateFails ==
  /\ pc = "generate"
  /\ FALSE \in Verdicts(tree.inputs.streams[Environments[index].channel])
  /\ Ends
  /\ UNCHANGED <<worldVars, head, scripts, prVars, counts>>

-----------------------------------------------------------------------------
(* refresh-pr.sh, and the review.                                          *)

(* The run is in the script, the first that is free, and another may start. *)
ScriptStarts(r) ==
  /\ pc = "propose" /\ ~InScript(r) /\ \A q \in 1..(r - 1) : InScript(q)
  /\ scripts' = [scripts EXCEPT ![r] = [at |-> "look", files |-> tree, behind |-> behind]]
  /\ Ends
  /\ UNCHANGED <<worldVars, head, prVars, counts>>

ScriptEnds(r) == scripts' = [scripts EXCEPT ![r] = NoScript]

(* Wrong version: the branch is pushed whatever pull request is open.      *)
LooksAway(r) ==
  /\ scripts[r].at = "look"
  /\ scripts' = [scripts EXCEPT ![r].at = "push"]
  /\ UNCHANGED <<worldVars, head, runVars, prVars, counts>>

(* gh pr list.  "When a pull request from BRANCH is already open, nothing  *)
(* is pushed": it is under review, and the reviewer may have pushed to it. *)
FindsOpen(r) ==
  /\ scripts[r].at = "look" /\ pr # "none"
  /\ ScriptEnds(r)
  /\ UNCHANGED <<worldVars, head, runVars, prVars, counts>>

FindsNone(r) ==
  /\ scripts[r].at = "look" /\ pr = "none"
  /\ scripts' = [scripts EXCEPT ![r].at = "push"]
  /\ UNCHANGED <<worldVars, head, runVars, prVars, counts>>

(* git push --force, whatever was opened since the script looked: what a   *)
(* reviewer pushed to it is gone.                                          *)
PushForced(r) ==
  /\ scripts[r].at = "push"
  /\ scripts' = [scripts EXCEPT ![r].at = "create"]
  /\ branch' = scripts[r].files /\ conflict' = scripts[r].behind
  /\ pr' = IF pr = "none" THEN "none" ELSE "open"
  /\ UNCHANGED <<worldVars, head, runVars, counts>>

(* Wrong version: one is opened whatever became of the branch.             *)
CreateAnyway(r) ==
  /\ scripts[r].at = "create"
  /\ pr' = IF pr = "none" THEN "open" ELSE pr
  /\ ScriptEnds(r)
  /\ UNCHANGED <<worldVars, head, runVars, branch, conflict, counts>>

(* gh pr create fails where one is open, and where what was pushed has     *)
(* been merged since from a pull request of another run.                   *)
Create(r) ==
  /\ scripts[r].at = "create"
  /\ pr' = IF pr = "none" /\ branch # NoBranch THEN "open" ELSE pr
  /\ ScriptEnds(r)
  /\ UNCHANGED <<worldVars, head, runVars, branch, conflict, counts>>

JobDies ==
  /\ pc # "idle" /\ fails < MaxFails
  /\ fails' = fails + 1
  /\ Ends
  /\ UNCHANGED <<worldVars, head, scripts, prVars, beside>>

ScriptDies(r) ==
  /\ InScript(r) /\ fails < MaxFails
  /\ fails' = fails + 1
  /\ ScriptEnds(r)
  /\ UNCHANGED <<worldVars, head, runVars, prVars, beside>>

(* The reviewer updates the pinned counts, which starts CI.                *)
Review ==
  /\ pr = "open"
  /\ pr' = "pinned"
  /\ UNCHANGED <<worldVars, head, runVars, scripts, branch, conflict, counts>>

(* The job inputs-verified asks the responders about every stream, and the *)
(* crate's tests regenerate each store without asking any.                 *)
InputsVerified(t) ==
  \A i \in ChannelIds : \E a \in Answers : Holding[t.inputs.streams[i]][a][day]

(* compare, which tells certificates and not labels.                       *)
Matches(store, material) == store.cas = material.cas

StoresAreWhatStreamsGenerate(t) ==
  \A e \in EnvIds :
    /\ BuildingOffline[t.inputs.streams[Environments[e].channel]][day]
    /\ Matches(t.stores[e], MaterialOf(Environments[e], t.inputs))

(* Wrong version: a branch is merged whatever it started from.             *)
MergeableAnyway == InputsVerified(branch) /\ StoresAreWhatStreamsGenerate(branch)

Mergeable ==
  ~conflict /\ InputsVerified(branch) /\ StoresAreWhatStreamsGenerate(branch)

(* What the runs under way have checked out falls behind.                  *)
Merge ==
  /\ pr = "pinned" /\ Mergeable
  /\ head' = branch
  /\ pr' = "none" /\ branch' = NoBranch /\ conflict' = FALSE
  /\ IF pc = "idle" THEN tree' = branch /\ UNCHANGED behind
     ELSE behind' = TRUE /\ UNCHANGED tree
  /\ scripts' = [r \in Runners |-> [scripts[r] EXCEPT !.behind = InScript(r)]]
  /\ UNCHANGED <<worldVars, moved, calm, pc, index, counts>>

(* "A branch left over from a merged or closed pull request is stale by    *)
(* definition", and what is on it is not read again, unless a script that  *)
(* pushed is about to open another for it.                                 *)
Close ==
  /\ pr' = "none"
  /\ IF \E r \in Runners : scripts[r].at = "create" THEN UNCHANGED <<branch, conflict>>
     ELSE branch' = NoBranch /\ conflict' = FALSE
  /\ UNCHANGED <<worldVars, head, runVars, scripts, beside>>

(* A pull request that conflicts with what was merged, or with a stream    *)
(* that ceased to verify, is closed, and any other may be.                 *)
CloseUnmergeable == pr # "none" /\ ~Mergeable /\ Close /\ UNCHANGED fails

CloseUnmerged ==
  pr # "none" /\ Mergeable /\ fails < MaxFails /\ Close /\ fails' = fails + 1

-----------------------------------------------------------------------------
World == DayPasses \/ (\E i \in ChannelIds : Publish(i)) \/ (\E j \in IssuerIds : Issue(j))

FetchServed ==
  /\ pc = "fetch"
  /\ \E s \in Served(index) : \E good \in Verdicts(s), holds \in Verdicts(Held) :
       Fetch(s, good, holds)

FetchBundleServed ==
  /\ pc = "bundle" /\ ~BundlesDone
  /\ \E b \in ServedBundles(index) : FetchBundle(b)

Step ==
  \/ FetchFails \/ FetchServed \/ FetchBundleServed \/ NothingMoved \/ SomethingMoved
  \/ (\E e \in EnvIds : Generate(e)) \/ GenerateFails
  \/ (\E r \in Runners : ScriptStarts(r))

ScriptStep(r) == FindsOpen(r) \/ FindsNone(r) \/ PushForced(r) \/ Create(r)

Next ==
  \/ World \/ (\E isCalm \in BOOLEAN : RunStarts(isCalm)) \/ Step \/ JobDies
  \/ (\E r \in Runners : ScriptStep(r) \/ ScriptDies(r))
  \/ Review \/ Merge \/ CloseUnmergeable \/ CloseUnmerged

Spec == Init /\ [][Next]_vars

(* A job that is not killed ends, since few start beside another; it runs  *)
(* weekly, and some time with no pull request open, no other run under way *)
(* and all the servers it asks up to date and answering.                   *)
(* A run takes minutes, so that a review that is made again and again, and *)
(* a merge when CI passes again and again, falls between two runs.         *)
FairSpec ==
  /\ Spec
  /\ SF_vars(World) /\ SF_vars(RunStarts(TRUE))
  /\ WF_vars(Step \/ \E r \in Runners : ScriptStep(r))
  /\ SF_vars(Quiet /\ Review) /\ SF_vars(Quiet /\ (Merge \/ CloseUnmergeable))
-----------------------------------------------------------------------------
TypeOK ==
  /\ setting \in Settings
  /\ day \in Days
  /\ out \in [ChannelIds -> Nat] /\ \A i \in ChannelIds : out[i] \in DOMAIN Channels[i]
  /\ issued \in [IssuerIds -> Nat] /\ \A j \in IssuerIds : issued[j] \in DOMAIN Issuers[j]
  /\ head \in Tree /\ tree \in Tree
  /\ {moved, calm, behind, conflict} \subseteq BOOLEAN
  /\ pc \in {"idle", "fetch", "bundle", "generate", "propose"}
  /\ index \in Nat \ {0}
  /\ DOMAIN scripts = Runners
  /\ \A r \in Runners : scripts[r] # NoScript => scripts[r] \in Script
  /\ branch # NoBranch => branch \in Tree
  /\ pr \in {"none", "open", "pinned"} /\ (pr # "none" => branch # NoBranch)
  /\ fails \in 0..MaxFails /\ beside \in 0..setting.overlaps

(* "A consumer's build is promised no fetching": a crate whose streams     *)
(* hold when the responders are asked passes its own tests, which ask      *)
(* none, on every later day the streams hold, whoever merged it.           *)
HoldsOffline ==
  (\A i \in ChannelIds : Building[head.inputs.streams[i]][Vouched][day])
  => StoresAreWhatStreamsGenerate(head)

(* The refresh implements CommittedStore, the input being the streams and  *)
(* bundles.  A stream is followed only by one DISA published, and only by  *)
(* a later one, except where it ceases to verify on some day: a store is   *)
(* never made of another edition than the committed one, although the      *)
(* inputs are replaced in one step and the environments regenerated in     *)
(* others, and however reviews overlap with runs.                          *)
Lapses(s) ==
  \E d, e \in Days : d < e /\ Building[s][Vouched][d] /\ ~Building[s][Vouched][e]

NewerOrRepaired(new, old) ==
  /\ \A i \in ChannelIds :
       \/ new.streams[i] = old.streams[i]
       \/ /\ new.streams[i] \in Range(Channels[i])
          /\ Lapses(old.streams[i]) \/ DateOf(old.streams[i]) < DateOf(new.streams[i])
  /\ \A j \in IssuerIds : new.bundles[j] \in Range(Issuers[j])

Committed == INSTANCE CommittedStore WITH
  NoStore <- <<>>,
  Generates <- Generated,
  MayFollow <- NewerOrRepaired,
  input <- head.inputs,
  store <- head.stores

ImplementsCommittedStore == Committed!Spec

(* "When a pull request from BRANCH is already open, nothing is pushed: it *)
(* is under review, and the reviewer may have pushed to it."  What is      *)
(* under review stays what it is until it is merged or closed, as long as  *)
(* no run ever starts while another is under way: one that looked before   *)
(* the other opened its pull request pushes over it.                       *)
ReviewKeepsItsBranch ==
  [][beside = 0 /\ pr # "none" /\ pr' # "none" => branch' = branch]_vars

(* A crate that is refreshed again and again comes to carry the last       *)
(* edition of every stream for good, whatever jobs died, pull requests     *)
(* were closed, or earlier editions were served meanwhile; and again and   *)
(* again the last bundle with every environment made from both.  A bundle  *)
(* states no date, so an earlier one may be taken for news at any time.    *)
LastStreams == \A i \in ChannelIds : head.inputs.streams[i] = Channels[i][Len(Channels[i])]

LastBundles == \A j \in IssuerIds : head.inputs.bundles[j] = Issuers[j][Len(Issuers[j])]

CatchesUp ==
  /\ <>[]LastStreams
  /\ []<>(LastBundles /\ head.stores = Generated(head.inputs))

(* refresh.yml in the pull request it opens: "a stream published older     *)
(* than the committed one is refused as a rollback rather than taken".     *)
NoRollback ==
  [][\A i \in ChannelIds :
       DateOf(head.inputs.streams[i]) <= DateOf(head'.inputs.streams[i])]_vars
=============================================================================
