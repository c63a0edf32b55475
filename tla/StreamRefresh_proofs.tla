------------------------ MODULE StreamRefresh_proofs ------------------------
(***************************************************************************)
(* Proofs about StreamVerify and StreamRefresh, for any streams, channels, *)
(* environments and answers of the servers, and any number of jobs, pull   *)
(* requests and reviews, however they overlap: MaxScripts and overlaps     *)
(* bound how many runs are under way, and may be any number.               *)
(***************************************************************************)
EXTENDS StreamRefresh, WellFoundedInduction, TLAPS

(* The latest of some days.                                                *)
LEMMA LatestDay ==
  ASSUME NEW D \in SUBSET Days, D # {}
  PROVE  Max(D) \in D
<1> DEFINE before == {MaxDay - d : d \in D}
           less == OpToRel(<, Nat)
<1>1. before \subseteq Nat /\ before # {}
  BY StreamVerifyAssumption DEF Days
<1>2. PICK m \in before : \A y \in before : ~(<<y, m>> \in less)
  <2> HIDE DEF before, less
  <2>1. IsWellFoundedOn(less, Nat)
    BY NatLessThanWellFounded DEF less
  <2> QED BY <1>1, <2>1, WFMin
<1>3. \A y \in before : ~(y < m)
  BY <1>1, <1>2 DEF OpToRel
<1>4. PICK latest \in D : m = MaxDay - latest
  BY <1>2
<1>5. ASSUME NEW d \in D PROVE latest >= d
  <2>1. MaxDay - d \in before /\ ~(MaxDay - d < MaxDay - latest)
    BY <1>3, <1>4
  <2>2. d \in Nat /\ latest \in Nat /\ MaxDay \in Nat
    BY StreamVerifyAssumption DEF Days
  <2> QED BY <2>1, <2>2
<1> QED
  BY <1>4, <1>5 DEF Max

-----------------------------------------------------------------------------
(* A timestamp that holds when responders are asked holds when none is:    *)
(* the status of its authority is then not required.                       *)
LEMMA TokenHoldsUnasked ==
  ASSUME NEW token, NEW answers, NEW today,
         TokenHolds(token, StapledAndFetched(answers), today)
  PROVE  TokenHolds(token, Stapled, today)
<1> DEFINE check(revocation) ==
             [anchors |-> TIMESTAMP_ANCHORS, eku |-> "time_stamping",
              ekuAcrossPath |-> TRUE, toi |-> today, stapled |-> <<>>,
              requireRevocation |-> revocation.fetches, fetch |-> revocation]
<1>1. PICK p \in Chains :
        /\ p.signer = FindSigner(token.sd)
        /\ p.anchor \in TIMESTAMP_ANCHORS
        /\ p.via \subseteq Range(token.sd.carried)
        /\ At(today, p.days)
        /\ "time_stamping" \in p.leafEkus
        /\ "time_stamping" \in p.pathEkus
  BY DEF TokenHolds, ChainTo
<1>2. check(Stapled).requireRevocation = FALSE
  BY DEF Stapled
<1>3. /\ check(Stapled).anchors = TIMESTAMP_ANCHORS
      /\ check(Stapled).eku = "time_stamping"
      /\ check(Stapled).toi = today
  OBVIOUS
<1>4. ChainTo(token.sd, check(Stapled))
  BY <1>1, <1>2, <1>3 DEF ChainTo
<1> QED
  BY <1>4 DEF TokenHolds

(* THEOREM HoldsUnasked: a stream that makes trust material when the       *)
(* timestamp responders are asked makes the same when none is, as in a     *)
(* test or a consumer's build (verify.rs, timestamp.rs).                   *)
THEOREM HoldsUnasked ==
  ASSUME NEW s, NEW population, NEW answers, NEW today,
         Builds(s, population, StapledAndFetched(answers), today)
  PROVE  Builds(s, population, Stapled, today)
<1>1. \A m \in MembersOf(s) :
        /\ SignatureHolds(m.sd)
        /\ m.info = "ocsp"
        /\ m.token # NoToken => TokenHolds(m.token, Stapled, today)
        /\ ChainSigner(m)
  BY TokenHoldsUnasked DEF Builds, StreamHolds, MemberHolds
<1> QED
  BY <1>1 DEF Builds, StreamHolds, MemberHolds

-----------------------------------------------------------------------------
(* What a stream is read as is material.                                   *)
LEMMA AddedAreCerts ==
  ASSUME NEW s \in Stream, NEW kind
  PROVE  Added(s, kind) \in SUBSET Certs
<1>1. \A m \in MembersOf(s) : m \in Member
  BY DEF MembersOf, Range, Stream
<1>2. \A m \in MembersOf(s) : m.message.updates \in SUBSET Entry
  BY <1>1 DEF Member, Message
<1>3. \A e \in Entry : e.cert \in Certs
  BY DEF Entry
<1> QED
  BY <1>2, <1>3 DEF Added

LEMMA PublishedIsADay ==
  ASSUME NEW s \in Stream
  PROVE  PublishedDate(s) \in Days \cup {NoDate}
<1>1. \A m \in MembersOf(s) : m \in Member
  BY DEF MembersOf, Range, Stream
<1>2. \A m \in MembersOf(s) : m.claims \in SUBSET Days
  BY <1>1 DEF Member
<1>3. \A m \in MembersOf(s) : TimestampedAt(m) \in Days \cup {NoTime}
  BY <1>1 DEF Member, Token, TimestampedAt
<1> DEFINE dates == UNION {m.claims \cup ({TimestampedAt(m)} \ {NoTime}) :
                             m \in MembersOf(s)}
<1>4. dates \in SUBSET Days
  BY <1>2, <1>3
<1>5. PublishedDate(s) = IF dates = {} THEN NoDate ELSE Max(dates)
  BY DEF PublishedDate
<1> HIDE DEF dates
<1> QED
  BY <1>4, <1>5, LatestDay

LEMMA ReadingType ==
  ASSUME NEW s \in Streams
  PROVE  Reading[s] \in Material
<1> DEFINE c == ContentOf[s]
<1>1. c \in Stream
  BY StreamRefreshAssumption
<1>2. Reading[s] = Inputs(c, Population)
  BY DEF Reading
<1> HIDE DEF c
<1>3. Selected(c, Population) \in SUBSET Certs
  BY <1>1, AddedAreCerts DEF Selected
<1>4. ChainsTo(Selected(c, Population), Added(c, "CA")) \in SUBSET Certs
  BY <1>1, AddedAreCerts DEF ChainsTo
<1> QED
  BY <1>1, <1>2, <1>3, <1>4, PublishedIsADay DEF Inputs, Material

LEMMA MaterialOfType ==
  ASSUME NEW env \in Environment, NEW inputs \in Inputs_
  PROVE  MaterialOf(env, inputs) \in Material
<1> DEFINE material == Reading[inputs.streams[env.channel]]
           bundle == BundleFor(env, inputs.bundles)
<1>1. /\ env.channel \in ChannelIds /\ env.extraRoots \in SUBSET Certs
      /\ env.issuer \in IssuerIds \cup {0}
      /\ inputs.streams \in [ChannelIds -> Streams]
      /\ inputs.bundles \in [IssuerIds -> Bundles]
  BY DEF Environment, Inputs_, ChannelIds, IssuerIds
<1>2. material \in Material
  BY <1>1, ReadingType
<1>3. bundle \in Bundles \cup {NoBundle}
  BY <1>1 DEF BundleFor
<1>4. CertsIn[bundle] \in SUBSET Certs
  BY <1>3, StreamRefreshAssumption
<1>5. MaterialOf(env, inputs) = MergeExtras(env, material, bundle)
  BY DEF MaterialOf
<1> HIDE DEF material, bundle
<1> DEFINE roots == material.anchors \cup env.extraRoots
           cas == material.cas \cup {c \in CertsIn[bundle] : SubjectOf[c] # IssuerOf[c]}
<1>6. roots \in SUBSET Certs /\ cas \in SUBSET Certs
  BY <1>1, <1>2, <1>4 DEF Material
<1>7. MergeExtras(env, material, bundle) = [material EXCEPT !.anchors = roots, !.cas = cas]
  BY <1>2 DEF MergeExtras, Material
<1> HIDE DEF roots, cas
<1> QED
  BY <1>2, <1>5, <1>6, <1>7 DEF Material

LEMMA EnvironmentsAreTyped ==
  \A e \in EnvIds : Environments[e] \in Environment
BY StreamRefreshAssumption DEF EnvIds

LEMMA GeneratedType ==
  ASSUME NEW inputs \in Inputs_
  PROVE  Generated(inputs) \in [EnvIds -> Material]
BY MaterialOfType, EnvironmentsAreTyped DEF Generated

-----------------------------------------------------------------------------
(* The types, and the step a run is at.                                    *)
WorldTyped ==
  /\ setting \in Settings
  /\ day \in Days
  /\ out \in [ChannelIds -> Nat] /\ \A i \in ChannelIds : out[i] \in DOMAIN Channels[i]
  /\ issued \in [IssuerIds -> Nat] /\ \A j \in IssuerIds : issued[j] \in DOMAIN Issuers[j]

RunTyped ==
  /\ tree \in Tree
  /\ moved \in BOOLEAN /\ calm \in BOOLEAN /\ behind \in BOOLEAN
  /\ pc \in {"idle", "fetch", "bundle", "generate", "propose"}
  /\ index \in Nat \ {0}
  /\ pc = "fetch" => index \in ChannelIds
  /\ pc = "generate" => index \in EnvIds

ScriptsTyped == scripts \in [Runners -> Script \cup {NoScript}]

PrTyped ==
  /\ conflict \in BOOLEAN
  /\ pr \in {"none", "open", "pinned"}
  /\ pr # "none" => branch \in Tree
  /\ branch # NoBranch => branch \in Tree

Typed ==
  /\ WorldTyped /\ RunTyped /\ ScriptsTyped /\ PrTyped
  /\ head \in Tree /\ (pc = "idle" => tree = head)
  /\ fails \in 0..MaxFails /\ beside \in 0..setting.overlaps

LEMMA TypesFollow ==
  ASSUME Typed
  PROVE  TypeOK
<1>1. /\ DOMAIN scripts = Runners
      /\ \A r \in Runners : scripts[r] # NoScript => scripts[r] \in Script
  BY DEF Typed, ScriptsTyped
<1> QED BY <1>1, NoBranchAssumption DEF Typed, TypeOK, WorldTyped, RunTyped, PrTyped

LEMMA WorldStays ==
  ASSUME Typed, UNCHANGED worldVars
  PROVE  WorldTyped'
BY DEF Typed, WorldTyped, worldVars

LEMMA TreeParts ==
  ASSUME NEW t \in Tree
  PROVE  /\ t.inputs \in Inputs_ /\ t.stores \in [EnvIds -> Material]
         /\ t.inputs.streams \in [ChannelIds -> Streams]
         /\ t.inputs.bundles \in [IssuerIds -> Bundles]
BY DEF Tree, Inputs_

(* Replacing one input or one store leaves the others.                     *)
LEMMA StreamReplaced ==
  ASSUME NEW t \in Tree, NEW i \in ChannelIds, NEW s \in Streams
  PROVE  /\ [t EXCEPT !.inputs.streams[i] = s] \in Tree
         /\ [t EXCEPT !.inputs.streams[i] = s].inputs.streams
              = [t.inputs.streams EXCEPT ![i] = s]
         /\ [t EXCEPT !.inputs.streams[i] = s].inputs.bundles = t.inputs.bundles
         /\ [t EXCEPT !.inputs.streams[i] = s].stores = t.stores
BY TreeParts DEF Tree, Inputs_

LEMMA BundleReplaced ==
  ASSUME NEW t \in Tree, NEW j \in IssuerIds, NEW b \in Bundles
  PROVE  /\ [t EXCEPT !.inputs.bundles[j] = b] \in Tree
         /\ [t EXCEPT !.inputs.bundles[j] = b].inputs.bundles
              = [t.inputs.bundles EXCEPT ![j] = b]
         /\ [t EXCEPT !.inputs.bundles[j] = b].inputs.streams = t.inputs.streams
         /\ [t EXCEPT !.inputs.bundles[j] = b].stores = t.stores
BY TreeParts DEF Tree, Inputs_

LEMMA StoreReplaced ==
  ASSUME NEW t \in Tree, NEW e \in EnvIds, NEW m \in Material
  PROVE  /\ [t EXCEPT !.stores[e] = m] \in Tree
         /\ [t EXCEPT !.stores[e] = m].stores = [t.stores EXCEPT ![e] = m]
         /\ [t EXCEPT !.stores[e] = m].inputs = t.inputs
BY TreeParts DEF Tree

(* What servers answer with is a stream or a bundle.                       *)
LEMMA ServedAreStreams ==
  ASSUME Typed, NEW i \in ChannelIds
  PROVE  Served(i) \subseteq Streams
<1>1. Channels[i] \in Seq(Streams) /\ out[i] \in DOMAIN Channels[i]
  BY StreamRefreshAssumption DEF ChannelIds, Typed, WorldTyped
<1>2. UpTo(out[i]) \subseteq DOMAIN Channels[i]
  BY <1>1 DEF UpTo
<1>3. \A k \in DOMAIN Channels[i] : Channels[i][k] \in Streams
  BY <1>1
<1> QED
  BY <1>2, <1>3, StreamRefreshAssumption DEF Served

LEMMA ServedAreBundles ==
  ASSUME Typed, NEW j \in IssuerIds
  PROVE  ServedBundles(j) \subseteq Bundles
<1>1. Issuers[j] \in Seq(Bundles) /\ issued[j] \in DOMAIN Issuers[j]
  BY StreamRefreshAssumption DEF IssuerIds, Typed, WorldTyped
<1>2. UpTo(issued[j]) \subseteq DOMAIN Issuers[j]
  BY <1>1 DEF UpTo
<1>3. \A k \in DOMAIN Issuers[j] : Issuers[j][k] \in Bundles
  BY <1>1
<1>4. tree.inputs.bundles[j] \in Bundles
  BY TreeParts DEF Typed, RunTyped
<1> QED
  BY <1>2, <1>3, <1>4 DEF ServedBundles

(* How the fetches of a run go.                                            *)
LEMMA FetchShape ==
  ASSUME Typed, FetchServed
  PROVE  /\ index \in ChannelIds
         /\ \E s \in Served(index) : \E good \in Verdicts(s), holds \in Verdicts(Held) :
              LET taken == good /\ Replaces(s, Held, holds)
              IN  /\ s \in Streams
                  /\ tree' = IF taken THEN [tree EXCEPT !.inputs.streams[index] = s]
                             ELSE tree
                  /\ moved' = (moved \/ (taken /\ s # Held))
BY ServedAreStreams DEF Typed, RunTyped, FetchServed, Fetch

LEMMA FetchPlaces ==
  ASSUME Typed, pc = "fetch", FetchDone
  PROVE  /\ pc' \in {"fetch", "bundle"} /\ index' \in Nat \ {0}
         /\ pc' = "fetch" => index' \in ChannelIds /\ index' = index + 1
         /\ pc' = "bundle" => index' = 1 /\ index = Len(Channels)
BY StreamRefreshAssumption DEF Typed, RunTyped, FetchDone, Goes, ChannelIds

(* The steps of a run in the script.                                       *)
LEMMA ScriptParts ==
  ASSUME ScriptsTyped, NEW r \in Runners, InScript(r)
  PROVE  /\ scripts[r] \in Script
         /\ scripts[r].files \in Tree /\ scripts[r].behind \in BOOLEAN
<1>1. scripts[r] \in Script \cup {NoScript} /\ scripts[r] # NoScript
  BY DEF ScriptsTyped, InScript, NoScript
<1> QED BY <1>1 DEF Script

LEMMA ScriptMoved ==
  ASSUME NEW x \in Script, NEW at \in {"look", "push", "create"}
  PROVE  /\ [x EXCEPT !.at = at] \in Script
         /\ [x EXCEPT !.at = at].files = x.files
         /\ [x EXCEPT !.at = at].behind = x.behind
BY DEF Script

LEMMA ScriptGoesOn ==
  ASSUME ScriptsTyped, NEW r \in Runners, InScript(r), NEW at \in {"look", "push", "create"},
         scripts' = [scripts EXCEPT ![r].at = at]
  PROVE  /\ ScriptsTyped'
         /\ \A q \in Runners : InScript(q)' =>
              /\ InScript(q) /\ scripts'[q].files = scripts[q].files
              /\ scripts'[q].behind = scripts[q].behind
<1> DEFINE after == [scripts[r] EXCEPT !.at = at]
<1>1. scripts[r] \in Script
  BY ScriptParts
<1>2. after \in Script /\ after.files = scripts[r].files /\ after.behind = scripts[r].behind
  BY <1>1, ScriptMoved
<1>3. scripts \in [Runners -> Script \cup {NoScript}]
  BY DEF ScriptsTyped
<1>4. scripts' = [scripts EXCEPT ![r] = after]
  BY <1>3
<1> HIDE DEF after
<1>5. ScriptsTyped'
  BY <1>2, <1>3, <1>4 DEF ScriptsTyped
<1>6. \A q \in Runners : scripts'[q] = IF q = r THEN after ELSE scripts[q]
  BY <1>3, <1>4
<1> QED BY <1>2, <1>5, <1>6 DEF InScript

LEMMA ScriptOver ==
  ASSUME ScriptsTyped, NEW r \in Runners, ScriptEnds(r)
  PROVE  /\ ScriptsTyped'
         /\ \A q \in Runners : InScript(q)' =>
              /\ InScript(q) /\ scripts'[q].files = scripts[q].files
              /\ scripts'[q].behind = scripts[q].behind
<1>1. /\ scripts \in [Runners -> Script \cup {NoScript}]
      /\ scripts' = [scripts EXCEPT ![r] = NoScript]
  BY DEF ScriptsTyped, ScriptEnds
<1>2. \A q \in Runners : scripts'[q] = IF q = r THEN NoScript ELSE scripts[q]
  BY <1>1
<1>3. NoScript.at = "none"
  BY DEF NoScript
<1> QED BY <1>1, <1>2, <1>3 DEF InScript, ScriptsTyped

LEMMA ScriptAdvances ==
  ASSUME ScriptsTyped, NEW r \in Runners, ScriptStep(r) \/ ScriptDies(r)
  PROVE  /\ ScriptsTyped'
         /\ \A q \in Runners : InScript(q)' =>
              /\ InScript(q) /\ scripts'[q].files = scripts[q].files
              /\ scripts'[q].behind = scripts[q].behind
<1>1. CASE FindsOpen(r) \/ Create(r) \/ ScriptDies(r)
  BY <1>1, ScriptOver DEF FindsOpen, Create, ScriptDies
<1>2. CASE FindsNone(r)
  BY <1>2, ScriptGoesOn DEF FindsNone, InScript
<1>3. CASE PushForced(r)
  BY <1>3, ScriptGoesOn DEF PushForced, InScript
<1> QED BY <1>1, <1>2, <1>3 DEF ScriptStep

LEMMA ScriptEnters ==
  ASSUME Typed, NEW r \in Runners, ScriptStarts(r)
  PROVE  /\ ScriptsTyped'
         /\ \A q \in Runners :
              scripts'[q] = IF q = r THEN [at |-> "look", files |-> tree, behind |-> behind]
                            ELSE scripts[q]
<1> DEFINE new == [at |-> "look", files |-> tree, behind |-> behind]
<1>1. new \in Script
  BY DEF Typed, RunTyped, Script
<1>2. scripts \in [Runners -> Script \cup {NoScript}] /\ scripts' = [scripts EXCEPT ![r] = new]
  BY DEF Typed, ScriptsTyped, ScriptStarts
<1> HIDE DEF new
<1>3. ScriptsTyped' /\ \A q \in Runners : scripts'[q] = IF q = r THEN new ELSE scripts[q]
  BY <1>1, <1>2 DEF ScriptsTyped
<1> QED BY <1>3 DEF new

LEMMA ScriptsFallBehind ==
  ASSUME ScriptsTyped, Merge
  PROVE  /\ ScriptsTyped'
         /\ \A q \in Runners : InScript(q)' =>
              /\ InScript(q) /\ scripts'[q].files = scripts[q].files
              /\ scripts'[q].behind
<1>1. scripts' = [r \in Runners |-> [scripts[r] EXCEPT !.behind = InScript(r)]]
  BY DEF Merge
<1>2. ASSUME NEW q \in Runners, InScript(q)
      PROVE  /\ scripts'[q] \in Script /\ scripts'[q].files = scripts[q].files
             /\ scripts'[q].behind
  <2>1. scripts[q] \in Script
    BY <1>2, ScriptParts
  <2>2. scripts'[q] = [scripts[q] EXCEPT !.behind = TRUE]
    BY <1>1, <1>2, Zenon
  <2> QED BY <2>1, <2>2 DEF Script
<1>3. ASSUME NEW q \in Runners, ~InScript(q)
      PROVE  scripts'[q] = NoScript
  <2>1. scripts[q] \in Script \cup {NoScript} /\ scripts[q].at = "none"
    BY <1>3 DEF ScriptsTyped, InScript
  <2>2. scripts[q] = NoScript
    BY <2>1 DEF Script
  <2>3. scripts'[q] = [scripts[q] EXCEPT !.behind = (scripts[q].at # "none")]
    BY <1>1, Zenon DEF InScript
  <2>4. (scripts[q].at # "none") = FALSE
    BY <2>1
  <2>5. scripts'[q] = [NoScript EXCEPT !.behind = FALSE]
    BY <2>2, <2>3, <2>4, Zenon
  <2> QED BY <2>5 DEF NoScript
<1>4. ScriptsTyped'
  BY <1>1, <1>2, <1>3 DEF ScriptsTyped
<1>5. \A q \in Runners : InScript(q)' => InScript(q)
  BY <1>3 DEF InScript, NoScript
<1> QED BY <1>2, <1>4, <1>5

(* A run that ends, a run that goes on, and a step beside the runs.        *)
LEMMA EndsTyped ==
  ASSUME Typed, Ends, UNCHANGED <<worldVars, head, prVars, beside>>, ScriptsTyped',
         fails' \in 0..MaxFails
  PROVE  Typed'
<1>0. moved' \in BOOLEAN /\ calm' \in BOOLEAN /\ behind' \in BOOLEAN
  BY Zenon DEF Ends
<1>1. RunTyped' /\ tree' = head'
  BY <1>0 DEF Ends, Goes, RunTyped, Typed
<1>2. PrTyped'
  BY DEF PrTyped, prVars, Typed
<1>3. beside' \in 0..setting'.overlaps
  BY DEF Typed, worldVars
<1> QED
  BY <1>1, <1>2, <1>3, WorldStays DEF Typed

LEMMA RunMovesTyped ==
  ASSUME Typed, UNCHANGED <<worldVars, head, scripts, prVars, fails>>, RunTyped',
         pc' # "idle", beside' \in 0..setting.overlaps
  PROVE  Typed'
<1>1. PrTyped' /\ ScriptsTyped'
  BY DEF PrTyped, ScriptsTyped, prVars, Typed
<1>2. setting' = setting
  BY DEF worldVars
<1> QED
  BY <1>1, <1>2, WorldStays DEF Typed

LEMMA ReviewTyped ==
  ASSUME Typed, UNCHANGED <<worldVars, head, runVars, beside>>, ScriptsTyped', PrTyped',
         fails' \in 0..MaxFails
  PROVE  Typed'
<1>1. RunTyped' /\ UNCHANGED <<tree, pc, setting>>
  BY DEF RunTyped, Typed, runVars, worldVars
<1> QED
  BY <1>1, WorldStays DEF Typed

LEMMA TypedAlways == Spec => []Typed
<1>1. Init => Typed
  <2> SUFFICES ASSUME Init PROVE Typed
    OBVIOUS
  <2>1. /\ \A i \in ChannelIds : Channels[i][1] \in Streams /\ 1 \in DOMAIN Channels[i]
        /\ \A j \in IssuerIds : Issuers[j][1] \in Bundles /\ 1 \in DOMAIN Issuers[j]
    BY StreamRefreshAssumption DEF ChannelIds, IssuerIds
  <2>2. head.inputs \in Inputs_ /\ head.stores = Generated(head.inputs)
        /\ head = [inputs |-> head.inputs, stores |-> head.stores]
    BY <2>1 DEF Init, Inputs_
  <2>3. head \in Tree
    BY <2>2, GeneratedType DEF Tree
  <2>4. 1 \in Days /\ MaxDay \in Days
    BY StreamVerifyAssumption DEF Days
  <2>5. WorldTyped
    <3>1. /\ \A i \in ChannelIds : Len(Channels[i]) \in DOMAIN Channels[i] /\ Len(Channels[i]) \in Nat
          /\ \A j \in IssuerIds : Len(Issuers[j]) \in DOMAIN Issuers[j] /\ Len(Issuers[j]) \in Nat
      BY StreamRefreshAssumption DEF ChannelIds, IssuerIds
    <3> QED BY <2>1, <2>4, <3>1 DEF Init, WorldTyped
  <2>6. /\ moved \in BOOLEAN /\ calm \in BOOLEAN /\ behind \in BOOLEAN
        /\ conflict \in BOOLEAN
    BY Zenon DEF Init
  <2>7. RunTyped /\ PrTyped /\ ScriptsTyped
    BY <2>3, <2>6 DEF Init, RunTyped, PrTyped, ScriptsTyped
  <2>8. setting.overlaps \in Nat
    BY StreamRefreshAssumption DEF Init, Setting
  <2> QED
    BY <2>3, <2>5, <2>7, <2>8, StreamRefreshAssumption DEF Init, Typed
<1>2. Typed /\ [Next]_vars => Typed'
  <2> SUFFICES ASSUME Typed, [Next]_vars PROVE Typed'
    OBVIOUS
  <2>1. /\ WorldTyped /\ RunTyped /\ ScriptsTyped /\ PrTyped /\ head \in Tree
        /\ fails \in 0..MaxFails /\ beside \in 0..setting.overlaps
        /\ tree \in Tree /\ MaxFails \in Nat /\ setting.overlaps \in Nat
    BY StreamRefreshAssumption DEF Typed, RunTyped, WorldTyped, Setting
  <2>2. CASE World
    <3>1. UNCHANGED <<runVars, scripts, prVars, head, counts, setting>>
      BY <2>2 DEF World, DayPasses, Publish, Issue
    <3>2. RunTyped' /\ PrTyped' /\ ScriptsTyped' /\ UNCHANGED <<tree, pc, fails, beside>>
      BY <2>1, <3>1 DEF runVars, prVars, counts, RunTyped, PrTyped, ScriptsTyped
    <3>3. CASE DayPasses
      <4>1. WorldTyped'
        BY <2>1, <3>3, StreamVerifyAssumption DEF DayPasses, WorldTyped, Days
      <4> QED BY <2>1, <3>1, <3>2, <4>1 DEF Typed
    <3>4. ASSUME NEW i \in ChannelIds, Publish(i) PROVE Typed'
      <4>1. out \in [ChannelIds -> Nat] /\ out' = [out EXCEPT ![i] = out[i] + 1]
            /\ out[i] < Len(Channels[i]) /\ DOMAIN Channels[i] = 1..Len(Channels[i])
            /\ UNCHANGED <<setting, day, issued>>
        BY <2>1, <3>4, StreamRefreshAssumption DEF Publish, WorldTyped, ChannelIds
      <4>2. WorldTyped'
        BY <2>1, <4>1 DEF WorldTyped
      <4> QED BY <2>1, <3>1, <3>2, <4>2 DEF Typed
    <3>5. ASSUME NEW j \in IssuerIds, Issue(j) PROVE Typed'
      <4>1. issued \in [IssuerIds -> Nat] /\ issued' = [issued EXCEPT ![j] = issued[j] + 1]
            /\ issued[j] < Len(Issuers[j]) /\ DOMAIN Issuers[j] = 1..Len(Issuers[j])
            /\ UNCHANGED <<setting, day, out>>
        BY <2>1, <3>5, StreamRefreshAssumption DEF Issue, WorldTyped, IssuerIds
      <4>2. WorldTyped'
        BY <2>1, <4>1 DEF WorldTyped
      <4> QED BY <2>1, <3>1, <3>2, <4>2 DEF Typed
    <3> QED BY <2>2, <3>3, <3>4, <3>5 DEF World
  <2>3. ASSUME NEW isCalm \in BOOLEAN, RunStarts(isCalm) PROVE Typed'
    <3>1. /\ pc' = "fetch" /\ index' = 1 /\ calm' = isCalm
          /\ UNCHANGED <<worldVars, head, tree, moved, behind, scripts, prVars, fails>>
      BY <2>3 DEF RunStarts, Goes
    <3>2. calm' \in BOOLEAN
      BY <2>3, <3>1, Zenon
    <3>3. RunTyped'
      BY <2>1, <3>1, <3>2, StreamRefreshAssumption DEF RunTyped, ChannelIds
    <3>4. beside' \in 0..setting.overlaps
      BY <2>1, <2>3 DEF RunStarts
    <3> QED BY <3>1, <3>3, <3>4, RunMovesTyped
  <2>4. CASE FetchFails
    <3>1. RunTyped' /\ pc' # "idle"
      BY <2>1, <2>4, FetchPlaces DEF FetchFails, RunTyped
    <3> QED BY <2>1, <2>4, <3>1, RunMovesTyped DEF FetchFails, counts
  <2>5. CASE FetchServed
    <3>1. PICK s \in Streams, taken \in BOOLEAN :
            /\ tree' = IF taken THEN [tree EXCEPT !.inputs.streams[index] = s] ELSE tree
            /\ moved' = (moved \/ (taken /\ s # Held))
      BY <2>5, FetchShape
    <3>2. index \in ChannelIds
      BY <2>5, FetchShape
    <3>3. tree' \in Tree /\ moved' \in BOOLEAN
      BY <2>1, <3>1, <3>2, StreamReplaced DEF RunTyped
    <3>4. /\ pc = "fetch" /\ FetchDone
          /\ UNCHANGED <<worldVars, head, calm, behind, scripts, prVars, counts>>
      BY <2>5 DEF FetchServed, Fetch
    <3>5. RunTyped' /\ pc' # "idle"
      BY <2>1, <3>3, <3>4, FetchPlaces DEF RunTyped
    <3> QED BY <2>1, <3>4, <3>5, RunMovesTyped DEF counts
  <2>6. CASE FetchBundleServed
    <3>1. PICK b \in ServedBundles(index) : FetchBundle(b)
      BY <2>6 DEF FetchBundleServed
    <3>2. index \in IssuerIds
      BY <2>1, <3>1, StreamRefreshAssumption
         DEF FetchBundle, BundlesDone, IssuerIds, RunTyped
    <3>3. b \in Bundles
      BY <3>1, <3>2, ServedAreBundles
    <3>4. tree' \in Tree /\ moved' \in BOOLEAN
      BY <2>1, <3>1, <3>2, <3>3, BundleReplaced DEF FetchBundle, RunTyped
    <3>5. RunTyped' /\ pc' # "idle"
      BY <2>1, <3>1, <3>4 DEF FetchBundle, Goes, RunTyped
    <3> QED BY <2>1, <3>1, <3>5, RunMovesTyped DEF FetchBundle, counts
  <2>7. ASSUME Ends, UNCHANGED <<worldVars, head, scripts, prVars, beside>>, fails' \in 0..MaxFails
        PROVE  Typed'
    <3>1. ScriptsTyped'
      BY <2>1, <2>7 DEF ScriptsTyped
    <3> QED BY <2>7, <3>1, EndsTyped
  <2>8. CASE SomethingMoved
    <3>1. RunTyped' /\ pc' # "idle"
      BY <2>1, <2>8, StreamRefreshAssumption DEF SomethingMoved, Goes, RunTyped, EnvIds
    <3> QED BY <2>1, <2>8, <3>1, RunMovesTyped DEF SomethingMoved, counts
  <2>9. ASSUME NEW e \in EnvIds, Generate(e) PROVE Typed'
    <3> DEFINE m == MaterialOf(Environments[e], tree.inputs)
    <3>1. m \in Material
      BY <2>1, MaterialOfType, EnvironmentsAreTyped, TreeParts
    <3>2. tree' = [tree EXCEPT !.stores[e] = m]
      BY <2>9 DEF Generate
    <3> HIDE DEF m
    <3>3. tree' \in Tree
      BY <2>1, <3>1, <3>2, StoreReplaced
    <3>4. /\ pc' \in {"generate", "propose"} /\ index' \in Nat \ {0}
          /\ pc' = "generate" => index' \in EnvIds
          /\ UNCHANGED <<worldVars, head, moved, calm, behind, scripts, prVars, counts>>
      BY <2>9, StreamRefreshAssumption DEF Generate, Goes, EnvIds
    <3>5. RunTyped'
      BY <2>1, <3>3, <3>4 DEF RunTyped
    <3> QED BY <2>1, <3>4, <3>5, RunMovesTyped DEF counts
  <2>10. CASE NothingMoved \/ GenerateFails
    BY <2>1, <2>7, <2>10 DEF NothingMoved, GenerateFails, counts
  <2>11. ASSUME NEW r \in Runners, ScriptStarts(r) PROVE Typed'
    <3>1. ScriptsTyped'
      BY <2>11, ScriptEnters
    <3> QED BY <2>1, <2>11, <3>1, EndsTyped DEF ScriptStarts, counts
  <2>12. ASSUME NEW r \in Runners, ScriptStep(r) \/ ScriptDies(r) PROVE Typed'
    <3>1. ScriptsTyped'
      BY <2>1, <2>12, ScriptAdvances
    <3>2. /\ UNCHANGED <<worldVars, head, runVars, beside>> /\ fails' \in 0..MaxFails
      BY <2>1, <2>12 DEF ScriptStep, ScriptDies, FindsOpen, FindsNone, PushForced, Create, counts
    <3>3. PrTyped'
      <4>1. CASE FindsOpen(r) \/ FindsNone(r) \/ ScriptDies(r)
        BY <2>1, <4>1 DEF FindsOpen, FindsNone, ScriptDies, prVars, PrTyped
      <4>2. CASE PushForced(r)
        <5>1. InScript(r)
          BY <4>2 DEF PushForced, InScript
        <5> QED BY <2>1, <4>2, <5>1, ScriptParts DEF PushForced, PrTyped
      <4>3. CASE Create(r)
        BY <2>1, <4>3 DEF Create, PrTyped
      <4> QED BY <2>12, <4>1, <4>2, <4>3 DEF ScriptStep
    <3> QED BY <3>1, <3>2, <3>3, ReviewTyped
  <2>13. CASE JobDies
    <3>1. fails' \in 0..MaxFails
      BY <2>1, <2>13 DEF JobDies
    <3> QED BY <2>7, <2>13, <3>1 DEF JobDies
  <2>14. CASE Review
    <3>1. PrTyped' /\ ScriptsTyped'
      BY <2>1, <2>14 DEF Review, PrTyped, ScriptsTyped
    <3> QED BY <2>1, <2>14, <3>1, ReviewTyped DEF Review, counts
  <2>15. CASE Merge
    <3>1. ScriptsTyped' /\ PrTyped' /\ head' \in Tree
      BY <2>1, <2>15, ScriptsFallBehind DEF Merge, PrTyped
    <3>2. /\ tree' \in Tree /\ behind' \in BOOLEAN /\ (pc' = "idle" => tree' = head')
          /\ UNCHANGED <<worldVars, moved, calm, pc, index, counts, setting>>
      BY <2>1, <2>15 DEF Merge, RunTyped, PrTyped, worldVars
    <3>3. RunTyped'
      BY <2>1, <3>2 DEF RunTyped
    <3> QED BY <2>1, <3>1, <3>2, <3>3, WorldStays DEF Typed, counts
  <2>16. CASE CloseUnmergeable \/ CloseUnmerged
    <3>1. Close /\ fails' \in 0..MaxFails
      BY <2>1, <2>16 DEF CloseUnmergeable, CloseUnmerged
    <3>2. PrTyped' /\ ScriptsTyped'
      BY <2>1, <3>1 DEF Close, PrTyped, ScriptsTyped
    <3> QED BY <3>1, <3>2, ReviewTyped DEF Close
  <2>17. CASE UNCHANGED vars
    <3>1. UNCHANGED <<worldVars, head, runVars, scripts, prVars, counts, setting>>
      BY <2>17 DEF vars, worldVars
    <3>2. RunTyped' /\ PrTyped' /\ ScriptsTyped' /\ UNCHANGED <<tree, pc>>
      BY <2>1, <3>1 DEF runVars, prVars, RunTyped, PrTyped, ScriptsTyped
    <3> QED BY <2>1, <3>1, <3>2, WorldStays DEF Typed, counts
  <2> QED BY <2>2, <2>3, <2>4, <2>5, <2>6, <2>8, <2>9, <2>10, <2>11, <2>12,
             <2>13, <2>14, <2>15, <2>16, <2>17
          DEF Next, Step
<1> QED BY <1>1, <1>2, PTL DEF Spec

(* THEOREM TypeCorrect: the runs of refresh.rs, and the reviews between    *)
(* them, leave every file and every variable of its type.                  *)
THEOREM TypeCorrect == Spec => []TypeOK
<1>1. Typed => TypeOK
  BY TypesFollow
<1> QED BY <1>1, TypedAlways, PTL

-----------------------------------------------------------------------------
(* Every environment that is committed, or proposed by any run, or has     *)
(* been made by the run under way, is made from the inputs beside it.      *)
MadeUpTo(t, n) ==
  \A e \in EnvIds : e < n => t.stores[e] = MaterialOf(Environments[e], t.inputs)

Made(t) == t.stores = Generated(t.inputs)

StoresFollow ==
  /\ Made(head)
  /\ pc = "generate" => MadeUpTo(tree, index)
  /\ pc = "propose" => Made(tree)
  /\ \A r \in Runners : InScript(r) => Made(scripts[r].files)
  /\ branch # NoBranch => Made(branch)

LEMMA AllMade ==
  ASSUME NEW t \in Tree, MadeUpTo(t, Len(Environments) + 1)
  PROVE  Made(t)
<1>1. \A e \in EnvIds : t.stores[e] = MaterialOf(Environments[e], t.inputs)
  BY StreamRefreshAssumption DEF MadeUpTo, EnvIds
<1>2. t.stores \in [EnvIds -> Material]
  BY TreeParts
<1> QED
  BY <1>1, <1>2 DEF Made, Generated

LEMMA NextMade ==
  ASSUME Typed, NEW e \in EnvIds, Generate(e), MadeUpTo(tree, e)
  PROVE  MadeUpTo(tree', e + 1) /\ tree' \in Tree /\ tree'.inputs = tree.inputs
<1> DEFINE m == MaterialOf(Environments[e], tree.inputs)
<1>1. tree \in Tree /\ m \in Material
  BY MaterialOfType, EnvironmentsAreTyped, TreeParts DEF Typed, RunTyped
<1>2. tree' = [tree EXCEPT !.stores[e] = m]
  BY DEF Generate
<1> HIDE DEF m
<1>3. tree' \in Tree /\ tree'.stores = [tree.stores EXCEPT ![e] = m]
      /\ tree'.inputs = tree.inputs
  BY <1>1, <1>2, StoreReplaced
<1>4. tree.stores \in [EnvIds -> Material]
  BY <1>1, TreeParts
<1> SUFFICES ASSUME NEW o \in EnvIds, o < e + 1
             PROVE  tree'.stores[o] = MaterialOf(Environments[o], tree'.inputs)
  BY <1>3 DEF MadeUpTo
<1>5. CASE o = e
  BY <1>3, <1>4, <1>5 DEF m
<1>6. CASE o # e
  <2>1. o < e
    BY <1>6, StreamRefreshAssumption DEF EnvIds
  <2> QED BY <1>3, <1>4, <1>6, <2>1 DEF MadeUpTo
<1> QED
  BY <1>5, <1>6

LEMMA StoresFollowAlways == Spec => []StoresFollow
<1>1. Init => StoresFollow
  BY DEF Init, StoresFollow, Made, InScript, NoScript
<1>2. Typed /\ StoresFollow /\ [Next]_vars => StoresFollow'
  <2> SUFFICES ASSUME Typed, StoresFollow, [Next]_vars PROVE StoresFollow'
    OBVIOUS
  <2>1. StoresFollow' <=>
          /\ Made(head')
          /\ pc' = "generate" => MadeUpTo(tree', index')
          /\ pc' = "propose" => Made(tree')
          /\ \A r \in Runners : InScript(r)' => Made(scripts'[r].files)
          /\ branch' # NoBranch => Made(branch')
    BY DEF StoresFollow, Made, MadeUpTo
  <2>2. /\ Made(head)
        /\ pc = "generate" => MadeUpTo(tree, index)
        /\ pc = "propose" => Made(tree)
        /\ \A r \in Runners : InScript(r) => Made(scripts[r].files)
        /\ branch # NoBranch => Made(branch)
    BY DEF StoresFollow
  (* A step of the run under way.                                          *)
  <2>3. ASSUME UNCHANGED <<head, scripts, prVars>>,
               pc' = "generate" => MadeUpTo(tree', index'),
               pc' = "propose" => Made(tree')
        PROVE  StoresFollow'
    BY <2>1, <2>2, <2>3 DEF InScript, prVars
  (* A step of any other.                                                  *)
  <2>4. ASSUME UNCHANGED <<pc, index>>, pc # "idle" => tree' = tree,
               head' = head \/ (head' = branch /\ branch # NoBranch),
               \A q \in Runners : InScript(q)' =>
                 InScript(q) /\ scripts'[q].files = scripts[q].files,
               \/ branch' \in {branch, NoBranch}
               \/ \E r \in Runners : InScript(r) /\ branch' = scripts[r].files
        PROVE  StoresFollow'
    BY <2>1, <2>2, <2>4
  <2>5. CASE World \/ UNCHANGED vars
    BY <2>4, <2>5
       DEF World, DayPasses, Publish, Issue, vars, runVars, prVars, InScript
  <2>6. ASSUME NEW isCalm, RunStarts(isCalm) PROVE StoresFollow'
    BY <2>3, <2>6 DEF RunStarts, Goes
  <2>7. CASE FetchFails \/ FetchServed \/ FetchBundleServed
    BY <2>3, <2>7
       DEF FetchFails, FetchServed, Fetch, FetchDone, FetchBundleServed, FetchBundle, Goes
  <2>8. CASE NothingMoved \/ GenerateFails \/ JobDies
    BY <2>3, <2>8 DEF NothingMoved, GenerateFails, JobDies, Ends, Goes
  <2>9. CASE SomethingMoved
    <3>1. pc' = "generate" /\ index' = 1 /\ UNCHANGED <<head, scripts, prVars>>
      BY <2>9 DEF SomethingMoved, Goes
    <3>2. MadeUpTo(tree', 1)
      BY StreamRefreshAssumption DEF MadeUpTo, EnvIds
    <3> QED BY <2>3, <3>1, <3>2
  <2>10. ASSUME NEW e \in EnvIds, Generate(e) PROVE StoresFollow'
    <3>1. /\ MadeUpTo(tree', e + 1) /\ tree' \in Tree
      BY <2>2, <2>10, NextMade DEF Generate
    <3>2. UNCHANGED <<head, scripts, prVars>>
      BY <2>10 DEF Generate
    <3>3. CASE e < Len(Environments)
      <4>1. pc' = "generate" /\ index' = e + 1
        BY <2>10, <3>3 DEF Generate, Goes
      <4> QED BY <2>3, <3>1, <3>2, <4>1
    <3>4. CASE ~(e < Len(Environments))
      <4>1. pc' = "propose" /\ e = Len(Environments)
        BY <2>10, <3>4, StreamRefreshAssumption DEF Generate, Goes, EnvIds
      <4> QED BY <2>3, <3>1, <3>2, <4>1, AllMade
    <3> QED BY <3>3, <3>4
  <2>11. ASSUME NEW r \in Runners, ScriptStarts(r) PROVE StoresFollow'
    <3>1. /\ Made(tree) /\ pc' = "idle" /\ UNCHANGED <<head, branch>>
      BY <2>2, <2>11 DEF ScriptStarts, Ends, Goes, prVars
    <3>2. \A q \in Runners : InScript(q)' => Made(scripts'[q].files)
      BY <2>2, <2>11, <3>1, ScriptEnters DEF InScript
    <3> QED BY <2>1, <2>2, <3>1, <3>2
  <2>12. ASSUME NEW r \in Runners, ScriptStep(r) \/ ScriptDies(r) PROVE StoresFollow'
    <3>1. \A q \in Runners : InScript(q)' =>
            InScript(q) /\ scripts'[q].files = scripts[q].files
      BY <2>12, ScriptAdvances DEF Typed
    <3>2. /\ UNCHANGED <<head, tree, pc, index>>
          /\ branch' = branch \/ (InScript(r) /\ branch' = scripts[r].files)
      BY <2>12 DEF ScriptStep, ScriptDies, FindsOpen, FindsNone, PushForced, Create, InScript,
                   runVars, prVars
    <3> QED BY <2>4, <3>1, <3>2
  <2>13. CASE Review
    BY <2>4, <2>13 DEF Review, runVars, InScript
  <2>14. CASE Merge
    <3>1. \A q \in Runners : InScript(q)' =>
            InScript(q) /\ scripts'[q].files = scripts[q].files
      BY <2>14, ScriptsFallBehind DEF Typed
    <3>2. branch # NoBranch
      BY <2>14, NoBranchAssumption DEF Merge, Typed, PrTyped
    <3>3. /\ UNCHANGED <<pc, index>> /\ head' = branch /\ branch' = NoBranch
          /\ pc # "idle" => tree' = tree
      BY <2>14 DEF Merge
    <3> QED BY <2>4, <3>1, <3>2, <3>3
  <2>15. CASE CloseUnmergeable \/ CloseUnmerged
    <3>1. UNCHANGED <<head, tree, pc, index, scripts>> /\ branch' \in {branch, NoBranch}
      BY <2>15 DEF CloseUnmergeable, CloseUnmerged, Close, runVars
    <3> QED BY <2>4, <3>1 DEF InScript
  <2> QED BY <2>5, <2>6, <2>7, <2>8, <2>9, <2>10, <2>11, <2>12, <2>13, <2>14, <2>15
          DEF Next, Step
<1> QED BY <1>1, <1>2, TypedAlways, PTL DEF Spec

(* The verdicts, as tables and as they are reached.                        *)
LEMMA BuildingMeans ==
  ASSUME NEW s \in Streams, NEW d \in Days
  PROVE  /\ Building[s][Vouched][d]
              <=> Builds(ContentOf[s], Population, StapledAndFetched(Vouched), d)
         /\ BuildingOffline[s][d] <=> Builds(ContentOf[s], Population, Stapled, d)
<1> DEFINE asked(x, a, e) == Builds(ContentOf[x], Population, StapledAndFetched(a), e)
           unasked(x, e) == Builds(ContentOf[x], Population, Stapled, e)
<1>1. Building = [x \in Streams |-> [a \in SUBSET Vouched |-> [e \in Days |-> asked(x, a, e)]]]
  BY Zenon DEF Building
<1>2. BuildingOffline = [x \in Streams |-> [e \in Days |-> unasked(x, e)]]
  BY Zenon DEF BuildingOffline
<1> HIDE DEF asked, unasked
<1>3. Building[s][Vouched][d] = asked(s, Vouched, d)
  BY <1>1
<1>4. BuildingOffline[s][d] = unasked(s, d)
  BY <1>2
<1> QED
  BY <1>3, <1>4, Zenon DEF asked, unasked

(* THEOREM PassesItsTests: a crate whose streams hold when the responders  *)
(* are asked passes its own tests, which ask none, on every day the        *)
(* streams hold, however runs, deaths and reviews overlapped before.       *)
THEOREM PassesItsTests == Spec => []HoldsOffline
<1>1. Typed /\ StoresFollow => HoldsOffline
  <2> SUFFICES ASSUME Typed, Made(head),
                      \A i \in ChannelIds : Building[head.inputs.streams[i]][Vouched][day],
                      NEW e \in EnvIds
               PROVE  /\ BuildingOffline[head.inputs.streams[Environments[e].channel]][day]
                      /\ Matches(head.stores[e], MaterialOf(Environments[e], head.inputs))
    BY DEF StoresFollow, HoldsOffline, StoresAreWhatStreamsGenerate
  <2> DEFINE i == Environments[e].channel
             s == head.inputs.streams[i]
  <2>1. i \in ChannelIds /\ day \in Days /\ head \in Tree
    BY EnvironmentsAreTyped DEF Environment, ChannelIds, Typed, WorldTyped
  <2>2. s \in Streams
    BY <2>1, TreeParts
  <2>3. Building[s][Vouched][day]
    BY <2>1
  <2> HIDE DEF s
  <2>4. Builds(ContentOf[s], Population, StapledAndFetched(Vouched), day)
    BY <2>1, <2>2, <2>3, BuildingMeans
  <2>5. Builds(ContentOf[s], Population, Stapled, day)
    BY <2>4, HoldsUnasked
  <2>6. BuildingOffline[s][day]
    BY <2>1, <2>2, <2>5, BuildingMeans
  <2>7. head.stores[e] = MaterialOf(Environments[e], head.inputs)
    BY DEF Made, Generated
  <2> QED BY <2>6, <2>7 DEF s, Matches
<1> QED BY <1>1, TypedAlways, StoresFollowAlways, PTL

-----------------------------------------------------------------------------
(* What is committed follows what was committed.  Three assumptions: no    *)
(* verdict hangs on a responder that may fall silent (the configuration of *)
(* streams_rollback has one that does), no stream that anybody may serve   *)
(* holds, and the streams a crate was handed over with held.               *)
Dependable ==
  \A s \in Settings : s.flaky =>
    \A x \in Streams, a \in SUBSET Vouched, d \in Days :
      Reliable \subseteq a => (Building[x][a][d] <=> Building[x][Vouched][d])

Unforgeable == \A s \in Forged, d \in Days : ~Building[s][Vouched][d]

HandedOver == \A i \in ChannelIds : Building[Channels[i][1]][Vouched][1]

(* A stream that held on some day so far, and files of such streams.       *)
Once(s, today) == \E d \in Days : d <= today /\ Building[s][Vouched][d]

Genuine(t, today) ==
  /\ \A i \in ChannelIds : Once(t.inputs.streams[i], today)
  /\ \A j \in IssuerIds : t.inputs.bundles[j] \in Range(Issuers[j])

Sourced ==
  /\ Genuine(head, day) /\ Genuine(tree, day)
  /\ \A r \in Runners : InScript(r) => Genuine(scripts[r].files, day)
  /\ branch # NoBranch => Genuine(branch, day)

(* The channels a run has not asked yet.                                   *)
Untouched(t, n) ==
  \A i \in ChannelIds : i >= n => t.inputs.streams[i] = head.inputs.streams[i]

Followed ==
  /\ pc # "idle" /\ ~behind => NewerOrRepaired(tree.inputs, head.inputs)
  /\ pc = "fetch" /\ ~behind => Untouched(tree, index)
  /\ \A r \in Runners :
       InScript(r) /\ ~scripts[r].behind
         => NewerOrRepaired(scripts[r].files.inputs, head.inputs)
  /\ branch # NoBranch /\ ~conflict => NewerOrRepaired(branch.inputs, head.inputs)

(* How the verification of a stream goes on a day.                         *)
LEMMA OutcomesMean ==
  ASSUME NEW s \in Streams, NEW flaky \in BOOLEAN, NEW d \in Days
  PROVE  Outcomes[s][flaky][d] = {Building[s][a][d] : a \in Asked(flaky)}
<1> DEFINE verdicts(x, f, e) == {Building[x][a][e] : a \in Asked(f)}
<1>1. Outcomes = [x \in Streams |-> [f \in BOOLEAN |-> [e \in Days |-> verdicts(x, f, e)]]]
  BY Zenon DEF Outcomes
<1> HIDE DEF verdicts
<1>2. Outcomes[s][flaky][d] = verdicts(s, flaky, d)
  BY <1>1
<1> QED BY <1>2, Zenon DEF verdicts

LEMMA OneVerdict ==
  ASSUME Typed, Dependable, NEW s \in Streams, NEW v \in Verdicts(s)
  PROVE  v <=> Building[s][Vouched][day]
<1>1. /\ setting \in Settings /\ day \in Days
      /\ setting.flaky \in BOOLEAN /\ calm \in BOOLEAN
  BY StreamRefreshAssumption DEF Typed, WorldTyped, RunTyped, Setting
<1> DEFINE flaky == setting.flaky /\ ~calm
<1>2. flaky \in BOOLEAN
  BY <1>1, Zenon
<1>3. Verdicts(s) = Outcomes[s][flaky][day]
  BY Zenon DEF Verdicts
<1> HIDE DEF flaky
<1>4. PICK a \in Asked(flaky) : v = Building[s][a][day]
  BY <1>1, <1>2, <1>3, OutcomesMean
<1>5. CASE flaky
  <2>1. a \in SUBSET Vouched /\ Reliable \subseteq a
    BY <1>4, <1>5 DEF Asked
  <2>2. setting.flaky
    BY <1>5 DEF flaky
  <2>3. Building[s][a][day] <=> Building[s][Vouched][day]
    BY <1>1, <2>1, <2>2, Zenon DEF Dependable
  <2> QED BY <1>4, <2>3
<1>6. CASE ~flaky
  <2>1. a = Vouched
    BY <1>4, <1>6 DEF Asked
  <2> QED BY <1>4, <2>1
<1> QED BY <1>5, <1>6

(* A stream that held and does not now has lapsed.                         *)
LEMMA OnceAndNoLonger ==
  ASSUME Typed, NEW s, Once(s, day), ~Building[s][Vouched][day]
  PROVE  Lapses(s)
<1>1. PICK d \in Days : d <= day /\ Building[s][Vouched][d]
  BY DEF Once
<1>2. d # day
  BY <1>1
<1>3. day \in Days /\ d < day
  BY <1>1, <1>2 DEF Typed, WorldTyped, Days
<1> QED BY <1>1, <1>3 DEF Lapses

(* What a fetch puts in place of a stream.                                 *)
LEMMA Fetched ==
  ASSUME Typed, Dependable, Unforgeable, Genuine(tree, day), FetchServed
  PROVE  \/ tree' = tree
         \/ \E s \in Streams :
              /\ tree' = [tree EXCEPT !.inputs.streams[index] = s]
              /\ s \in Range(Channels[index])
              /\ Building[s][Vouched][day]
              /\ Lapses(Held) \/ DateOf(Held) < DateOf(s)
<1>1. index \in ChannelIds
  BY FetchShape
<1> DEFINE takes(x, good, holds) ==
             tree' = IF good /\ Replaces(x, Held, holds)
                     THEN [tree EXCEPT !.inputs.streams[index] = x] ELSE tree
<1>0. PICK s \in Served(index) : \E good \in Verdicts(s), holds \in Verdicts(Held) :
        s \in Streams /\ takes(s, good, holds)
  BY FetchShape
<1>2. PICK good \in Verdicts(s), holds \in Verdicts(Held) :
        s \in Streams /\ takes(s, good, holds)
  BY <1>0
<1>3. CASE ~(good /\ Replaces(s, Held, holds))
  BY <1>2, <1>3
<1>4. CASE good /\ Replaces(s, Held, holds)
  <2>1. Building[s][Vouched][day]
    BY <1>2, <1>4, OneVerdict
  <2>2. day \in Days
    BY DEF Typed, WorldTyped
  <2>3. s \notin Forged
    BY <2>1, <2>2 DEF Unforgeable
  <2>4. PICK k \in UpTo(out[index]) : s = Channels[index][k]
    BY <1>0, <2>3 DEF Served
  <2>5. /\ Channels[index] \in Seq(Streams)
        /\ out[index] \in DOMAIN Channels[index]
    BY <1>1, StreamRefreshAssumption DEF ChannelIds, Typed, WorldTyped
  <2>6. k \in DOMAIN Channels[index]
    BY <2>4, <2>5 DEF UpTo
  <2>7. s \in Range(Channels[index])
    BY <2>4, <2>6 DEF Range
  <2>8. Held \in Streams /\ Once(Held, day)
    BY <1>1, TreeParts DEF Held, Genuine, Typed, RunTyped
  <2>9. Lapses(Held) \/ DateOf(Held) < DateOf(s)
    <3>1. CASE holds
      BY <1>4, <3>1 DEF Replaces
    <3>2. CASE ~holds
      BY <1>2, <2>8, <3>2, OneVerdict, OnceAndNoLonger
    <3> QED BY <3>1, <3>2
  <2>10. tree' = [tree EXCEPT !.inputs.streams[index] = s]
    BY <1>2, <1>4
  <2> QED BY <1>2, <2>1, <2>7, <2>9, <2>10
<1> QED BY <1>3, <1>4

LEMMA FetchedBundle ==
  ASSUME Typed, Genuine(tree, day), FetchBundleServed
  PROVE  /\ index \in IssuerIds
         /\ \E b \in Bundles :
              /\ tree' = [tree EXCEPT !.inputs.bundles[index] = b]
              /\ b \in Range(Issuers[index])
<1>1. PICK b \in ServedBundles(index) : FetchBundle(b)
  BY DEF FetchBundleServed
<1>2. index \in IssuerIds
  BY <1>1, StreamRefreshAssumption
     DEF FetchBundle, BundlesDone, IssuerIds, Typed, RunTyped
<1>3. b \in Bundles
  BY <1>1, <1>2, ServedAreBundles
<1>4. b \in Range(Issuers[index])
  <2>1. CASE b = tree.inputs.bundles[index]
    BY <1>2, <2>1 DEF Genuine
  <2>2. CASE b # tree.inputs.bundles[index]
    <3>1. PICK k \in UpTo(issued[index]) : b = Issuers[index][k]
      BY <1>1, <2>2 DEF ServedBundles
    <3>2. Issuers[index] \in Seq(Bundles) /\ issued[index] \in DOMAIN Issuers[index]
      BY <1>2, StreamRefreshAssumption DEF IssuerIds, Typed, WorldTyped
    <3>3. k \in DOMAIN Issuers[index]
      BY <3>1, <3>2 DEF UpTo
    <3> QED BY <3>1, <3>3 DEF Range
  <2> QED BY <2>1, <2>2
<1> QED BY <1>1, <1>2, <1>3, <1>4 DEF FetchBundle

(* Time and fetches leave what is genuine genuine.                         *)
LEMMA GenuineLater ==
  ASSUME NEW t, NEW n \in Nat, NEW m \in Nat, n <= m, Genuine(t, n)
  PROVE  Genuine(t, m)
<1>1. \A d \in Days : d <= n => d <= m
  BY DEF Days
<1> QED BY <1>1 DEF Genuine, Once

LEMMA FetchedGenuine ==
  ASSUME Typed, Dependable, Unforgeable, Genuine(tree, day),
         FetchServed \/ FetchBundleServed
  PROVE  Genuine(tree', day)
<1>1. tree \in Tree /\ tree.inputs.streams \in [ChannelIds -> Streams]
      /\ tree.inputs.bundles \in [IssuerIds -> Bundles]
  BY TreeParts DEF Typed, RunTyped
<1>2. CASE tree' = tree
  BY <1>2
<1>3. ASSUME FetchServed,
             NEW s \in Streams, tree' = [tree EXCEPT !.inputs.streams[index] = s],
             Building[s][Vouched][day]
      PROVE  Genuine(tree', day)
  <2>1. index \in ChannelIds
    BY <1>3, FetchShape
  <2>2. /\ tree'.inputs.streams = [tree.inputs.streams EXCEPT ![index] = s]
        /\ tree'.inputs.bundles = tree.inputs.bundles
    <3>1. LET after == [tree EXCEPT !.inputs.streams[index] = s] IN
            /\ after.inputs.streams = [tree.inputs.streams EXCEPT ![index] = s]
            /\ after.inputs.bundles = tree.inputs.bundles
      BY <1>1, <2>1, StreamReplaced
    <3> QED BY <1>3, <3>1, Zenon
  <2>3. Once(s, day)
    BY <1>3 DEF Once, Typed, WorldTyped, Days
  <2>4. ASSUME NEW i \in ChannelIds PROVE Once(tree'.inputs.streams[i], day)
    <3>1. tree'.inputs.streams[i] = IF i = index THEN s ELSE tree.inputs.streams[i]
      BY <1>1, <2>2
    <3> QED BY <2>3, <3>1 DEF Genuine
  <2> QED BY <2>2, <2>4 DEF Genuine
<1>4. ASSUME FetchBundleServed, NEW b \in Bundles,
             tree' = [tree EXCEPT !.inputs.bundles[index] = b], b \in Range(Issuers[index])
      PROVE  Genuine(tree', day)
  <2>1. index \in IssuerIds
    BY <1>4, FetchedBundle
  <2>2. /\ tree'.inputs.bundles = [tree.inputs.bundles EXCEPT ![index] = b]
        /\ tree'.inputs.streams = tree.inputs.streams
    BY <1>1, <1>4, <2>1, BundleReplaced
  <2>3. ASSUME NEW j \in IssuerIds PROVE tree'.inputs.bundles[j] \in Range(Issuers[j])
    <3>1. tree'.inputs.bundles[j] = IF j = index THEN b ELSE tree.inputs.bundles[j]
      BY <1>1, <2>2
    <3> QED BY <1>4, <3>1 DEF Genuine
  <2> QED BY <2>2, <2>3 DEF Genuine
<1> QED BY <1>2, <1>3, <1>4, Fetched, FetchedBundle

LEMMA SourcedAlways ==
  ASSUME Dependable, Unforgeable, HandedOver
  PROVE  Spec => []Sourced
<1>1. Init => Sourced
  <2> SUFFICES ASSUME Init PROVE Sourced
    OBVIOUS
  <2>1. /\ \A i \in ChannelIds : head.inputs.streams[i] = Channels[i][1]
        /\ \A j \in IssuerIds : head.inputs.bundles[j] = Issuers[j][1]
        /\ tree = head /\ branch = NoBranch
    BY DEF Init
  <2>2. 1 \in Days /\ 1 <= day
    BY StreamVerifyAssumption DEF Init, Days
  <2>3. \A j \in IssuerIds : 1 \in DOMAIN Issuers[j]
    BY StreamRefreshAssumption DEF IssuerIds
  <2>4. \A j \in IssuerIds : Issuers[j][1] \in Range(Issuers[j])
    BY <2>3 DEF Range
  <2>5. Genuine(head, day)
    BY <2>1, <2>2, <2>4 DEF Genuine, Once, HandedOver
  <2>6. \A r \in Runners : ~InScript(r)
    BY DEF Init, InScript, NoScript
  <2> QED BY <2>1, <2>5, <2>6 DEF Sourced
<1>2. Typed /\ Sourced /\ [Next]_vars => Sourced'
  <2> SUFFICES ASSUME Typed, Sourced, [Next]_vars PROVE Sourced'
    OBVIOUS
  <2>1. Sourced' <=>
          /\ Genuine(head', day') /\ Genuine(tree', day')
          /\ \A r \in Runners : InScript(r)' => Genuine(scripts'[r].files, day')
          /\ branch' # NoBranch => Genuine(branch', day')
    BY DEF Sourced, Genuine, Once
  <2>2. /\ Genuine(head, day) /\ Genuine(tree, day)
        /\ \A r \in Runners : InScript(r) => Genuine(scripts[r].files, day)
        /\ branch # NoBranch => Genuine(branch, day)
    BY DEF Sourced
  (* A step of the run under way.                                          *)
  <2>3. ASSUME UNCHANGED <<day, head, scripts, prVars>>, Genuine(tree', day)
        PROVE  Sourced'
    BY <2>1, <2>2, <2>3 DEF InScript, prVars
  (* A step of any other.                                                  *)
  <2>4. ASSUME day' = day, tree' \in {tree, head'},
               head' = head \/ (head' = branch /\ branch # NoBranch),
               \A q \in Runners : InScript(q)' =>
                 InScript(q) /\ scripts'[q].files = scripts[q].files,
               \/ branch' \in {branch, NoBranch}
               \/ \E r \in Runners : InScript(r) /\ branch' = scripts[r].files
        PROVE  Sourced'
    BY <2>1, <2>2, <2>4
  <2>5. CASE World \/ UNCHANGED vars
    <3>1. /\ UNCHANGED <<head, tree, scripts, branch>> /\ day' \in {day, day + 1}
      BY <2>5 DEF World, DayPasses, Publish, Issue, vars, worldVars, runVars, prVars
    <3>2. day \in Nat /\ day' \in Nat /\ day <= day'
      BY <3>1 DEF Typed, WorldTyped, Days
    <3>3. \A t : Genuine(t, day) => Genuine(t, day')
      BY <3>2, GenuineLater
    <3> QED BY <2>1, <2>2, <3>1, <3>3 DEF InScript
  <2>6. ASSUME NEW isCalm, RunStarts(isCalm) PROVE Sourced'
    BY <2>2, <2>3, <2>6 DEF RunStarts, worldVars
  <2>7. CASE FetchFails
    BY <2>2, <2>3, <2>7 DEF FetchFails, worldVars
  <2>8. CASE FetchServed \/ FetchBundleServed
    <3>1. UNCHANGED <<day, head, scripts, prVars>>
      BY <2>8 DEF FetchServed, Fetch, FetchBundleServed, FetchBundle, worldVars
    <3>2. Genuine(tree', day)
      BY <2>2, <2>8, FetchedGenuine
    <3> QED BY <2>3, <3>1, <3>2
  <2>9. CASE NothingMoved \/ GenerateFails \/ JobDies
    BY <2>2, <2>3, <2>9 DEF NothingMoved, GenerateFails, JobDies, Ends, worldVars
  <2>10. CASE SomethingMoved
    BY <2>2, <2>3, <2>10 DEF SomethingMoved, worldVars
  <2>11. ASSUME NEW e \in EnvIds, Generate(e) PROVE Sourced'
    <3>1. tree \in Tree /\ MaterialOf(Environments[e], tree.inputs) \in Material
      BY MaterialOfType, EnvironmentsAreTyped, TreeParts DEF Typed, RunTyped
    <3>2. tree'.inputs = tree.inputs
      BY <2>11, <3>1, StoreReplaced DEF Generate
    <3>3. Genuine(tree', day)
      BY <2>2, <3>2 DEF Genuine
    <3> QED BY <2>3, <2>11, <3>3 DEF Generate, worldVars
  <2>12. ASSUME NEW r \in Runners, ScriptStarts(r) PROVE Sourced'
    <3>1. tree' = head /\ UNCHANGED <<day, head, branch>>
      BY <2>12 DEF ScriptStarts, Ends, worldVars, prVars
    <3>2. \A q \in Runners : InScript(q)' => Genuine(scripts'[q].files, day)
      BY <2>2, <2>12, ScriptEnters DEF InScript
    <3> QED BY <2>1, <2>2, <3>1, <3>2
  <2>13. ASSUME NEW r \in Runners, ScriptStep(r) \/ ScriptDies(r) PROVE Sourced'
    <3>1. \A q \in Runners : InScript(q)' =>
            InScript(q) /\ scripts'[q].files = scripts[q].files
      BY <2>13, ScriptAdvances DEF Typed
    <3>2. /\ UNCHANGED <<day, head, tree>>
          /\ branch' = branch \/ (InScript(r) /\ branch' = scripts[r].files)
      BY <2>13 DEF ScriptStep, ScriptDies, FindsOpen, FindsNone, PushForced, Create, InScript,
                   worldVars, runVars, prVars
    <3> QED BY <2>4, <3>1, <3>2
  <2>14. CASE Review
    BY <2>4, <2>14 DEF Review, worldVars, runVars, InScript
  <2>15. CASE Merge
    <3>1. \A q \in Runners : InScript(q)' =>
            InScript(q) /\ scripts'[q].files = scripts[q].files
      BY <2>15, ScriptsFallBehind DEF Typed
    <3>2. branch # NoBranch
      BY <2>15, NoBranchAssumption DEF Merge, Typed, PrTyped
    <3>3. /\ day' = day /\ head' = branch /\ branch' = NoBranch /\ tree' \in {tree, head'}
      BY <2>15 DEF Merge, worldVars
    <3> QED BY <2>4, <3>1, <3>2, <3>3
  <2>16. CASE CloseUnmergeable \/ CloseUnmerged
    <3>1. UNCHANGED <<day, head, tree, scripts>> /\ branch' \in {branch, NoBranch}
      BY <2>16 DEF CloseUnmergeable, CloseUnmerged, Close, worldVars, runVars
    <3> QED BY <2>4, <3>1 DEF InScript
  <2> QED BY <2>5, <2>6, <2>7, <2>8, <2>9, <2>10, <2>11, <2>12, <2>13, <2>14, <2>15, <2>16
          DEF Next, Step
<1> QED BY <1>1, <1>2, TypedAlways, PTL DEF Spec

(* What a run has in hand goes on following what is committed.             *)
LEMMA ChannelsAreNumbered == ChannelIds \subseteq Nat
BY StreamRefreshAssumption DEF ChannelIds

LEMMA FollowedFetch ==
  ASSUME Typed, Dependable, Unforgeable, Sourced, FetchServed,
         NewerOrRepaired(tree.inputs, head.inputs), Untouched(tree, index)
  PROVE  NewerOrRepaired(tree'.inputs, head.inputs) /\ Untouched(tree', index + 1)
<1>1. /\ tree \in Tree /\ tree.inputs.streams \in [ChannelIds -> Streams]
      /\ index \in ChannelIds
  BY TreeParts, FetchShape DEF Typed, RunTyped
<1>2. Genuine(tree, day)
  BY DEF Sourced, FetchServed
<1>3. CASE tree' = tree
  <2>1. Untouched(tree, index + 1)
    BY <1>1, ChannelsAreNumbered DEF Untouched
  <2> QED BY <1>3, <2>1 DEF Untouched
<1>4. ASSUME NEW s \in Streams, tree' = [tree EXCEPT !.inputs.streams[index] = s],
             s \in Range(Channels[index]), Lapses(Held) \/ DateOf(Held) < DateOf(s)
      PROVE  NewerOrRepaired(tree'.inputs, head.inputs) /\ Untouched(tree', index + 1)
  <2>1. LET after == [tree EXCEPT !.inputs.streams[index] = s] IN
          /\ after.inputs.streams = [tree.inputs.streams EXCEPT ![index] = s]
          /\ after.inputs.bundles = tree.inputs.bundles
    BY <1>1, StreamReplaced
  <2>2. /\ tree'.inputs.streams = [tree.inputs.streams EXCEPT ![index] = s]
        /\ tree'.inputs.bundles = tree.inputs.bundles
    BY <1>4, <2>1, Zenon
  <2>3. Held = head.inputs.streams[index]
    BY <1>1, ChannelsAreNumbered DEF Held, Untouched
  <2>4. \A i \in ChannelIds :
          tree'.inputs.streams[i] = IF i = index THEN s ELSE tree.inputs.streams[i]
    BY <1>1, <2>2
  <2>5. NewerOrRepaired(tree'.inputs, head.inputs)
    BY <1>4, <2>2, <2>3, <2>4 DEF NewerOrRepaired
  <2>6. \A i \in ChannelIds : i >= index + 1 => i # index /\ i >= index
    BY <1>1, ChannelsAreNumbered
  <2>7. Untouched(tree', index + 1)
    BY <2>4, <2>6 DEF Untouched
  <2> QED BY <2>5, <2>7
<1> QED BY <1>2, <1>3, <1>4, Fetched

LEMMA FollowedBundle ==
  ASSUME Typed, Sourced, FetchBundleServed, NewerOrRepaired(tree.inputs, head.inputs)
  PROVE  NewerOrRepaired(tree'.inputs, head.inputs)
<1>1. tree \in Tree /\ tree.inputs.bundles \in [IssuerIds -> Bundles]
  BY TreeParts DEF Typed, RunTyped
<1>2. Genuine(tree, day)
  BY DEF Sourced, FetchBundleServed
<1>3. index \in IssuerIds
  BY <1>2, FetchedBundle
<1>4. PICK b \in Bundles : /\ tree' = [tree EXCEPT !.inputs.bundles[index] = b]
                           /\ b \in Range(Issuers[index])
  BY <1>2, FetchedBundle
<1>5. LET after == [tree EXCEPT !.inputs.bundles[index] = b] IN
        /\ after.inputs.bundles = [tree.inputs.bundles EXCEPT ![index] = b]
        /\ after.inputs.streams = tree.inputs.streams
  BY <1>1, <1>3, BundleReplaced
<1>6. /\ tree'.inputs.bundles = [tree.inputs.bundles EXCEPT ![index] = b]
      /\ tree'.inputs.streams = tree.inputs.streams
  BY <1>4, <1>5, Zenon
<1>7. \A j \in IssuerIds :
        tree'.inputs.bundles[j] = IF j = index THEN b ELSE tree.inputs.bundles[j]
  BY <1>1, <1>6
<1> QED BY <1>4, <1>6, <1>7 DEF NewerOrRepaired

LEMMA FollowedAlways ==
  ASSUME Dependable, Unforgeable, HandedOver
  PROVE  Spec => []Followed
<1>1. Init => Followed
  BY DEF Init, Followed, InScript, NoScript
<1>2. Typed /\ Sourced /\ Followed /\ [Next]_vars => Followed'
  <2> SUFFICES ASSUME Typed, Sourced, Followed, [Next]_vars PROVE Followed'
    OBVIOUS
  <2> DEFINE follows(t, h) == NewerOrRepaired(t.inputs, h.inputs)
             untouched(t, h, n) ==
               \A i \in ChannelIds : i >= n => t.inputs.streams[i] = h.inputs.streams[i]
  <2>1. Followed' <=>
          /\ pc' # "idle" /\ ~behind' => follows(tree', head')
          /\ pc' = "fetch" /\ ~behind' => untouched(tree', head', index')
          /\ \A r \in Runners :
               InScript(r)' /\ ~scripts'[r].behind => follows(scripts'[r].files, head')
          /\ branch' # NoBranch /\ ~conflict' => follows(branch', head')
    BY DEF Followed, Untouched, NewerOrRepaired
  <2>2. /\ pc # "idle" /\ ~behind => follows(tree, head)
        /\ pc = "fetch" /\ ~behind => untouched(tree, head, index)
        /\ \A r \in Runners :
             InScript(r) /\ ~scripts[r].behind => follows(scripts[r].files, head)
        /\ branch # NoBranch /\ ~conflict => follows(branch, head)
    BY DEF Followed, Untouched
  <2>3. follows(head, head) /\ \A n : untouched(head, head, n)
    BY DEF Sourced, Genuine, NewerOrRepaired
  <2> HIDE DEF follows, untouched
  (* A step of the run under way.                                          *)
  <2>4. ASSUME UNCHANGED <<head, scripts, prVars>>,
               pc' # "idle" /\ ~behind' => follows(tree', head),
               pc' = "fetch" /\ ~behind' => untouched(tree', head, index')
        PROVE  Followed'
    BY <2>1, <2>2, <2>4 DEF InScript, prVars
  (* A step of any other that leaves what is committed.                    *)
  <2>5. ASSUME UNCHANGED <<head, tree, behind, pc, index>>,
               \A q \in Runners : InScript(q)' =>
                 /\ InScript(q) /\ scripts'[q].files = scripts[q].files
                 /\ scripts'[q].behind = scripts[q].behind,
               \/ UNCHANGED <<branch, conflict>> \/ branch' = NoBranch
               \/ \E r \in Runners : /\ InScript(r) /\ branch' = scripts[r].files
                                     /\ conflict' = scripts[r].behind
        PROVE  Followed'
    BY <2>1, <2>2, <2>5
  <2>6. CASE World \/ UNCHANGED vars
    <3>1. UNCHANGED <<head, tree, behind, pc, index, scripts, branch, conflict>>
      BY <2>6 DEF World, DayPasses, Publish, Issue, vars, runVars, prVars
    <3> QED BY <2>5, <3>1 DEF InScript
  <2>7. ASSUME NEW isCalm, RunStarts(isCalm) PROVE Followed'
    <3>1. /\ tree' = head /\ UNCHANGED <<head, scripts, prVars>>
      BY <2>7 DEF RunStarts, Typed
    <3> QED BY <2>3, <2>4, <3>1
  <2>8. CASE FetchFails \/ FetchServed
    <3>1. /\ pc = "fetch" /\ FetchDone /\ UNCHANGED <<head, behind, scripts, prVars>>
      BY <2>8 DEF FetchFails, FetchServed, Fetch
    <3>2. /\ pc' = "fetch" => index' = index + 1
          /\ index \in Nat
      BY <3>1, FetchPlaces DEF Typed, RunTyped
    <3>3. ~behind => follows(tree', head) /\ untouched(tree', head, index + 1)
      <4>1. CASE FetchServed
        BY <2>2, <3>1, <4>1, FollowedFetch DEF Untouched, follows, untouched
      <4>2. CASE FetchFails
        <5>1. tree' = tree
          BY <4>2 DEF FetchFails
        <5>2. untouched(tree, head, index) => untouched(tree, head, index + 1)
          BY <3>2, ChannelsAreNumbered DEF untouched
        <5> QED BY <2>2, <3>1, <5>1, <5>2
      <4> QED BY <2>8, <4>1, <4>2
    <3> QED BY <2>4, <3>1, <3>2, <3>3
  <2>9. CASE FetchBundleServed
    <3>1. /\ pc = "bundle" /\ pc' = "bundle" /\ UNCHANGED <<head, behind, scripts, prVars>>
      BY <2>9 DEF FetchBundleServed, FetchBundle, Goes
    <3>2. ~behind => follows(tree', head)
      BY <2>2, <2>9, <3>1, FollowedBundle DEF follows
    <3> QED BY <2>4, <3>1, <3>2
  <2>10. CASE NothingMoved \/ GenerateFails \/ JobDies
    BY <2>4, <2>10 DEF NothingMoved, GenerateFails, JobDies, Ends, Goes
  <2>11. CASE SomethingMoved
    BY <2>2, <2>4, <2>11 DEF SomethingMoved, Goes
  <2>12. ASSUME NEW e \in EnvIds, Generate(e) PROVE Followed'
    <3>1. tree \in Tree /\ MaterialOf(Environments[e], tree.inputs) \in Material
      BY MaterialOfType, EnvironmentsAreTyped, TreeParts DEF Typed, RunTyped
    <3>2. tree'.inputs = tree.inputs
      BY <2>12, <3>1, StoreReplaced DEF Generate
    <3>3. follows(tree', head) <=> follows(tree, head)
      BY <3>2 DEF follows
    <3>4. pc = "generate" /\ pc' \in {"generate", "propose"}
          /\ UNCHANGED <<head, behind, scripts, prVars>>
      BY <2>12 DEF Generate, Goes
    <3> QED BY <2>2, <2>4, <3>3, <3>4
  <2>13. ASSUME NEW r \in Runners, ScriptStarts(r) PROVE Followed'
    <3>1. /\ pc = "propose" /\ pc' = "idle" /\ UNCHANGED <<head, branch, conflict>>
      BY <2>13 DEF ScriptStarts, Ends, Goes, prVars
    <3>2. ASSUME NEW q \in Runners, InScript(q)', ~scripts'[q].behind
          PROVE  follows(scripts'[q].files, head)
      <4>1. CASE q = r
        BY <2>2, <2>13, <3>1, <3>2, <4>1, ScriptEnters
      <4>2. CASE q # r
        BY <2>2, <2>13, <3>2, <4>2, ScriptEnters DEF InScript
      <4> QED BY <4>1, <4>2
    <3> QED BY <2>1, <2>2, <3>1, <3>2
  <2>14. ASSUME NEW r \in Runners, ScriptStep(r) \/ ScriptDies(r) PROVE Followed'
    <3>1. \A q \in Runners : InScript(q)' =>
            /\ InScript(q) /\ scripts'[q].files = scripts[q].files
            /\ scripts'[q].behind = scripts[q].behind
      BY <2>14, ScriptAdvances DEF Typed
    <3>2. /\ UNCHANGED <<head, tree, behind, pc, index>>
          /\ \/ UNCHANGED <<branch, conflict>>
             \/ /\ InScript(r) /\ branch' = scripts[r].files
                /\ conflict' = scripts[r].behind
      BY <2>14 DEF ScriptStep, ScriptDies, FindsOpen, FindsNone, PushForced, Create, InScript,
                   runVars, prVars
    <3> QED BY <2>5, <3>1, <3>2
  <2>15. CASE Review
    <3>1. UNCHANGED <<head, tree, behind, pc, index, scripts, branch, conflict>>
      BY <2>15 DEF Review, runVars
    <3> QED BY <2>5, <3>1 DEF InScript
  <2>16. CASE Merge
    <3>1. \A q \in Runners : InScript(q)' => scripts'[q].behind
      BY <2>16, ScriptsFallBehind DEF Typed
    <3>2. branch' = NoBranch /\ pc' = pc /\ (pc # "idle" => behind')
      BY <2>16 DEF Merge
    <3> QED BY <2>1, <3>1, <3>2
  <2>17. CASE CloseUnmergeable \/ CloseUnmerged
    <3>1. /\ UNCHANGED <<head, tree, behind, pc, index, scripts>>
          /\ UNCHANGED <<branch, conflict>> \/ branch' = NoBranch
      BY <2>17 DEF CloseUnmergeable, CloseUnmerged, Close, runVars
    <3> QED BY <2>5, <3>1 DEF InScript
  <2> QED BY <2>6, <2>7, <2>8, <2>9, <2>10, <2>11, <2>12, <2>13, <2>14, <2>15, <2>16, <2>17
          DEF Next, Step
<1> QED BY <1>1, <1>2, TypedAlways, SourcedAlways, PTL DEF Spec

(* THEOREM Implements: where responders answer alike and nobody can forge  *)
(* a stream, what is merged is made of the streams merged with it, and no  *)
(* stream is followed by an earlier one, but where it ceased to verify:    *)
(* runs may overlap with reviews, and with each other, as they will.       *)
THEOREM Implements ==
  ASSUME Dependable, Unforgeable, HandedOver
  PROVE  Spec => ImplementsCommittedStore
<1>1. Init => Committed!Init
  BY DEF Init, Committed!Init
<1>2. ASSUME Typed, StoresFollow, Followed, [Next]_vars
      PROVE  [Committed!Next]_(Committed!vars)
  <2> SUFFICES ASSUME <<head.inputs, head.stores>>' # <<head.inputs, head.stores>>
               PROVE  Committed!Next
    BY DEF Committed!vars
  <2>1. head' # head
    OBVIOUS
  <2>2. Merge
    BY <1>2, <2>1
       DEF Next, vars, World, DayPasses, Publish, Issue, RunStarts, Step, FetchFails,
           FetchServed, Fetch, FetchBundleServed, FetchBundle, NothingMoved,
           SomethingMoved, Generate, GenerateFails, ScriptStarts, ScriptStep, FindsOpen,
           FindsNone, PushForced, Create, ScriptDies, JobDies, Review, Close,
           CloseUnmergeable, CloseUnmerged
  <2>3. head' = branch /\ branch # NoBranch /\ ~conflict
    BY <1>2, <2>2, NoBranchAssumption DEF Merge, Mergeable, Typed, PrTyped
  <2>4. /\ NewerOrRepaired(branch.inputs, head.inputs)
        /\ branch.stores = Generated(branch.inputs)
    BY <1>2, <2>3 DEF Followed, StoresFollow, Made
  <2>5. /\ NewerOrRepaired(head.inputs', head.inputs)
        /\ head.stores' = Generated(head.inputs')
    BY <2>3, <2>4
  <2> QED BY <2>5 DEF Committed!Next, Committed!Commit
<1> QED BY <1>1, <1>2, TypedAlways, StoresFollowAlways, FollowedAlways, PTL
        DEF Spec, ImplementsCommittedStore, Committed!Spec

-----------------------------------------------------------------------------
(* While no run has started beside another, at most one is under way, and  *)
(* one that is about to push or has pushed found no pull request open.     *)
Pushing(r) == scripts[r].at \in {"push", "create"}

OneByOne ==
  /\ \A q, r \in Runners : InScript(q) /\ InScript(r) => q = r
  /\ pc # "idle" => NoneInScript
  /\ \A r \in Runners : Pushing(r) => pr = "none"

Alone == beside = 0 => OneByOne

(* THEOREM ReviewUntouched: where no run starts beside another, what a     *)
(* pull request proposes stays until it is merged or closed: refresh-pr.sh *)
(* pushes nothing over a branch that is under review.                      *)
THEOREM ReviewUntouched == Spec => ReviewKeepsItsBranch
<1>1. Init => Alone
  BY DEF Init, Alone, OneByOne, Pushing, InScript, NoneInScript, NoScript
<1>2. Typed /\ Alone /\ [Next]_vars => Alone'
  <2> SUFFICES ASSUME Typed, Alone, [Next]_vars, beside' = 0 PROVE OneByOne'
    BY DEF Alone
  <2>1. /\ beside = 0
        /\ \A isCalm : RunStarts(isCalm) => NoneInScript
    <3>1. beside \in Nat
      BY StreamRefreshAssumption DEF Typed, WorldTyped, Setting
    <3>2. ASSUME NEW isCalm, RunStarts(isCalm) PROVE beside = 0 /\ NoneInScript
      BY <3>1, <3>2 DEF RunStarts
    <3>3. ASSUME ~ \E isCalm \in BOOLEAN : RunStarts(isCalm) PROVE beside' = beside
      BY <3>3 DEF Next, vars, counts, World, DayPasses, Publish, Issue, Step, FetchFails,
           FetchServed, Fetch, FetchBundleServed, FetchBundle, NothingMoved,
           SomethingMoved, Generate, GenerateFails, ScriptStarts, ScriptStep, FindsOpen,
           FindsNone, PushForced, Create, ScriptDies, JobDies, Review, Merge, Close,
           CloseUnmergeable, CloseUnmerged
    <3> QED BY <3>2, <3>3
  <2>2. OneByOne
    BY <2>1 DEF Alone
  <2>3. ASSUME UNCHANGED <<scripts, pr>>, pc' = "idle" \/ pc # "idle" PROVE OneByOne'
    BY <2>2, <2>3 DEF OneByOne, Pushing, InScript, NoneInScript
  <2>4. CASE World \/ UNCHANGED vars
    BY <2>3, <2>4 DEF World, DayPasses, Publish, Issue, vars, runVars, prVars
  <2>5. ASSUME NEW isCalm, RunStarts(isCalm) PROVE OneByOne'
    BY <2>1, <2>2, <2>5
       DEF RunStarts, OneByOne, Pushing, InScript, NoneInScript, prVars
  <2>6. CASE Step /\ ~ \E r \in Runners : ScriptStarts(r)
    BY <2>3, <2>6
       DEF Step, FetchFails, FetchServed, Fetch, FetchBundleServed, FetchBundle,
           NothingMoved, SomethingMoved, Generate, GenerateFails, Ends, Goes, prVars
  <2>7. CASE JobDies
    BY <2>3, <2>7 DEF JobDies, Ends, Goes, prVars
  <2>8. ASSUME NEW r \in Runners, ScriptStarts(r) PROVE OneByOne'
    <3>1. pc' = "idle" /\ NoneInScript
      BY <2>2, <2>8 DEF ScriptStarts, Ends, Goes, OneByOne
    <3>2. \A q \in Runners : q # r => ~InScript(q)' /\ ~Pushing(q)'
      BY <2>8, <3>1, ScriptEnters DEF NoneInScript, InScript, Pushing
    <3>3. ~Pushing(r)'
      BY <2>8, ScriptEnters DEF Pushing
    <3> QED BY <3>1, <3>2, <3>3 DEF OneByOne
  <2>9. ASSUME NEW r \in Runners, ScriptStep(r) \/ ScriptDies(r) PROVE OneByOne'
    <3>1. /\ InScript(r) /\ pc = "idle" /\ pc' = "idle"
          /\ \A q \in Runners : q # r => ~InScript(q)
      BY <2>2, <2>9 DEF OneByOne, NoneInScript, InScript, ScriptStep, ScriptDies, FindsOpen,
                        FindsNone, PushForced, Create, runVars
    <3>2. \A q \in Runners : q # r => ~InScript(q)'
      BY <2>9, <3>1, ScriptAdvances DEF Typed
    <3>3. \A q \in Runners : Pushing(q)' => InScript(q)'
      BY DEF Pushing, InScript
    <3>4. Pushing(r)' => pr' = "none"
      <4>1. CASE FindsNone(r)
        BY <4>1 DEF FindsNone, prVars
      <4>2. CASE PushForced(r)
        BY <2>2, <4>2 DEF PushForced, OneByOne, Pushing
      <4>3. CASE FindsOpen(r) \/ Create(r) \/ ScriptDies(r)
        BY <4>3 DEF FindsOpen, Create, ScriptDies, ScriptEnds, Pushing, NoScript,
                    Typed, ScriptsTyped
      <4> QED BY <2>9, <4>1, <4>2, <4>3 DEF ScriptStep
    <3> QED BY <3>1, <3>2, <3>3, <3>4 DEF OneByOne
  <2>10. CASE Review
    BY <2>2, <2>10 DEF Review, OneByOne, Pushing, InScript, NoneInScript, runVars
  <2>11. CASE Merge
    <3>1. \A q \in Runners : InScript(q)' => InScript(q)
      BY <2>11, ScriptsFallBehind DEF Typed
    <3>2. pr' = "none" /\ pc' = pc
      BY <2>11 DEF Merge
    <3> QED BY <2>2, <3>1, <3>2 DEF OneByOne, NoneInScript
  <2>12. CASE CloseUnmergeable \/ CloseUnmerged
    BY <2>2, <2>12
       DEF CloseUnmergeable, CloseUnmerged, Close, OneByOne, Pushing, InScript,
           NoneInScript, runVars
  <2> QED BY <2>4, <2>5, <2>6, <2>7, <2>8, <2>9, <2>10, <2>11, <2>12 DEF Next
<1>3. Alone /\ [Next]_vars
      => [beside = 0 /\ pr # "none" /\ pr' # "none" => branch' = branch]_vars
  <2> SUFFICES ASSUME Alone, Next, beside = 0, pr # "none", pr' # "none"
               PROVE  branch' = branch
    OBVIOUS
  <2>1. \A r \in Runners : ~PushForced(r)
    BY DEF Alone, OneByOne, Pushing, PushForced
  <2>2. CASE World \/ (\E isCalm \in BOOLEAN : RunStarts(isCalm)) \/ Step \/ JobDies
    BY <2>2 DEF World, DayPasses, Publish, Issue, RunStarts, Step, FetchFails, FetchServed,
         Fetch, FetchBundleServed, FetchBundle, NothingMoved, SomethingMoved, Generate,
         GenerateFails, ScriptStarts, JobDies, prVars
  <2>3. CASE \E r \in Runners : ScriptStep(r) \/ ScriptDies(r)
    BY <2>1, <2>3 DEF ScriptStep, ScriptDies, FindsOpen, FindsNone, Create, prVars
  <2>4. CASE Review \/ Merge \/ CloseUnmergeable \/ CloseUnmerged
    BY <2>4 DEF Review, Merge, CloseUnmergeable, CloseUnmerged, Close
  <2> QED BY <2>2, <2>3, <2>4 DEF Next
<1> QED BY <1>1, <1>2, <1>3, TypedAlways, PTL DEF Spec, ReviewKeepsItsBranch
=============================================================================
