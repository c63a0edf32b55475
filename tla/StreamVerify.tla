---------------------------- MODULE StreamVerify ----------------------------
(***************************************************************************)
(* What makes an InstallRoot stream trust material (verify.rs,             *)
(* timestamp.rs, adapters/tamp.rs).  A stream is a collection of signed    *)
(* messages.  Each must be signed by a certificate that chains to a pinned *)
(* DoD root as of the time a timestamp establishes, with the revocation    *)
(* status of the chain stapled; the timestamp's own authority is judged as *)
(* of now, and only a responder can tell its status.                       *)
(*                                                                         *)
(* A certificate is a model value; what a path validates, and on which     *)
(* days, is data.                                                          *)
(***************************************************************************)
EXTENDS Naturals, Sequences, FiniteSetsExt

CONSTANTS
  Certs,
  SubjectOf,           \* SubjectOf[c]: the name of c
  IssuerOf,            \* IssuerOf[c]: the name of its issuer
  UnitsOf,             \* UnitsOf[c]: the OUs in the name of c
  INSTALLROOT_ANCHORS, \* the pinned DoD roots
  TIMESTAMP_ANCHORS,   \* the pinned timestamping root
  Chains,              \* the paths that can be built, and their validity
  NoToken,
  MaxDay               \* bound: the last day

Days == 1..MaxDay
NoDate == 0

(* TimeOfInterest::disabled.                                               *)
NoTime == 0

Chain == [signer : Certs, via : SUBSET Certs, anchor : Certs,
          days : SUBSET Days,          \* when every position is valid
          leafEkus : SUBSET {"code_signing", "time_stamping"},
          pathEkus : SUBSET {"code_signing", "time_stamping"}]

ASSUME StreamVerifyAssumption ==
  /\ MaxDay \in Nat \ {0}
  /\ Chains \subseteq Chain
  /\ INSTALLROOT_ANCHORS \subseteq Certs /\ TIMESTAMP_ANCHORS \subseteq Certs

(* An OCSP response: whom it answers about, whom it calls good, and when   *)
(* it is current.                                                          *)
Response == [about : SUBSET Certs, good : SUBSET Certs, days : SUBSET Days]

(* A CMS SignedData.  fits: the certificates the sole SignerInfo may name; *)
(* covers: it has signed attributes with the digest of the content;        *)
(* keyOf: the certificates with the key that made the signature.           *)
SignedData == [signers : Nat, covers : BOOLEAN, carried : Seq(Certs),
               fits : SUBSET Certs, keyOf : SUBSET Certs]

Token == [sd : SignedData, ofThis : BOOLEAN, time : Days]

Entry == [op : {"add", "add_bare", "remove", "change"}, cert : Certs]

Message == [kind : {"Root", "CA", "other", "unreadable"}, updates : SUBSET Entry]

(* claims: the signingTimes its signer states.                             *)
Member == [sd : SignedData, token : Token \cup {NoToken},
           info : {"ocsp", "crls", "none"}, stapled : Seq(Response),
           claims : SUBSET Days, message : Message]

Stream == [parses : BOOLEAN, members : Seq(Member)]

MembersOf(s) == Range(s.members)

(* Whether a caller lets responders be asked, and about whom one of them   *)
(* answers that the status is good.                                        *)
Revocation == [fetches : BOOLEAN, answers : SUBSET Certs]

Stapled == [fetches |-> FALSE, answers |-> {}]
StapledAndFetched(answers) == [fetches |-> TRUE, answers |-> answers]

-----------------------------------------------------------------------------
(* One signature.                                                          *)

Among(sd) == {i \in DOMAIN sd.carried : sd.carried[i] \in sd.fits}

(* find_signer: the first one carried that fits.                           *)
FindSigner(sd) == sd.carried[Min(Among(sd))]

(* verify_signed_data.                                                     *)
SignatureHolds(sd) ==
  /\ sd.signers = 1
  /\ sd.covers
  /\ Among(sd) # {}
  /\ FindSigner(sd) \in sd.keyOf

At(toi, days) == toi = NoTime \/ toi \in days

(* staple_ocsp files the first response about a certificate, and           *)
(* check_revocation_local reads no other.                                  *)
StapledGood(c, stapled, toi) ==
  LET about == {i \in DOMAIN stapled : c \in stapled[i].about}
  IN  about # {} /\ c \in stapled[Min(about)].good /\ At(toi, stapled[Min(about)].days)

Determined(c, check) ==
  \/ StapledGood(c, check.stapled, check.toi)
  \/ check.fetch.fetches /\ c \in check.fetch.answers

(* chain_to: some path to an anchor of the check that is good for it, the  *)
(* intermediates being among those carried.                                *)
ChainTo(sd, check) ==
  \E p \in Chains :
    /\ p.signer = FindSigner(sd)
    /\ p.anchor \in check.anchors
    /\ p.via \subseteq Range(sd.carried)
    /\ At(check.toi, p.days)
    /\ check.eku \in p.leafEkus
    /\ check.ekuAcrossPath => check.eku \in p.pathEkus
    /\ check.requireRevocation =>
         \A c \in p.via \cup {p.signer} : Determined(c, check)

(* Wrong version: the status of the authority is always asked for.         *)
TokenHoldsAsking(token, revocation, today) ==
  /\ token.ofThis
  /\ token.time <= today
  /\ SignatureHolds(token.sd)
  /\ ChainTo(token.sd, [anchors |-> TIMESTAMP_ANCHORS, eku |-> "time_stamping",
                        ekuAcrossPath |-> TRUE, toi |-> today, stapled |-> <<>>,
                        requireRevocation |-> TRUE, fetch |-> revocation])

(* verified_gen_time, on a member that has a token.  The authority is      *)
(* judged as of today, and its status only by who may ask a responder.     *)
TokenHolds(token, revocation, today) ==
  /\ token.ofThis
  /\ token.time <= today
  /\ SignatureHolds(token.sd)
  /\ ChainTo(token.sd, [anchors |-> TIMESTAMP_ANCHORS, eku |-> "time_stamping",
                        ekuAcrossPath |-> TRUE, toi |-> today, stapled |-> <<>>,
                        requireRevocation |-> revocation.fetches,
                        fetch |-> revocation])

TimestampedAt(m) == IF m.token = NoToken THEN NoTime ELSE m.token.time

(* chain_signer, which asks no responder whatever the caller lets it do.   *)
ChainSigner(m) ==
  ChainTo(m.sd, [anchors |-> INSTALLROOT_ANCHORS, eku |-> "code_signing",
                 ekuAcrossPath |-> FALSE, toi |-> TimestampedAt(m),
                 stapled |-> m.stapled, requireRevocation |-> TRUE,
                 fetch |-> Stapled])

(* verify_member.                                                          *)
MemberHolds(m, revocation, today) ==
  /\ SignatureHolds(m.sd)
  /\ m.info = "ocsp"
  /\ m.token # NoToken => TokenHolds(m.token, revocation, today)
  /\ ChainSigner(m)

(* verify::stream, which the CI job "committed streams verify" runs.       *)
StreamHolds(s, revocation, today) ==
  /\ s.parses
  /\ \A m \in MembersOf(s) : MemberHolds(m, revocation, today)

-----------------------------------------------------------------------------
(* What a stream that holds is read as.                                    *)

(* Population::of.                                                         *)
PopulationOf(c) ==
  IF "NSS" \in UnitsOf[c] THEN "nss"
  ELSE IF "ECA" \in UnitsOf[c] THEN "eca"
  ELSE IF "WCF PKI" \in UnitsOf[c] THEN "wcf"
  ELSE "dod"

(* added_certificates: an add in another form than taInfo carries none.    *)
Added(s, kind) ==
  {e.cert : e \in {f \in UNION {m.message.updates :
                               m \in {n \in MembersOf(s) : n.message.kind = kind}} :
                     f.op = "add"}}

Selected(s, population) ==
  {c \in Added(s, "Root") : PopulationOf(c) = population}

NamesOf(certs) == {SubjectOf[c] : c \in certs}

(* chains_to: by name, through as many of the stream's CAs as it takes.    *)
ChainsTo(anchors, cas) ==
  LET closed(certs) ==
        \A c \in cas : IssuerOf[c] \in NamesOf(anchors \cup certs) => c \in certs
  IN  {c \in cas : \A certs \in SUBSET cas : closed(certs) => c \in certs}

(* published_date, over every member: what a timestamp establishes and     *)
(* what a signer states about itself count alike.                          *)
PublishedDate(s) ==
  LET dates == UNION {m.claims \cup ({TimestampedAt(m)} \ {NoTime}) :
                        m \in MembersOf(s)}
  IN  IF dates = {} THEN NoDate ELSE Max(dates)

(* tamp::build succeeds.                                                   *)
Builds(s, population, revocation, today) ==
  /\ StreamHolds(s, revocation, today)
  /\ \A m \in MembersOf(s) : m.message.kind # "unreadable"
  /\ Selected(s, population) # {}

(* What it returns then.                                                   *)
Inputs(s, population) ==
  [anchors |-> Selected(s, population),
   cas |-> ChainsTo(Selected(s, population), Added(s, "CA")),
   published |-> PublishedDate(s)]
=============================================================================
