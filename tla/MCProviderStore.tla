-------------------------- MODULE MCProviderStore --------------------------
(***************************************************************************)
(* Certificates and releases for the runs of ProviderStore.                *)
(*                                                                         *)
(* "a" and "a2" are one root, renewed; "w" has the key identifier of "v",  *)
(* the other provider's, and another key; "t" is an anchor without a       *)
(* certificate.  "n" and "n2" are one CA, reissued.  "o" is n's old key,   *)
(* certified by the new one; "r" is the new key, certified by the old one; *)
(* "x" is the old key, certified by the root and expired on day 2.  "u"    *)
(* has an issuer nobody sends and "f" a signature nobody's key verifies.   *)
(***************************************************************************)
EXTENDS ProviderStore

Fields(subject, key, issuer, issuerKey, signedBy) ==
  [subject |-> subject, key |-> key, id |-> key, issuer |-> issuer, akid |-> issuerKey,
   signedBy |-> signedBy]

Table ==
  [a  |-> Fields("A", "ka", "A", "ka", "ka"),
   a2 |-> Fields("A", "ka", "A", "ka", "ka"),
   v  |-> Fields("V", "kv", "V", "kv", "kv"),
   w  |-> [Fields("W", "kw", "W", "kv", "kw") EXCEPT !.id = "kv"],
   t  |-> Fields("T", "kt", "T", "kt", "kt"),
   n  |-> Fields("N", "k1", "A", "ka", "ka"),
   n2 |-> Fields("N", "k1", "A", "ka", "ka"),
   o  |-> Fields("N", "k2", "N", "k1", "k1"),
   r  |-> Fields("N", "k1", "N", "k2", "k2"),
   x  |-> Fields("N", "k2", "A", "ka", "ka"),
   u  |-> Fields("U", "ku", "Z", "kz", "kz"),
   f  |-> Fields("F", "kf", "N", "k1", "kz"),
   k  |-> Fields("K", "kk", "V", "kv", "kv")]

MCCerts == DOMAIN Table
MCAnchoring == {"a", "a2", "v", "w", "t"}
MCDecodes == MCCerts \ {"t"}
MCWithCertificate == MCAnchoring \ {"t"}
MCSubject == [c \in MCCerts |-> Table[c].subject]
MCIssuer == [c \in MCCerts |-> Table[c].issuer]
MCKeyId == [c \in MCCerts |-> Table[c].id]
MCAuthorityKeyId == [c \in MCCerts |-> Table[c].akid]
MCKey == [c \in MCCerts |-> Table[c].key]
MCSignedBy == [c \in MCCerts |-> Table[c].signedBy]
MCValidity == [c \in MCCerts |-> IF c = "x" THEN {1} ELSE {1, 2}]
MCLabel == MCSubject
MCSerial == [c \in MCCerts |-> IF c \in {"o", "r"} THEN "1" ELSE c]

Published(date, anchors, cas) ==
  [anchors |-> anchors, extraAnchors |-> <<>>, cas |-> cas, extraCas |-> <<>>, published |-> date]

MCReleases ==
  <<Published(1, <<"a">>, <<"n", "o">>),
    Published(1, <<"a">>, <<"n", "o", "x", "r", "f">>),
    Published(2, <<"a2">>, <<"n", "o">>),
    Published(2, <<"a">>, <<"n2", "n">>),
    Published(1, <<"a">>, <<"n", "u">>),
    Published(1, <<"a", "w">>, <<"n">>),
    Published(1, <<>>, <<"n">>),
    Published(1, <<"a">>, <<>>),
    [Published(1, <<"a", "a2">>, <<"n">>) EXCEPT !.extraAnchors = <<"a2">>, !.extraCas = <<"n2">>]>>

OtherEntry(id, store) ==
  [id |-> id, roots |-> [i \in {1, 2} |-> <<"v", "t">>[i]], store |-> store,
   published |-> NoDate, collected |-> 1]

OtherStore == Generate({"v"}, <<"k">>)
Good == <<OtherEntry("other", OtherStore)>>
Torn == <<OtherEntry("other", OtherStore), OtherEntry("other", Unreadable)>>
Namesake == <<OtherEntry("own", OtherStore)>>

Setting(kind, releases, other, listed) ==
  [kind |-> kind, releases |-> releases, other |-> other, listed |-> listed]

MCSettings ==
  {Setting("stream", {1, 3, 4, 6}, Good, TRUE),
   Setting("stream", {5, 7, 8, 9}, Good, TRUE),
   Setting("stream", {6}, Good, FALSE),
   Setting("cabinet", {1, 2, 3}, Torn, FALSE),
   Setting("cabinet", {5, 7, 8}, Good, TRUE),
   Setting("walk", {1, 2, 5, 8}, Namesake, FALSE)}
=============================================================================
