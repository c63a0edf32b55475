-------------------------- MODULE MCStreamRefresh --------------------------
(***************************************************************************)
(* A crate of two environments for StreamRefresh: interop from channel 1   *)
(* with a root x and the bundle it publishes, and om from channel 2.  On   *)
(* channel 1, d1b states the date of d1, and the authority that dates d2   *)
(* may not answer.  On channel 2, j0 states no date, and the authority     *)
(* that dates jl lapses after day 1.  The forged streams break one rule    *)
(* each, and date themselves last.                                         *)
(***************************************************************************)
EXTENDS StreamRefresh, TLC

CONSTANTS r, n, x, f, ta, ic, sc, fc, t1, t2, tl, c1, c2, i1, i2
CONSTANTS d1, d1b, d2, j0, jl, j2
CONSTANTS own, lifted, revoked, altered, purpose, stale, odd, b1, b2

MCCerts == {r, n, x, f, ta, ic, sc, fc, t1, t2, tl, c1, c2, i1, i2}
MCGenuine == {d1, d1b, d2, j0, jl, j2}
MCForged == {own, lifted, revoked, altered, purpose, stale, odd}
MCStreams == MCGenuine \cup MCForged
(* Names are certificates: every root is named by itself.                  *)
MCIssuerOf == [c \in MCCerts |->
  CASE c \in {ic, c1, c2} -> r [] c = sc -> ic [] c = fc -> f
    [] c \in {t1, t2, tl} -> ta [] c \in {i1, i2} -> x [] OTHER -> c]
MCSubjectOf == [c \in MCCerts |-> c]
MCUnitsOf == [c \in MCCerts |-> IF c = n THEN {"NSS"} ELSE {}]
All == 1..2
Code == {"code_signing"}
Time == {"time_stamping"}
Path(s, via, a, days, leaf, path) ==
  [signer |-> s, via |-> via, anchor |-> a, days |-> days,
   leafEkus |-> leaf, pathEkus |-> path]
MCChains == {Path(sc, {ic}, r, All, Code, {}), Path(fc, {}, f, All, Code, {}),
             Path(t1, {}, ta, All, Time, Time), Path(t2, {}, ta, All, Time, Time),
             Path(tl, {}, ta, {1}, Time, Time), Path(c2, {}, r, All, Time, {})}

Signed(by, carried, covers) ==
  [signers |-> 1, covers |-> covers, carried |-> carried, fits |-> {by}, keyOf |-> {by}]
TokenBy(t, time, ofThis) ==
  [sd |-> Signed(t, <<t>>, TRUE), ofThis |-> ofThis, time |-> time]
Good(days) == [about |-> {sc, ic, fc, c2}, good |-> {sc, ic, fc, c2}, days |-> days]
Bad == [about |-> {sc}, good |-> {}, days |-> All]
Adds(kind, certs) ==
  [kind |-> kind, updates |-> {[op |-> "add", cert |-> c] : c \in certs}]
Part(by, token, stapled, covers, message) ==
  [sd |-> Signed(by, <<by, ic>>, covers), token |-> token, info |-> "ocsp",
   stapled |-> stapled, claims |-> {}, message |-> message]
Of(by, token, stapled, covers, roots, cas) ==
  [parses |-> TRUE, members |-> <<Part(by, token, stapled, TRUE, Adds("Root", roots)),
                                  Part(by, token, stapled, covers, Adds("CA", cas))>>]
By(token, roots, cas) == Of(sc, token, <<Good(All)>>, TRUE, roots, cas)
MCContentOf ==
  d1 :> By(TokenBy(t1, 1, TRUE), {r, n}, {c1})
    @@ d1b :> By(TokenBy(t1, 1, TRUE), {r, n}, {c1, c2})
    @@ d2 :> By(TokenBy(t2, 2, TRUE), {r, n}, {c2, i1})
    @@ j0 :> By(NoToken, {r}, {c1})
    @@ jl :> By(TokenBy(tl, 1, TRUE), {r}, {c1, c2})
    @@ j2 :> By(TokenBy(t1, 2, TRUE), {r}, {c2})
    @@ own :> Of(fc, TokenBy(t1, 2, TRUE), <<Good(All)>>, TRUE, {f}, {})
    @@ lifted :> By(TokenBy(t1, 2, FALSE), {f}, {})
    @@ revoked :> Of(sc, TokenBy(t1, 2, TRUE), <<Bad, Good(All)>>, TRUE, {f}, {})
    @@ altered :> Of(sc, TokenBy(t1, 2, TRUE), <<Good(All)>>, FALSE, {r}, {f})
    @@ purpose :> Of(c2, TokenBy(t1, 2, TRUE), <<Good(All)>>, TRUE, {f}, {})
    @@ stale :> Of(sc, TokenBy(t1, 2, TRUE), <<Good({1})>>, TRUE, {f}, {})
    @@ odd :> By(TokenBy(t1, 2, TRUE), {n}, {})
MCChannels == <<<<d1, d1b, d2>>, <<j0, jl, j2>>>>
MCCertsIn == b1 :> {i1} @@ b2 :> {i1, i2, x} @@ NoBundle :> {}
MCIssuers == <<<<b1, b2>>>>
MCEnvironments == <<[channel |-> 1, extraRoots |-> {x}, issuer |-> 1],
                    [channel |-> 2, extraRoots |-> {}, issuer |-> 0]>>
MCVouched == {t1, t2, tl}
MCSettings == {[mirrors |-> TRUE, flaky |-> FALSE, overlaps |-> 0, late |-> FALSE],
               [mirrors |-> FALSE, flaky |-> TRUE, overlaps |-> 1, late |-> TRUE]}
MCBoth == {[mirrors |-> TRUE, flaky |-> TRUE, overlaps |-> 0, late |-> FALSE]}
=============================================================================
