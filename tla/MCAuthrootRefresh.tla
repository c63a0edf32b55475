------------------------- MODULE MCAuthrootRefresh -------------------------
(***************************************************************************)
(* Six cabinets for AuthrootRefresh.  k1 lists x and y; k1b is the same    *)
(* list under another stamp; kn, the next, has z for y and comes without a *)
(* stamp; no purpose of ku is readable; the signer of kf is not valid on   *)
(* the day it states; k2, of the day of kn, retires y and withdraws tls    *)
(* from x.  The URL of x may serve y.                                      *)
(***************************************************************************)
EXTENDS AuthrootRefresh, TLC

CONSTANTS x, y, z, ca, tls, k1, k1b, kn, ku, kf, k2

MCCerts == {x, y, z, ca}
MCCabs == {k1, k1b, kn, ku, kf, k2}
MCEnvs == <<Every, tls>>
MCPackagingOf == [c \in MCCabs |-> "list"]
Path(days, usage) == [anchor |-> ca, days |-> days, rootListSigner |-> usage]
MCPublished == [c \in MCCabs |-> IF c \in {k1, k1b} THEN 1 ELSE 2]
MCSignatureOf == [c \in MCCabs |->
  [covers |-> TRUE, paths |-> IF c = kf THEN {Path({1}, TRUE), Path({2}, FALSE)}
                              ELSE {Path({MCPublished[c]}, TRUE)}]]
Granted == [eku |-> {tls}, disallowedEku |-> {}, disallowedAfter |-> NoDate]
Ungranted == [eku |-> {Unreadable}, disallowedEku |-> {}, disallowedAfter |-> NoDate]
Withdrawn == [eku |-> {tls}, disallowedEku |-> {tls}, disallowedAfter |-> NoDate]
Gone == [eku |-> {tls}, disallowedEku |-> {}, disallowedAfter |-> 1]
First == [sequence |-> 1, published |-> 1, entries |-> {x, y},
          subjects |-> [e \in MCCerts |-> Granted]]
MCListIn == [c \in MCCabs |->
  CASE c = k1 -> First
    [] c = k1b -> First
    [] c = kn -> [sequence |-> 2, published |-> 2, entries |-> {x, z},
                  subjects |-> [e \in MCCerts |-> Granted]]
    [] c = kf -> [sequence |-> 4, published |-> 2, entries |-> {x},
                  subjects |-> [e \in MCCerts |-> Granted]]
    [] c = ku -> [sequence |-> 3, published |-> 2, entries |-> {x},
                  subjects |-> [e \in MCCerts |-> Ungranted]]
    [] c = k2 -> [sequence |-> 4, published |-> 2, entries |-> {x, y, z},
                  subjects |-> (x :> Withdrawn @@ y :> Gone @@ z :> Granted
                                @@ ca :> Granted)]]
MCNotAfter == [e \in MCCerts |-> 3]
MCMayServe == [e \in MCCerts |-> IF e = x THEN {x, y} ELSE {e}]
MCReleases == <<[cab |-> k1, modified |-> 1], [cab |-> k1b, modified |-> 2],
                [cab |-> kn, modified |-> NoDate], [cab |-> ku, modified |-> 3],
                [cab |-> kf, modified |-> 4], [cab |-> k2, modified |-> 5]>>
MCSettings == {[checkout |-> TRUE, mirrors |-> TRUE],
               [checkout |-> FALSE, mirrors |-> FALSE]}
=============================================================================
