------------------------------ MODULE EmvProofs ------------------------------
(***************************************************************************)
(* Proofs about EmvSession, for every set of applications and of profiles. *)
(* The authentication results are right together or not at all: an SDA     *)
(* that ran after a successful DDA would replace the issuer key under it,  *)
(* and only DdaImpliesSda keeps it from running.  Hence one invariant.     *)
(***************************************************************************)
EXTENDS EmvSession, TLAPS

EInv == TypeOK /\ KeysVerified /\ DdaProven /\ DdaImpliesSda

-----------------------------------------------------------------------------
(* What the key checks return.                                             *)

\* Recovering a certificate in place leaves well-formed records, of the same
\* application, read by the same locator.
LEMMA RecoverType ==
  ASSUME NEW db \in Data, NEW c \in Certs, NEW good \in BOOLEAN, NEW fails \in BOOLEAN
  PROVE  /\ Recover(db, c, good, fails) \in Data
         /\ Recover(db, c, good, fails).of = db.of
         /\ Recover(db, c, good, fails).by = db.by
         /\ Recover(db, c, good, fails).cert[c] = Recovered(db.cert[c], good, fails)
<1>1. Recovered(db.cert[c], good, fails) \in {"raw", "plain", "junk"}
  BY DEF Recovered, Data
<1> QED BY <1>1 DEF Recover, Data

\* A certificate verifies only if it was as the card sent it and good: once
\* recovered, it never verifies again.
LEMMA RecoveredOnce ==
  ASSUME NEW was, NEW good \in BOOLEAN, Recovered(was, good, FALSE) = "plain"
  PROVE  was = "raw" /\ good
BY DEF Recovered

\* get_issuer_pk: a key comes out only of a certificate the CA signed.
LEMMA IssuerKey ==
  ASSUME TypeOK, e_db.of # None, NEW ca \in CaKeys, NEW fault \in Faults
  PROVE  /\ IssuerChecked(ca, fault) \in Data
         /\ IssuerChecked(ca, fault).of = e_db.of
         /\ IssuerOk(ca, fault) => profile[e_db.of].iss
<1> DEFINE good == ca = "right" /\ profile[e_db.of].iss
           fails == ca = "size" \/ fault = "issuer_call"
<1>1. e_db \in Data /\ e_db.of \in Apps /\ profile[e_db.of] \in Profile
  BY ProfilesAssumption DEF TypeOK, Data
<1>2. good \in BOOLEAN /\ fails \in BOOLEAN /\ "iss" \in Certs
  BY <1>1 DEF Profile, Certs
<1>3. IssuerChecked(ca, fault) = Recover(e_db, "iss", good, fails)
  BY DEF IssuerChecked
<1>4. IssuerOk(ca, fault) => ~fails /\ IssuerChecked(ca, fault).cert["iss"] = "plain"
  BY DEF IssuerOk
<1>5. good => profile[e_db.of].iss
  OBVIOUS
<1> HIDE DEF good, fails
<1>6. /\ IssuerChecked(ca, fault) \in Data
      /\ IssuerChecked(ca, fault).of = e_db.of
      /\ IssuerChecked(ca, fault).cert["iss"] = Recovered(e_db.cert["iss"], good, fails)
  BY <1>1, <1>2, <1>3, RecoverType
<1>7. ASSUME IssuerOk(ca, fault) PROVE good
  <2>1. Recovered(e_db.cert["iss"], good, FALSE) = "plain"
    BY <1>2, <1>4, <1>6, <1>7
  <2> QED BY <1>2, <2>1, RecoveredOnce
<1> QED BY <1>5, <1>6, <1>7

-----------------------------------------------------------------------------
(* The two authentications.                                                *)

\* Where there are records their memory is there too.
LEMMA OnlyLive == ASSUME TypeOK, e_db.of # None PROVE e_files = "live"
BY DEF TypeOK, NoData

\* SDA leaves a DDA that succeeded alone: it returns at once then.
LEMMA SdaStep ==
  ASSUME EInv, NEW ca \in CaKeys, NEW fault \in Faults, Sda(ca, fault)
  PROVE  EInv'
<1> DEFINE db == IssuerChecked(ca, fault)
           after == Recover(db, "ssa", profile[db.of].ssa, fault = "call")
           verified == fault = "none" /\ after.cert["ssa"] = "plain" /\ Covered(after)
<1>1. ~e_dda_ok /\ ~e_sda_ok
  BY DEF Sda, SdaDone, EInv, DdaImpliesSda
<1>2. /\ db \in Data /\ db.of = e_db.of /\ db.of \in Apps
      /\ IssuerOk(ca, fault) => profile[db.of].iss
  BY IssuerKey DEF Sda, EInv, TypeOK, Data
<1>3. after \in Data
  <2>1. profile[db.of] \in Profile
    BY <1>2, ProfilesAssumption DEF EInv, TypeOK
  <2>2. profile[db.of].ssa \in BOOLEAN /\ "ssa" \in Certs
    BY <2>1 DEF Profile, Certs
  <2> HIDE DEF db
  <2> QED BY <1>2, <2>2, RecoverType
<1>4. /\ e_db' \in Data
      /\ e_sda_ok' \in BOOLEAN
      /\ e_iss_pk' \in Apps \union {None}
      /\ e_iss_pk' # None => profile[e_iss_pk'].iss
  <2> HIDE DEF db, after, verified
  <2>1. CASE IssuerOk(ca, fault)
    <3>1. /\ e_iss_pk' = db.of /\ e_db' = after
          /\ e_sda_ok' = (e_sda_ok \/ verified)
      BY <2>1 DEF Sda, db, after, verified
    <3>2. e_sda_ok' \in BOOLEAN
      BY <3>1 DEF verified, EInv, TypeOK
    <3> QED BY <2>1, <1>2, <1>3, <3>1, <3>2
  <2>2. CASE ~IssuerOk(ca, fault)
    BY <2>2, <1>2 DEF Sda, db, EInv, TypeOK
  <2> QED BY <2>1, <2>2
<1>5. /\ UNCHANGED <<e_app, e_aip, e_afl, e_files, e_dda_ok, e_icc_pk, ended,
                     profile, current, signed, refused>>
      /\ matched' \subseteq {"static", "icc"}
  BY DEF Sda, initiation, EInv, TypeOK
<1>6. TypeOK'
  BY <1>4, <1>5, OnlyLive DEF Sda, EInv, TypeOK
<1>7. KeysVerified'
  BY <1>4, <1>5 DEF EInv, KeysVerified
<1>8. DdaProven' /\ DdaImpliesSda'
  BY <1>1, <1>5 DEF DdaProven, DdaImpliesSda
<1> QED BY <1>6, <1>7, <1>8 DEF EInv

\* DDA succeeds only with both keys of the application that signed.
LEMMA DdaStep ==
  ASSUME EInv, NEW ca \in CaKeys, NEW samesize \in BOOLEAN, NEW pan \in BOOLEAN,
         NEW answers \in BOOLEAN, NEW fault \in Faults,
         Dda(ca, samesize, pan, answers, fault)
  PROVE  EInv'
<1> DEFINE db == IssuerChecked(ca, fault)
           after == Recover(db, "icc", TRUE, fault = "call")
           checked == fault \notin {"call", "memory"}
           headed == checked /\ after.cert["icc"] = "plain"
           certified == checked /\ IccOk(after)
           kept == certified /\ ~pan /\ fault # "key"
<1>0. e_files = "live"
  BY OnlyLive DEF Dda, EInv
<1>1. ~e_dda_ok
  BY DEF Dda
<1>2. /\ db \in Data /\ db.of = e_db.of /\ db.of \in Apps
      /\ IssuerOk(ca, fault) => profile[db.of].iss
  BY IssuerKey DEF Dda, EInv, TypeOK, Data
<1>3. after \in Data /\ after.of = db.of
  BY <1>2, RecoverType DEF Certs
<1>4. certified => profile[db.of].icc /\ headed
  BY <1>3 DEF IccOk, IccHash
<1>5. /\ UNCHANGED <<e_app, e_aip, e_afl, e_files, ended, profile, current>>
      /\ matched' \subseteq {"static", "icc"} /\ refused' \in BOOLEAN
      /\ signed' = IF e_dda_ok' THEN current ELSE signed
  BY DEF Dda, initiation, EInv, TypeOK
<1>6. CASE ~IssuerOk(ca, fault)
  <2>1. e_iss_pk' = None /\ e_db' = db /\ UNCHANGED <<e_icc_pk, e_sda_ok, e_dda_ok>>
    BY <1>6 DEF Dda
  <2> HIDE DEF db
  <2>2. TypeOK'
    BY <1>0, <1>1, <1>2, <1>5, <2>1 DEF EInv, TypeOK
  <2> QED BY <1>1, <1>5, <2>1, <2>2
          DEF EInv, KeysVerified, DdaProven, DdaImpliesSda
<1>7. CASE IssuerOk(ca, fault) /\ ~samesize
  <2>1. /\ e_iss_pk' = db.of /\ e_db' = db /\ e_icc_pk' = None
        /\ UNCHANGED <<e_sda_ok, e_dda_ok>>
    BY <1>7 DEF Dda
  <2> HIDE DEF db
  <2>2. TypeOK'
    BY <1>0, <1>1, <1>2, <1>5, <2>1 DEF EInv, TypeOK
  <2> QED BY <1>1, <1>2, <1>5, <1>7, <2>1, <2>2
          DEF EInv, KeysVerified, DdaProven, DdaImpliesSda
<1>8. CASE IssuerOk(ca, fault) /\ samesize
  <2>1. /\ e_iss_pk' = db.of /\ e_db' = after
        /\ e_sda_ok' = (e_sda_ok \/ (headed /\ ~(certified /\ pan)))
        /\ e_icc_pk' = IF kept THEN db.of ELSE None
        /\ e_dda_ok' = (kept /\ DynamicOk(after, answers))
    BY <1>8 DEF Dda
  <2>0. kept => certified /\ ~pan
    OBVIOUS
  <2> HIDE DEF db, after, certified, headed, kept
  <2>2. /\ e_sda_ok' \in BOOLEAN /\ e_dda_ok' \in BOOLEAN
        /\ e_icc_pk' \in {db.of, None}
    BY <2>1 DEF DynamicOk, EInv, TypeOK
  <2>3. e_dda_ok' => /\ kept /\ certified /\ ~pan
                     /\ current = db.of
    BY <1>3, <2>0, <2>1 DEF DynamicOk
  <2>4. TypeOK'
    <3>1. signed' \in Apps \union {None}
      BY <1>2, <1>5, <2>3 DEF EInv, TypeOK
    <3> QED BY <1>0, <1>2, <1>3, <1>5, <2>1, <2>2, <3>1 DEF EInv, TypeOK
  <2>5. KeysVerified'
    BY <1>2, <1>4, <1>5, <1>8, <2>0, <2>1 DEF KeysVerified
  <2>6. DdaProven' /\ DdaImpliesSda'
    BY <1>2, <1>4, <1>5, <2>1, <2>3, NamesAssumption DEF DdaProven, DdaImpliesSda
  <2> QED BY <2>4, <2>5, <2>6 DEF EInv
<1> QED BY <1>6, <1>7, <1>8

-----------------------------------------------------------------------------
\* The steps that clear all results.
LEMMA ResetStep ==
  ASSUME EInv, AuthReset, UNCHANGED <<e_aip, e_afl, e_db, e_files, profile>>,
         e_app' \in Apps \union {None},
         ended' \in {"no", "closed"},
         current' \in Apps \union {None, Pse}
  PROVE  EInv'
BY NamesAssumption DEF AuthReset, EInv, TypeOK, KeysVerified, DdaProven, DdaImpliesSda

\* The steps that touch no authentication result.
LEMMA OtherStep ==
  ASSUME EInv, UNCHANGED <<auth, profile, history>>, TypeOK'
  PROVE  EInv'
BY DEF auth, history, EInv, KeysVerified, DdaProven, DdaImpliesSda

\* A new session has no key and no result.
LEMMA EInit == ASSUME Init PROVE EInv
<1>1. NoData \in Data
  BY DEF NoData, Data
<1> QED BY <1>1 DEF Init, EInv, TypeOK, KeysVerified, DdaProven, DdaImpliesSda

\* Every call keeps the invariant.
LEMMA EStep == ASSUME EInv, [Next]_vars PROVE EInv'
<1> USE DEF initiation, data, auth, history
<1>0. NoData \in Data
  BY DEF NoData, Data
<1>1. ASSUME NEW a \in Apps \union {Pse}, SelectFails(a) PROVE EInv'
  <2>1. TypeOK' BY <1>1 DEF SelectFails, EInv, TypeOK
  <2> QED BY <1>1, <2>1, OtherStep DEF SelectFails
<1>2. ASSUME NEW a \in Apps, SelectUnusable(a) \/ Select(a) PROVE EInv'
  BY <1>2, ResetStep DEF SelectUnusable, Select, EInv, TypeOK
<1>3. CASE ListApps
  <2>1. TypeOK' BY <1>3 DEF ListApps, EInv, TypeOK
  <2> QED BY <1>3, <2>1, OtherStep DEF ListApps
<1>4. CASE AppInit
  <2>1. TypeOK' BY <1>4 DEF AppInit, EInv, TypeOK
  <2> QED BY <1>4, <2>1, OtherStep DEF AppInit
<1>5. ASSUME NEW how \in {"null", "assert", "freed_twice"}, Crash(how) PROVE EInv'
  <2>1. TypeOK' BY <1>5 DEF Crash, EInv, TypeOK
  <2> QED BY <1>5, <2>1, OtherStep DEF Crash
<1>6. CASE ReadAppData
  <2>1. e_db' \in Data
    BY <1>0, <1>6 DEF ReadAppData, EInv, TypeOK, Data, NoData
  <2>2. TypeOK' BY <1>6, <2>1 DEF ReadAppData, EInv, TypeOK
  <2> QED BY <1>6, <2>2, OtherStep DEF ReadAppData
<1>7. CASE ReadFails
  <2>1. TypeOK' BY <1>0, <1>7 DEF ReadFails, EInv, TypeOK
  <2> QED BY <1>7, <2>1, OtherStep DEF ReadFails
<1>8. CASE ReadOutOfMemory
  <2>1. TypeOK' BY <1>0, <1>8 DEF ReadOutOfMemory, EInv, TypeOK
  <2> QED BY <1>8, <2>1, OtherStep DEF ReadOutOfMemory
<1>9. CASE Fini
  BY <1>9, ResetStep DEF Fini, EInv, TypeOK
<1>10. CASE UNCHANGED vars
  <2>1. TypeOK' BY <1>10 DEF vars, EInv, TypeOK
  <2> QED BY <1>10, <2>1, OtherStep DEF vars
<1>11. ASSUME NEW stray \in BOOLEAN, PinExchangeFails(stray) PROVE EInv'
  BY <1>5, <1>10, <1>11 DEF PinExchangeFails
<1>12. CASE AppInitTooEarly \/ FreedTwice \/ SdaTooEarly \/ DdaTooEarly
  BY <1>5, <1>12 DEF AppInitTooEarly, FreedTwice, SdaTooEarly, DdaTooEarly
<1> QED
  BY <1>1, <1>2, <1>3, <1>4, <1>6, <1>7, <1>8, <1>9, <1>10, <1>11, <1>12,
     SdaStep, DdaStep
  DEF Next

\* The session's variables keep their types, and its authentication results
\* are right together, whatever the order of calls and failures.
THEOREM SessionInvariance == Spec => []EInv
<1>1. Init => EInv BY EInit
<1>2. EInv /\ [Next]_vars => EInv' BY EStep
<1> QED BY <1>1, <1>2, PTL DEF Spec

\* TypeOK of the session (src/src/emv*.c).
THEOREM SessionType == Spec => []TypeOK
BY SessionInvariance, PTL DEF EInv

\* A key that emv_sda.c or emv_dda.c keeps is one the CA vouches for.
THEOREM SessionKeys == Spec => []KeysVerified
BY SessionInvariance, PTL DEF EInv

\* emv_dda_ok means that the card signed with the key that is held.
THEOREM SessionDda == Spec => []DdaProven
BY SessionInvariance, PTL DEF EInv

\* emv_dda_ok implies emv_sda_ok and two keys of one application.
THEOREM SessionBoth == Spec => []DdaImpliesSda
BY SessionInvariance, PTL DEF EInv
=============================================================================
