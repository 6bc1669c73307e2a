----------------------------- MODULE EmvSession -----------------------------
(***************************************************************************)
(* An EMV session (struct _emv) of src/src/emv*.c: application selection,  *)
(* initiation, reading of the application's records, static and dynamic    *)
(* data authentication and offline PIN.  One action is one call of the     *)
(* interface; the application may call in any order, and go on after a     *)
(* call that failed, as the buttons of emv_applet.py let a user do.        *)
(*                                                                         *)
(* The card is external.  It has a current application of its own, which   *)
(* the session only knows from what it asked for: a SELECT the card        *)
(* carried out may still have failed for the session.  Records, profiles   *)
(* and keys are named by the application they come from.  RSA and SHA-1    *)
(* are abstracted to whether a certificate verifies.                       *)
(***************************************************************************)
EXTENDS Naturals

CONSTANTS
  Apps,       \* the applications on the card
  Profiles,   \* what an application on the card can be, see Profile
  None, Pse   \* no application; the payment system directory

ASSUME NamesAssumption == None \notin Apps /\ Pse \notin Apps /\ None # Pse

\* aip: the authentications an application offers.  iss, ssa, icc: whether
\* its issuer certificate (under the right CA key), signed static data and
\* card certificate verify.
Profile == [aip : SUBSET {"SDA", "DDA"}, iss : BOOLEAN, ssa : BOOLEAN, icc : BOOLEAN]

ASSUME ProfilesAssumption == Profiles \subseteq Profile

VARIABLES
  e_app,                           \* the selected application
  e_aip, e_afl,                    \* whose profile and file locator are held
  e_db, e_files,                   \* the records read; "freed" if e_files dangles
  e_sda_ok, e_dda_ok, e_iss_pk, e_icc_pk,
  ended,                           \* "no", or how the session ended
  profile, current,                \* the card
  matched, signed, refused         \* history: see the actions

initiation == <<e_aip, e_afl>>
data == <<e_db, e_files>>
auth == <<e_sda_ok, e_dda_ok, e_iss_pk, e_icc_pk>>
history == <<matched, signed, refused>>
vars == <<e_app, initiation, data, auth, ended, profile, current, history>>

\* A certificate lies in the record buffer as the card sent it ("raw"),
\* recovered in place with the right key ("plain"), or otherwise ("junk").
Certs == {"iss", "ssa", "icc"}
NoData == [of |-> None, by |-> None, cert |-> [c \in Certs |-> "raw"]]
Data == [of : Apps \union {None}, by : Apps \union {None},
         cert : [Certs -> {"raw", "plain", "junk"}]]

Flags(a) == IF a = None THEN {} ELSE profile[a].aip

\* emv_init.  Without an active card, a transfer buffer or a pool there is no
\* session ("closed").  Without a gang there is none either, but that path
\* frees the pool and has do_emv_fini free it again.
Init ==
  /\ e_app = None
  /\ e_aip = None /\ e_afl = None
  /\ e_db = NoData /\ e_files = "live"
  /\ e_sda_ok = FALSE /\ e_dda_ok = FALSE /\ e_iss_pk = None /\ e_icc_pk = None
  /\ ended \in {"no", "closed", "freed_twice"}
  /\ profile \in [Apps -> Profiles] /\ current = None
  /\ matched = {} /\ signed = None /\ refused = FALSE

Crash(how) ==
  /\ ended' = how
  /\ UNCHANGED <<e_app, initiation, data, auth, profile, current, history>>

-----------------------------------------------------------------------------
(* Selection.  (A definition X_Y above a definition X is X with a plausible *)
(* bug Y; no specification uses it.)                                        *)

AuthReset_Keys ==
  /\ e_sda_ok' = FALSE /\ UNCHANGED e_dda_ok
  /\ e_iss_pk' = None /\ e_icc_pk' = None
  /\ matched' = {} /\ signed' = None /\ UNCHANGED refused

\* _emv_auth_reset
AuthReset ==
  /\ e_sda_ok' = FALSE /\ e_dda_ok' = FALSE
  /\ e_iss_pk' = None /\ e_icc_pk' = None
  /\ matched' = {} /\ signed' = None /\ UNCHANGED refused

\* SELECT or the GET RESPONSE after it fails: the card may have selected a.
SelectFails(a) ==
  /\ ended = "no"
  /\ current' \in {current, a}
  /\ UNCHANGED <<e_app, initiation, data, auth, ended, profile, history>>

\* The card selected a, but set_app cannot use or store the answer.
SelectUnusable(a) ==
  /\ ended = "no"
  /\ current' = a
  /\ AuthReset
  /\ UNCHANGED <<e_app, initiation, data, ended, profile>>

\* By PSE entry, AID or next AID.  Profile, locator and records stay.
Select(a) ==
  /\ ended = "no"
  /\ current' = a
  /\ AuthReset
  /\ e_app' = a
  /\ UNCHANGED <<initiation, data, ended, profile>>

\* emv_appsel_pse: the directory becomes the card's current application.
ListApps ==
  /\ ended = "no"
  /\ current' = Pse
  /\ UNCHANGED <<e_app, initiation, data, auth, ended, profile, history>>

-----------------------------------------------------------------------------
(* Initiation and reading.                                                 *)

\* emv_app_init: GET PROCESSING OPTIONS goes to whatever the card has
\* selected.  An answer may lack the profile or the locator, or be of a
\* template the code skips: what is held then stays.
AppInit ==
  /\ ended = "no" /\ e_app # None /\ current \in Apps
  /\ e_aip' \in {e_aip, current}
  /\ e_afl' \in {e_afl, current, None}
  /\ UNCHANGED <<e_app, data, auth, ended, profile, current, history>>

\* get_aip reads e_app, which is NULL before the first selection.
AppInitTooEarly == ended = "no" /\ e_app = None /\ Crash("null")

\* Records named by the locator held, of the application the card is in.
\* What was read before is gone; authentication results are not touched.
ReadAppData ==
  /\ ended = "no" /\ e_files = "live" /\ e_afl # None /\ current \in Apps
  /\ e_db' = [NoData EXCEPT !.of = current, !.by = e_afl]
  /\ UNCHANGED <<e_app, initiation, e_files, auth, ended, profile, current, history>>

\* The locator is empty, a record cannot be read or decoded, or a gang cannot
\* be had (e_files is then NULL): no element can be found any more.
ReadFails ==
  /\ ended = "no" /\ e_files = "live"
  /\ e_db' = NoData
  /\ UNCHANGED <<e_app, initiation, e_files, auth, ended, profile, current, history>>

ReadOutOfMemory_RecordsKept ==
  /\ ended = "no" /\ e_files = "live"
  /\ e_files' = "freed"
  /\ UNCHANGED <<e_app, initiation, e_db, auth, ended, profile, current, history>>

\* A new pool cannot be had: e_files keeps the address of the gang just freed.
ReadOutOfMemory ==
  /\ ended = "no" /\ e_files = "live"
  /\ e_db' = NoData /\ e_files' = "freed"
  /\ UNCHANGED <<e_app, initiation, auth, ended, profile, current, history>>

\* emv_read_app_data or emv_fini frees it again.
FreedTwice == ended = "no" /\ e_files = "freed" /\ Crash("freed_twice")

Fini ==
  /\ ended = "no" /\ e_files = "live"
  /\ ended' = "closed"
  /\ AuthReset
  /\ UNCHANGED <<e_app, initiation, data, profile, current>>

-----------------------------------------------------------------------------
(* Authentication.  ca is what the key callbacks give: no key, one of a     *)
(* size other than the certificate's, a wrong one or the right one.         *)

CaKeys == {"missing", "size", "wrong", "right"}

\* What fails in a call: nothing; the RSA call on the issuer certificate or
\* memory to check it and build its key; the same on the card's signature or
\* certificate; memory for the card's key.
Faults == {"none", "issuer_call", "issuer_memory", "call", "memory", "key"}

\* recover() overwrites the certificate in the record buffer, with junk if
\* the key is not its signer's; the buffer stays as it is if the call fails.
Recovered(was, good, fails) ==
  IF fails THEN was ELSE IF was = "raw" /\ good THEN "plain" ELSE "junk"

Recover(db, c, good, fails) == [db EXCEPT !.cert[c] = Recovered(@, good, fails)]

\* The hash of check_ssa and check_icc_cert covers the records the locator
\* marks and the profile held.
Covered(db) == db.by = db.of /\ Flags(e_aip) = Flags(db.of)

\* get_required_data without an element of that name, starting with the CA
\* key index, of which it asks the value.
NoElements == ended = "no" /\ e_db.of = None

\* get_issuer_pk: the records after it; the certificate verifies if "plain".
IssuerChecked(ca, fault) ==
  Recover(e_db, "iss", ca = "right" /\ profile[e_db.of].iss,
          ca = "size" \/ fault = "issuer_call")

IssuerOk_AnyKey(ca, fault) == ca # "size" /\ fault \notin {"issuer_call", "issuer_memory"}

IssuerOk(ca, fault) ==
  /\ ca # "size" /\ fault \notin {"issuer_call", "issuer_memory"}
  /\ IssuerChecked(ca, fault).cert["iss"] = "plain"

SdaDone_Forgotten == FALSE
SdaDone == e_sda_ok

\* emv_authenticate_static_data past its early returns.
Sda(ca, fault) ==
  LET db == IssuerChecked(ca, fault)
      after == Recover(db, "ssa", profile[db.of].ssa, fault = "call")
      verified == fault = "none" /\ after.cert["ssa"] = "plain" /\ Covered(after) IN
  /\ ended = "no" /\ ~SdaDone /\ "SDA" \in Flags(e_aip) /\ e_db.of # None
  /\ ca # "missing"
  /\ IF IssuerOk(ca, fault)
       THEN /\ e_iss_pk' = db.of
            /\ e_db' = after
            /\ e_sda_ok' = (e_sda_ok \/ verified)
       ELSE /\ e_iss_pk' = None
            /\ e_db' = db
            /\ UNCHANGED e_sda_ok
  /\ matched' = matched \union (IF e_sda_ok' /\ ~e_sda_ok THEN {"static"} ELSE {})
  /\ UNCHANGED <<e_app, initiation, e_files, e_dda_ok, e_icc_pk, ended, profile,
                 current, signed, refused>>

SdaTooEarly == NoElements /\ ~e_sda_ok /\ "SDA" \in Flags(e_aip) /\ Crash("null")

\* Does the hash in the card certificate match?
IccHash(db) == db.cert["icc"] = "plain" /\ profile[db.of].icc /\ Covered(db)

IccOk_HeaderOnly(db) == db.cert["icc"] = "plain"

\* check_icc_cert, but for the account.
IccOk(db) == IccHash(db)

\* The signature the card makes with the key of its current application,
\* on INTERNAL AUTHENTICATE, verified with the key held.
DynamicOk(db, answers) == answers /\ current = db.of

\* emv_authenticate_dynamic past its early returns.  check_icc_cert sets
\* e_sda_ok when the header is right, whatever the hash says (pan: the
\* certificate is for another account, which is looked at only if the hash
\* is right).
Dda(ca, samesize, pan, answers, fault) ==
  LET db == IssuerChecked(ca, fault)
      after == Recover(db, "icc", TRUE, fault = "call")
      checked == fault \notin {"call", "memory"}
      headed == checked /\ after.cert["icc"] = "plain"
      certified == checked /\ IccOk(after)
      kept == certified /\ ~pan /\ fault # "key" IN
  /\ ended = "no" /\ ~e_dda_ok /\ "DDA" \in Flags(e_aip) /\ e_db.of # None
  /\ ca # "missing"
  /\ IF ~IssuerOk(ca, fault)
       THEN e_iss_pk' = None /\ e_db' = db /\ UNCHANGED <<e_icc_pk, e_sda_ok, e_dda_ok>>
       ELSE /\ e_iss_pk' = db.of
            /\ IF ~samesize
                 THEN e_db' = db /\ e_icc_pk' = None /\ UNCHANGED <<e_sda_ok, e_dda_ok>>
                 ELSE /\ e_db' = after
                      /\ e_sda_ok' = (e_sda_ok \/ (headed /\ ~(certified /\ pan)))
                      /\ e_icc_pk' = IF kept THEN db.of ELSE None
                      /\ e_dda_ok' = (kept /\ DynamicOk(after, answers))
  /\ matched' = matched \union (IF IssuerOk(ca, fault) /\ samesize /\ checked /\ IccHash(after)
                                THEN {"icc"} ELSE {})
  /\ signed' = IF e_dda_ok' THEN current ELSE signed
  /\ refused' = (refused \/ /\ ~e_dda_ok' /\ "static" \in matched
                            /\ ca = "right" /\ samesize /\ ~pan /\ answers /\ fault = "none"
                            /\ current = e_db.of /\ Covered(e_db)
                            /\ profile[current].iss /\ profile[current].icc)
  /\ UNCHANGED <<e_app, initiation, e_files, ended, profile, current>>

DdaTooEarly == NoElements /\ ~e_dda_ok /\ "DDA" \in Flags(e_aip) /\ Crash("null")

\* emv_cvm_pin when the VERIFY exchange fails: it then asks for the status
\* word of an answer.  xfr_reset left none, and xfr_rx_sw1 asserts; only an
\* answer to an earlier command, read and rejected, leaves one.
PinExchangeFails(stray) ==
  ended = "no" /\ (IF stray THEN UNCHANGED vars ELSE Crash("assert"))

Next ==
  \/ \E a \in Apps : SelectFails(a) \/ SelectUnusable(a) \/ Select(a)
  \/ SelectFails(Pse) \/ ListApps
  \/ AppInit \/ AppInitTooEarly
  \/ ReadAppData \/ ReadFails \/ ReadOutOfMemory \/ FreedTwice \/ Fini
  \/ \E ca \in CaKeys, fault \in Faults \ {"key"} : Sda(ca, fault)
  \/ SdaTooEarly
  \/ \E ca \in CaKeys, samesize, pan, answers \in BOOLEAN, fault \in Faults :
        Dda(ca, samesize, pan, answers, fault)
  \/ DdaTooEarly
  \/ \E stray \in BOOLEAN : PinExchangeFails(stray)

Spec == Init /\ [][Next]_vars

-----------------------------------------------------------------------------
(* Properties.                                                             *)

\* The session's variables have their types, and no record is found in memory
\* that was given back.
TypeOK ==
  /\ e_app \in Apps \union {None}
  /\ e_aip \in Apps \union {None} /\ e_afl \in Apps \union {None}
  /\ e_db \in Data /\ e_files \in {"live", "freed"}
  /\ e_files = "freed" => e_db = NoData
  /\ e_sda_ok \in BOOLEAN /\ e_dda_ok \in BOOLEAN
  /\ e_iss_pk \in Apps \union {None} /\ e_icc_pk \in Apps \union {None}
  /\ ended \in {"no", "closed", "null", "assert", "freed_twice"}
  /\ profile \in [Apps -> Profiles] /\ current \in Apps \union {None, Pse}
  /\ matched \subseteq {"static", "icc"} /\ signed \in Apps \union {None} /\ refused \in BOOLEAN

\* A key is held only if its certificate verified: whatever was read or
\* selected in between, a kept key is one the CA vouches for.
KeysVerified ==
  /\ e_iss_pk # None => profile[e_iss_pk].iss
  /\ e_icc_pk # None => profile[e_icc_pk].iss /\ profile[e_icc_pk].icc

\* emv_dda_ok: the card signed, as the application whose certified key is
\* held, in whatever order selections, reads and failed attempts came.
DdaProven == e_dda_ok => signed # None /\ signed = e_icc_pk

\* Dynamic authentication includes static: after it emv_sda_ok holds too,
\* both keys are held, and they are of one application.
DdaImpliesSda == e_dda_ok => e_sda_ok /\ e_iss_pk # None /\ e_iss_pk = e_icc_pk

\* emv_sda_ok: "SDA data authenticated".  A hash over the static data matched
\* since the authentication state was last reset.
SdaMeansVerified == e_sda_ok => matched # {}

\* Step 3 of emvtool: a card that offers both has its static data
\* authenticated, then itself.  Once SDA has succeeded, with the right CA key
\* and no fault a card whose certificates and signature verify is not refused.
GenuineAccepted == ~refused

\* "Return value is only valid after a successful transaction" (xfr_rx_sw1):
\* the status word is not asked for when there is none.
StatusAfterSuccess == ended # "assert"

=============================================================================
