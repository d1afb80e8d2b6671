------------------------------ MODULE MCSafety ------------------------------
(***************************************************************************)
(* The components with safety properties only side by side, for TLC: each  *)
(* behaviour follows one of them, chosen at the start.                     *)
(***************************************************************************)
EXTENDS StellarClients, OrgRegistration, ContributorRoutes, ListPaging,
        TtlJob, EventDecode, RegisterOrg, MaintainerPanel,
        MaintainerBoard, OrgIssues, IssueDetail, Dashboard, Profile,
        TxForms, TxControls, Session, OrgSelector, EventViews, Navigation,
        ActiveAssignments, OrgManagement, IssueCard

MCMaintainers == <<"m1", "m2">>
MCCrIssues == {<<"a", 1>>, <<"a", 2>>, <<"b", 1>>}
MCCount == [a |-> 2, b |-> 1]
MCApplications == {<<"a", 1>>, <<"b", 1>>}
MCProfiles == {<<"me", "a", 1>>, <<"me", "b", 1>>, <<"me", "a", 2>>, <<"other", "a", 3>>}
MCBookmarks == <<"x", "y">>
MCForm == CHOOSE f \in TfForms : TRUE
MCOrgs == <<"ab", "ac", "b">>
MCMatches(o, q) == q = "" \/ q = o \/ (q = "a" /\ o \in {"ab", "ac"}) \/ (q = "b" /\ o = "ab")
MCEvent(type, ts, pos) == [type |-> type, ts |-> ts, pos |-> pos]
MCLists == {<<>>,
            <<MCEvent("application", 1, 1), MCEvent("assignment", 2, 2), MCEvent("application", 2, 3),
              MCEvent("assignment", 4, 4), MCEvent("application", 3, 5)>>,
            <<MCEvent("assignment", 1, 1), MCEvent("application", 2, 2)>>}
MCLog == [me |-> 5, other |-> 1]
MCFeed == [all |-> 3, applied |-> 1]
MCOrgList == <<"x", "y">>

VARIABLE focus   \* the component this behaviour is about

allVars == <<focus, feVars, upVars, regVars, crVars, pgVars, ttlVars,
             edVars, roVars, mpVars, mbVars, oiVars, idVars, daVars,
             cpVars, tfVars, tcVars, seVars, osVars, etVars, ksVars,
             afVars, aaVars, omVars, caVars, vtVars>>

Init ==
  /\ focus \in {"fe", "up", "reg", "cr", "pg", "ttl", "ed", "ro", "mp",
               "mb", "oi", "id", "da", "cp", "tf", "tc", "se", "os", "et",
               "ks", "af", "aa", "om", "ca", "vt"}
  /\ FeInit
  /\ UpInit
  /\ RegInit
  /\ CrInit
  /\ PgInit /\ (focus # "pg" => pgList = "audit" /\ pgFirst = 0 /\ pgAsk = PgDefault)
  /\ startScheduler
  /\ EdInit
  /\ RoInit /\ (focus # "ro" => roKey = "")
  /\ MpInit /\ (focus # "mp" => mpChain = [i \in MpItems |-> "pending"])
  /\ MbInit /\ (focus # "mb" => mbOrg = "own")
  /\ OiInit /\ (focus # "oi" => oiOrg = "a" /\ ~oiWallet)
  /\ IdInit /\ (focus # "id" => idIssue = 1)
  /\ DaInit /\ (focus # "da" => daChain = {} /\ ~daKey)
  /\ CpInit /\ (focus # "cp" => cpRoute = CpWallet)
  /\ TfInit /\ (focus # "tf" => tfForm = MCForm)
  /\ TcInit
  /\ SeInit /\ (focus # "se" => seKey = {})
  /\ OsInit /\ (focus # "os" => osUrl = "gone")
  /\ EtInit /\ (focus # "et" => etInjected /\ etWho = "me" /\ etEvents = <<>>)
  /\ KsInit /\ (focus # "ks" => ksEnabled /\ ksCards = 0)
  /\ AfInit /\ (focus # "af" => afFilter = "all")
  /\ AaInit /\ (focus # "aa" => aaChain = {} /\ aaClient = AaMethods)
  /\ OmInit /\ (focus # "om" => omAdmin /\ omChain = {})
  /\ CaInit /\ (focus # "ca" => caChain = "open" /\ ~caFull)
  /\ VtInit /\ (focus # "vt" => vtMode = "bare")

\* The component in focus takes a step, the others wait in a state they start in.
Next ==
  /\ IF focus = "fe" THEN FeNext ELSE UNCHANGED feVars
  /\ IF focus = "up" THEN UpNext ELSE UNCHANGED upVars
  /\ IF focus = "reg" THEN RegNext ELSE UNCHANGED regVars
  /\ IF focus = "cr" THEN CrNext ELSE UNCHANGED crVars
  /\ IF focus = "pg" THEN PgNext ELSE UNCHANGED pgVars
  /\ IF focus = "ttl" THEN TtlNext ELSE UNCHANGED ttlVars
  /\ IF focus = "ed" THEN EdNext ELSE UNCHANGED edVars
  /\ IF focus = "ro" THEN RoNext ELSE UNCHANGED roVars
  /\ IF focus = "mp" THEN MpNext ELSE UNCHANGED mpVars
  /\ IF focus = "mb" THEN MbNext ELSE UNCHANGED mbVars
  /\ IF focus = "oi" THEN OiNext ELSE UNCHANGED oiVars
  /\ IF focus = "id" THEN IdNext ELSE UNCHANGED idVars
  /\ IF focus = "da" THEN DaNext ELSE UNCHANGED daVars
  /\ IF focus = "cp" THEN CpNext ELSE UNCHANGED cpVars
  /\ IF focus = "tf" THEN TfNext ELSE UNCHANGED tfVars
  /\ IF focus = "tc" THEN TcNext ELSE UNCHANGED tcVars
  /\ IF focus = "se" THEN SeNext ELSE UNCHANGED seVars
  /\ IF focus = "os" THEN OsNext ELSE UNCHANGED osVars
  /\ IF focus = "et" THEN EtNext ELSE UNCHANGED etVars
  /\ IF focus = "ks" THEN KsNext ELSE UNCHANGED ksVars
  /\ IF focus = "af" THEN AfNext ELSE UNCHANGED afVars
  /\ IF focus = "aa" THEN AaNext ELSE UNCHANGED aaVars
  /\ IF focus = "om" THEN OmNext ELSE UNCHANGED omVars
  /\ IF focus = "ca" THEN CaNext ELSE UNCHANGED caVars
  /\ IF focus = "vt" THEN VtNext ELSE UNCHANGED vtVars
  /\ UNCHANGED focus

Spec == Init /\ [][Next]_allVars

-----------------------------------------------------------------------------
\* The type invariants of the components, with the busy flags, page numbers and
\* call counts that the guards of the code bound.
SafetyTypeOK == /\ UpTypeOK
                /\ RegTypeOK
                /\ CrTypeOK
                /\ PgTypeOK
                /\ TtlTypeOK
                /\ EdTypeOK
                /\ RoTypeOK
                /\ MpTypeOK
                /\ MbTypeOK
                /\ OiTypeOK
                /\ IdTypeOK
                /\ DaTypeOK
                /\ CpTypeOK
                /\ TfTypeOK
                /\ TcTypeOK
                /\ SeTypeOK
                /\ OsTypeOK
                /\ EtTypeOK
                /\ KsTypeOK
                /\ AfTypeOK
                /\ AaTypeOK
                /\ OmTypeOK
                /\ CaTypeOK
                /\ VtTypeOK

\* What is reported is what was read: fees add up digit by digit (soroban.ts), a
\* Horizon client gives up only when no retry can help (horizon.ts), a
\* contributor with activity is found although the queries of the profile are not
\* one transaction (contributors.ts), a row of the issue browser says the last
\* word of the server about its number (OrgIssuesPage.tsx), and the list of
\* assignments says what the client it was given can read of the chain
\* (useActiveAssignments.ts); the parts name the races they leave out.
ReportsAreRight ==
  /\ FeShownIsExact
  /\ UpGivesUpLate
  /\ CrKnownIsFound
  /\ CrTotalsAgree
  /\ OiRowExact
  /\ AaExact

\* Registration of an organisation (admin.ts): a 201 stands although another
\* request for the same name is rolled back, and no row is left without its
\* maintainers.
RegistrationStands == RegSuccessStands /\ RegNoOrphanRow

\* Reading page by page.  The list endpoints give every row that stays in the
\* list, but for one row for each insertion between count and rows of a request
\* and for each row that leaves; rows may come twice, and audit pages over the
\* cap and GitHub pages after one with a pull request are left out.  The issue
\* browser, unless the route or the wallet changed during a fetch, and the feed,
\* unless requests overlapped, show each row once although pages fail and are
\* asked again; so does the event table under any filter and order, which never
\* shows an empty page of a list that is not empty.
WalksComplete ==
  /\ PgWalkComplete
  /\ OiAllLoaded
  /\ EtWalkComplete
  /\ EtNeverBlank
  /\ AfFirstPageOnce

\* The TTL job (scheduler.ts) tries every application it loads although batches
\* fail, and one that did not fail too often in a row stays alive on chain.
TtlJobKeeps == TtlKept /\ TtlAllTried

\* Lists at rest, after optimistic updates, refusals, rollbacks and reloads: the
\* maintainer panel, the dashboard and the administrator's list show what the
\* contract holds, the board and the profile what they read last less what was
\* acknowledged since.  Dashboard and profile remove rows by the issue number
\* alone, and the parts say so.
RestIsExact == MpExact /\ MbRestExact /\ DaExact /\ CpRowsExact /\ OmListExact

\* An answer about the wallet, organisation or issue shown before changes nothing
\* now: no panel opens, no request goes out, no other issue is shown, and no
\* answer asked for before an Apply or Withdraw is taken for its result.
LateAnswersIgnored == MpGate /\ MbRoleHeld /\ IdShowsRoute /\ IdActionSeen

\* No second registration, form, withdrawal or application goes out while one is
\* under way (and, on the issue card, after it succeeded), although keys, fields,
\* wallets, dialogs and properties change meanwhile.
OneAtATime ==
  /\ RoOneRequest
  /\ TfOneCall
  /\ TcOneWithdrawal
  /\ OmOneByAdmin
  /\ CaOneAtATime
  /\ CaNoRepeat

\* State kept in two places agrees: the key of the bar or the page that acted
\* last and localStorage, settings and the address of the bar, selected
\* organisation and URL.
SessionAgrees == SeKeyIsStored /\ SeSettingsScoped /\ OsSelectionAgrees

\* Timers and dialogs serve what they are for: the buttons of the dialog answer
\* the call whose details are shown, an extension is sent in time, a pending G
\* has its own second, and a transition is released and, unless two overlapped,
\* ends with the view asked for last.
TimersHonoured == TcDecisionIsOwn /\ TcExtendInTime /\ KsSequence /\ VtReleased /\ VtLastWins
=============================================================================
