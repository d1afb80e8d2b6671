--------------------------- MODULE OrgManagement ----------------------------
(***************************************************************************)
(* The administrator's page (frontend/src/pages/OrgManagementPage.tsx): a  *)
(* form that registers a maintainer for an organisation, and the list of   *)
(* registered maintainers, read at the start, on request and after each    *)
(* registration.  Loads are not cancelled, so they may end in any order.   *)
(* The contract behind the page has other users too.                       *)
(***************************************************************************)
EXTENDS Integers, FiniteSets

CONSTANTS
  OmAddrs,     \* well-formed Stellar addresses
  OmOrgs,      \* organisation names
  OmLoads,     \* bound on the loads of a session
  OmOutside    \* bound on the registrations made elsewhere

ASSUME OmAssumption == /\ OmLoads \in Nat \ {0} /\ OmOutside \in Nat
                       /\ OmAddrs # {} /\ OmOrgs # {} /\ "" \notin OmAddrs \cup OmOrgs /\ "bad" \notin OmAddrs

VARIABLES
  omAdmin,    \* isAdmin: the connected wallet is the contract's administrator
  omAddr,     \* maintainerAddress: "", "bad" or an address
  omOrg,      \* orgId: "" or a name
  omErrors,   \* which of the two fields shows an error
  omBusy,     \* isSubmitting
  omStatus,   \* statusMessage: none, success, error
  omList,     \* maintainers
  omLoading,  \* isLoadingList
  omReads,    \* loads under way: <<number, whether the contract was read, what it said>>
  omCalls,    \* registrations under way: <<by the administrator, pair, earlier ones>>
  omAwaits,   \* the load handleSubmit waits for, or 0
  omChain,    \* the contract: registered pairs
  omCount,    \* loads started
  omOthers,   \* registrations made elsewhere
  omDoubt     \* history: why the list may differ from the contract

omVars == <<omAdmin, omAddr, omOrg, omErrors, omBusy, omStatus, omList, omLoading,
            omReads, omCalls, omAwaits, omChain, omCount, omOthers, omDoubt>>

omForm == <<omAddr, omOrg, omErrors>>
OmPairs == OmAddrs \X OmOrgs

omStartLoad ==
  /\ omCount < OmLoads
  /\ omCount' = omCount + 1
  /\ omReads' = omReads \cup {<<omCount + 1, FALSE, {}>>}
  /\ omLoading' = TRUE
  /\ omDoubt' = IF omReads = {} THEN omDoubt \cap {"failed"} ELSE omDoubt \cup {"overlap"}

OmInit ==
  /\ omAdmin \in BOOLEAN
  /\ omAddr = "" /\ omOrg = "" /\ omErrors = {} /\ omBusy = FALSE /\ omStatus = "none" /\ omList = {}
  /\ omLoading = TRUE /\ omAwaits = 0 /\ omCalls = {} /\ omOthers = 0 /\ omDoubt = {}
  /\ omChain \in {{}, {CHOOSE p \in OmPairs : TRUE}}
  /\ IF omAdmin THEN omCount = 1 /\ omReads = {<<1, FALSE, {}>>} ELSE omCount = 0 /\ omReads = {}

-----------------------------------------------------------------------------
\* The effect of connectedWalletAddress: home for a stranger, a load for the
\* administrator.  What is under way goes on.
setOmWallet ==
  /\ omAdmin' = ~omAdmin
  /\ IF omAdmin THEN UNCHANGED <<omReads, omLoading, omCount, omDoubt>>
                ELSE omStartLoad
  /\ UNCHANGED <<omForm, omBusy, omStatus, omList, omCalls, omAwaits, omChain, omOthers>>

refreshList ==
  /\ omAdmin /\ omStartLoad
  /\ UNCHANGED <<omAdmin, omForm, omBusy, omStatus, omList, omCalls, omAwaits, omChain, omOthers>>

OmFieldTo(addr, org, errors) ==
  /\ omAdmin /\ omAddr' = addr /\ omOrg' = org /\ omErrors' = errors
  /\ UNCHANGED <<omAdmin, omBusy, omStatus, omList, omLoading, omReads, omCalls, omAwaits,
                 omChain, omCount, omOthers, omDoubt>>

handleMaintainerAddressChange(a) ==
  OmFieldTo(a, omOrg, IF a = "bad" THEN omErrors \cup {"addr"} ELSE omErrors \ {"addr"})

handleOmOrgIdChange(o) ==
  OmFieldTo(omAddr, o, IF o = "" THEN omErrors \cup {"org"} ELSE omErrors \ {"org"})

canSubmit_twice == omErrors = {} /\ omAddr \in OmAddrs /\ omOrg # ""

canSubmit == ~omBusy /\ omErrors = {} /\ omAddr \in OmAddrs /\ omOrg # ""

\* "Access Denied" replaces the page for anybody else.
omFormShown == omAdmin

\* The submit button is disabled unless canSubmit, so the validation inside
\* handleSubmit finds nothing.
handleOmSubmit ==
  /\ omFormShown /\ canSubmit
  /\ omBusy' = TRUE /\ omStatus' = "none"
  /\ omCalls' = omCalls \cup {<<omAdmin, <<omAddr, omOrg>>, Cardinality(omCalls)>>}
  /\ UNCHANGED <<omAdmin, omForm, omList, omLoading, omReads, omAwaits, omChain, omCount, omOthers, omDoubt>>

afterSuccess_noReload == /\ omBusy' = FALSE
                         /\ UNCHANGED <<omReads, omLoading, omCount, omDoubt, omAwaits>>

\* loadMaintainers is awaited before isSubmitting falls.
afterSuccess == omStartLoad /\ omAwaits' = omCount + 1 /\ UNCHANGED omBusy

\* onRegisterMaintainer resolves to true: the form is cleared, whatever was typed
\* since.
registerOk(c) ==
  /\ c \in omCalls /\ omCalls' = omCalls \ {c}
  /\ omChain' = omChain \cup {c[2]}
  /\ omStatus' = "success" /\ omAddr' = "" /\ omOrg' = ""
  /\ afterSuccess
  /\ UNCHANGED <<omAdmin, omErrors, omList, omOthers>>

\* It resolves to false, or throws; a call that throws may have taken effect.
registerFails(c) ==
  /\ c \in omCalls /\ omCalls' = omCalls \ {c}
  /\ omStatus' = "error" /\ omBusy' = FALSE
  /\ \/ UNCHANGED <<omChain, omDoubt>>
     \/ omChain' = omChain \cup {c[2]} /\ omDoubt' = omDoubt \cup {"elsewhere"}
  /\ UNCHANGED <<omAdmin, omForm, omList, omLoading, omReads, omAwaits, omCount, omOthers>>

\* External: the contract is read while the request is under way.
contractRead(r) ==
  /\ r \in omReads /\ ~r[2]
  /\ omReads' = (omReads \ {r}) \cup {<<r[1], TRUE, omChain>>}
  /\ UNCHANGED <<omAdmin, omForm, omBusy, omStatus, omList, omLoading, omCalls, omAwaits,
                 omChain, omCount, omOthers, omDoubt>>

omFinally_missing(r) == UNCHANGED <<omAwaits, omBusy>>

\* The load handleSubmit awaits is over, or it was another one.
omFinally(r) == IF r[1] = omAwaits THEN omAwaits' = 0 /\ omBusy' = FALSE ELSE UNCHANGED <<omAwaits, omBusy>>

\* A load ends; a failure is only logged.
loadMaintainers(r) ==
  /\ r \in omReads /\ omReads' = omReads \ {r} /\ omLoading' = FALSE
  /\ \/ r[2] /\ omList' = r[3] /\ omDoubt' = omDoubt \ {"failed"}
     \/ omDoubt' = omDoubt \cup {"failed"} /\ UNCHANGED omList
  /\ omFinally(r)
  /\ UNCHANGED <<omAdmin, omForm, omStatus, omCalls, omChain, omCount, omOthers>>

\* External: a maintainer is registered or deregistered from somewhere else.
Elsewhere(p) ==
  /\ omOthers < OmOutside /\ omOthers' = omOthers + 1
  /\ omChain' = IF p \in omChain THEN omChain \ {p} ELSE omChain \cup {p}
  /\ omDoubt' = omDoubt \cup {"elsewhere"}
                  \cup (IF omReads = {} THEN {} ELSE {"overlap"})
  /\ UNCHANGED <<omAdmin, omForm, omBusy, omStatus, omList, omLoading, omReads, omCalls, omAwaits, omCount>>

OmNext ==
  \/ setOmWallet \/ refreshList \/ handleOmSubmit
  \/ \E a \in OmAddrs \cup {"", "bad"} : handleMaintainerAddressChange(a)
  \/ \E o \in OmOrgs \cup {""} : handleOmOrgIdChange(o)
  \/ \E c \in omCalls : registerOk(c) \/ registerFails(c)
  \/ \E r \in omReads : contractRead(r) \/ loadMaintainers(r)
  \/ \E p \in OmPairs : Elsewhere(p)

-----------------------------------------------------------------------------
\* Type invariant.
OmTypeOK ==
  /\ omAddr \in OmAddrs \cup {"", "bad"} /\ omOrg \in OmOrgs \cup {""}
  /\ omErrors \subseteq {"addr", "org"} /\ omStatus \in {"none", "success", "error"}
  /\ omList \subseteq OmPairs /\ omChain \subseteq OmPairs /\ omAwaits \in 0..OmLoads
  /\ omCount \in 0..OmLoads /\ (omAwaits # 0 => \E r \in omReads : r[1] = omAwaits)

\* Registrations go out one at a time and in the administrator's name, also when
\* the wallet is switched, or the form filled again, while one is under way.
OmOneByAdmin == Cardinality(omCalls) <= 1 /\ \A c \in omCalls : c[1]

\* The list at rest is the contract's: a registration that succeeded is in it once
\* its handler is done.  The exceptions are loads that overlapped each other or a
\* change made elsewhere, a failed last load, and a change nobody asked about since.
OmListExact == (omAdmin /\ omReads = {} /\ omCalls = {} /\ omDoubt = {}) => omList = omChain
=============================================================================
