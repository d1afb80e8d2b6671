------------------------------ MODULE Dashboard ------------------------------
(***************************************************************************)
(* The contributor dashboard (frontend/src/pages/DashboardPage.tsx) with   *)
(* its counts (hooks/useDashboard.ts), its application list, and the       *)
(* withdrawal that is built, signed and submitted from it                  *)
(* (hooks/useWithdraw.ts, components/WithdrawConfirmModal.tsx).            *)
(***************************************************************************)
EXTENDS Naturals, FiniteSets

CONSTANTS
  DaPending,    \* the applications the contributor starts with: <<org, issue>>
  DaMaxLoads    \* bound on the loads of one kind under way together

ASSUME DaAssumption == IsFiniteSet(DaPending)

VARIABLES
  daChain,    \* pending applications in the contract
  daKey,      \* wallet.publicKey is set
  daCount,    \* data.globalApplicationCount; 99 before the first answer
  daState,    \* state of useDashboard: idle, loading, error
  daApps,     \* applications
  daLists,    \* loading and error of the list
  daLoads,    \* loads under way: kind, number, what they have read
  daTarget,   \* pendingTarget: {} or {app}
  daStage,    \* handleConfirm: idle, sequence, build, sign, submit
  daSigned,   \* the application the transaction under way is for: {} or {app}
  daDoubt,    \* history: kinds whose last answer failed or was read before the last withdrawal
  daGone      \* history: issue numbers withdrawn since the list was read

daVars == <<daChain, daKey, daCount, daState, daApps, daLists, daLoads, daTarget, daStage, daSigned, daDoubt, daGone>>

DaUnknown == 99
daLoad(kind, n) == [kind |-> kind, n |-> n, read |-> FALSE, apps |-> {}, stale |-> FALSE]

DaInit == /\ daChain \in SUBSET DaPending /\ daKey \in BOOLEAN
          /\ daCount = DaUnknown /\ daApps = {} /\ daDoubt = {"counts", "apps"} /\ daGone = {}
          /\ daState = IF daKey THEN "loading" ELSE "idle"
          /\ daLists = [loading |-> daKey, error |-> FALSE]
          /\ daLoads = IF daKey THEN {daLoad("counts", 1), daLoad("apps", 1)} ELSE {}
          /\ daTarget = {} /\ daStage = "idle" /\ daSigned = {}

-----------------------------------------------------------------------------
(* useDashboard.load and useApplications.load. *)

underWayOf(kind) == {l \in daLoads : l.kind = kind}
freeFor(kind) == {n \in 1..DaMaxLoads : \A l \in underWayOf(kind) : l.n # n}
roomFor(kinds) == \A kind \in kinds : freeFor(kind) # {}
\* One new load of each kind.
withLoads(kinds) == daLoads \cup {daLoad(kind, CHOOSE n \in freeFor(kind) : TRUE) : kind \in kinds}

\* Connecting the wallet runs both effects.
connectWallet == /\ ~daKey /\ daKey' = TRUE
                 /\ daState' = "loading" /\ daLists' = [loading |-> TRUE, error |-> FALSE]
                 /\ daLoads' = withLoads({"counts", "apps"})
                 /\ UNCHANGED <<daChain, daCount, daApps, daTarget, daStage, daSigned, daDoubt, daGone>>

\* Disabled while the counts are being loaded.
refreshBoth == /\ daKey /\ daState # "loading" /\ daTarget = {} /\ roomFor({"counts", "apps"})
               /\ daState' = "loading" /\ daLists' = [loading |-> TRUE, error |-> FALSE]
               /\ daLoads' = withLoads({"counts", "apps"})
               /\ UNCHANGED <<daChain, daKey, daCount, daApps, daTarget, daStage, daSigned, daDoubt, daGone>>

serverReads(l) == /\ l \in daLoads /\ ~l.read
                  /\ daLoads' = (daLoads \ {l}) \cup {[l EXCEPT !.read = TRUE, !.apps = daChain]}
                  /\ UNCHANGED <<daChain, daKey, daCount, daState, daApps, daLists, daTarget, daStage, daSigned, daDoubt, daGone>>

loadAnswered(l, ok) ==
  /\ l \in daLoads /\ (ok => l.read)
  /\ daLoads' = daLoads \ {l}
  /\ IF l.kind = "counts"
     THEN /\ daCount' = IF ok THEN Cardinality(l.apps) ELSE daCount
          /\ daState' = IF ok THEN "idle" ELSE "error"
          /\ UNCHANGED <<daApps, daLists>>
     ELSE /\ daApps' = IF ok THEN l.apps ELSE daApps
          /\ daLists' = [loading |-> FALSE, error |-> daLists.error \/ ~ok]
          /\ UNCHANGED <<daCount, daState>>
  /\ daDoubt' = IF ok /\ ~l.stale THEN daDoubt \ {l.kind} ELSE daDoubt \cup {l.kind}
  /\ daGone' = IF ok /\ l.kind = "apps" THEN {} ELSE daGone
  /\ UNCHANGED <<daChain, daKey, daTarget, daStage, daSigned>>

-----------------------------------------------------------------------------
(* useWithdraw and its dialog. *)

initiateWithdraw == /\ daKey /\ ~daLists.loading /\ daTarget = {}
                    /\ \E app \in daApps : daTarget' = {app}
                    /\ UNCHANGED <<daChain, daKey, daCount, daState, daApps, daLists, daLoads, daStage, daSigned, daDoubt, daGone>>

mayCancel_always == TRUE

mayCancel == daStage = "idle"

handleCancel == /\ daTarget # {} /\ mayCancel
                /\ daTarget' = {}
                /\ UNCHANGED <<daChain, daKey, daCount, daState, daApps, daLists, daLoads, daStage, daSigned, daDoubt, daGone>>

handleConfirm == /\ daTarget # {} /\ daStage = "idle"
                 /\ daStage' = "sequence" /\ daSigned' = daTarget
                 /\ UNCHANGED <<daChain, daKey, daCount, daState, daApps, daLists, daLoads, daTarget, daDoubt, daGone>>

daAfter == [sequence |-> "build", build |-> "sign", sign |-> "submit"]

withdrawStep == /\ daStage \in DOMAIN daAfter
                /\ daStage' = daAfter[daStage]
                /\ UNCHANGED <<daChain, daKey, daCount, daState, daApps, daLists, daLoads, daTarget, daSigned, daDoubt, daGone>>

\* Any of the four requests fails, or the user rejects the signature.
withdrawFails == /\ daStage # "idle"
                 /\ daStage' = "idle" /\ daTarget' = {} /\ daSigned' = {}
                 /\ UNCHANGED <<daChain, daKey, daCount, daState, daApps, daLists, daLoads, daDoubt, daGone>>

removeApplication_kept(app) == daApps

\* All rows with that issue number go, whatever their organisation.
removeApplication(app) == {a \in daApps : a[2] # app[2]}

\* The counts are loaded again; loads that have read the contract are stale now.
onSuccess == {[l EXCEPT !.stale = l.read] : l \in withLoads({"counts"})}

\* The contract removes the application, the page its row.
withdrawSubmitted ==
  /\ daStage = "submit" /\ roomFor({"counts"})
  /\ \E app \in daSigned :
       /\ app \in daChain /\ daChain' = daChain \ {app}
       /\ daApps' = removeApplication(app) /\ daGone' = daGone \cup {app[2]}
  /\ daLoads' = onSuccess /\ daState' = "loading"
  /\ daStage' = "idle" /\ daTarget' = {} /\ daSigned' = {}
  /\ UNCHANGED <<daKey, daCount, daLists, daDoubt>>

DaNext == \/ connectWallet \/ refreshBoth \/ initiateWithdraw \/ handleCancel \/ handleConfirm
          \/ withdrawStep \/ withdrawFails \/ withdrawSubmitted
          \/ \E l \in daLoads : serverReads(l) \/ \E ok \in BOOLEAN : loadAnswered(l, ok)

-----------------------------------------------------------------------------
\* Type invariant; the withdrawal under way is the one the dialog shows.
DaTypeOK == /\ daChain \subseteq DaPending /\ daApps \subseteq DaPending
            /\ daStage \in {"idle", "sequence", "build", "sign", "submit"}
            /\ daCount \in 0..Cardinality(DaPending) \cup {DaUnknown}
            /\ daStage # "idle" => daSigned = daTarget

\* The dashboard at rest agrees with the contract after withdrawals: the count
\* was taken again, and the list lost the rows that carry a withdrawn issue number
\* and no other (removeApplication compares the number alone, so the row of
\* another organisation with that number is gone too until the list is read
\* again), unless the last answer of that kind failed or had been read before the
\* withdrawal.
DaExact == daLoads = {} => /\ "apps" \in daDoubt \/ daApps = {a \in daChain : a[2] \notin daGone}
                           /\ "counts" \in daDoubt \/ daCount = Cardinality(daChain)
=============================================================================
