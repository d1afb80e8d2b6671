---------------------------- MODULE MaintainerPanel ----------------------------
(***************************************************************************)
(* The maintainer panel of the front end (hooks/useMaintainerPanel.ts,     *)
(* components/MaintainerPanelContainer.tsx, components/MaintainerPanel.tsx):*)
(* the role gate, the two lists read from the contract, and the actions    *)
(* that change the lists before the contract answers and roll them back    *)
(* when it refuses.  Items are application/assignment pairs of contributor *)
(* and issue.                                                              *)
(***************************************************************************)
EXTENDS Naturals, FiniteSets

CONSTANTS
  MpItems,      \* contributor and issue
  MpRoles,      \* wallets that are maintainer of one of the panel's organisations
  MpLoads       \* loads under way together (bound)

VARIABLES
  mpChain,      \* the contract: item -> none, pending, assigned
  mpAddr,       \* maintainerAddress
  mpStatus,     \* status
  mpCheck,      \* the role check that is not cancelled, or MpNone
  mpApps,       \* applications
  mpAsgs,       \* assignments
  mpLoad,       \* the loads under way: each a record, MpNone where there is none
  mpCalls,      \* contract calls under way
  mpPanel,      \* open, pinned, and the row whose assignment is being confirmed
  mpClean       \* history: items nothing else happened to since the lists knew them

mpVars == <<mpChain, mpAddr, mpStatus, mpCheck, mpApps, mpAsgs, mpLoad, mpCalls, mpPanel, mpClean>>

MpNone == [phase |-> "none", addr |-> "", apps |-> {}, fresh |-> {}]
MpWallets == {"", "maintainer", "visitor"}
MpOps == [item : MpItems, op : {"assign", "complete", "revoke"}]
underWay(i) == \E c \in mpCalls : c.item = i
\* The loads that read an item before this step know it no more.
touched(j) == [l \in MpLoads |-> [mpLoad[l] EXCEPT !.fresh = @ \ {j}]]

statusFor_loading(addr) == "loading"

statusFor(addr) == IF addr = "" THEN "no-wallet" ELSE "loading"

MpInit == /\ mpChain \in [MpItems -> {"pending", "assigned"}]
          /\ mpAddr = "maintainer" /\ mpStatus = "loading" /\ mpCheck = [MpNone EXCEPT !.addr = mpAddr]
          /\ mpApps = {} /\ mpAsgs = {} /\ mpLoad = [l \in MpLoads |-> MpNone] /\ mpCalls = {}
          /\ mpPanel = [open |-> TRUE, pinned |-> FALSE, confirming |-> {}]
          /\ mpClean = {}

-----------------------------------------------------------------------------
(* Role gate. *)

cancelCheck_dropped(addr) == IF addr = "" \/ mpCheck = MpNone THEN [MpNone EXCEPT !.addr = addr] ELSE mpCheck

\* The effect's cleanup cancels the check of the old address.
cancelCheck(addr) == IF addr = "" THEN MpNone ELSE [MpNone EXCEPT !.addr = addr]

\* The wallet changes; the container shows no panel until the role is known.
setMaintainerAddress(addr) ==
  /\ addr # mpAddr
  /\ mpAddr' = addr /\ mpStatus' = statusFor(addr) /\ mpCheck' = cancelCheck(addr)
  /\ mpPanel' = [mpPanel EXCEPT !.open = TRUE, !.pinned = FALSE, !.confirming = {}]
  /\ UNCHANGED <<mpChain, mpApps, mpAsgs, mpLoad, mpCalls, mpClean>>

panelLoad == \E l \in MpLoads :
  /\ mpLoad[l] = MpNone
  /\ mpLoad' = [mpLoad EXCEPT ![l] = [MpNone EXCEPT !.phase = "apps", !.fresh = {i \in MpItems : ~underWay(i)}]]

\* Promise.all over the organisations; a maintainer of any of them is let in, an
\* error is a refusal.  The status effect then loads, also while an earlier load
\* has not ended.
checkRole(answers) ==
  /\ mpCheck # MpNone
  /\ \/ /\ answers /\ mpCheck.addr \in MpRoles
        /\ mpStatus' = "authorized" /\ panelLoad
     \/ /\ ~(answers /\ mpCheck.addr \in MpRoles)
        /\ mpStatus' = "forbidden" /\ UNCHANGED mpLoad
  /\ mpCheck' = MpNone
  /\ UNCHANGED <<mpChain, mpAddr, mpApps, mpAsgs, mpCalls, mpPanel, mpClean>>

-----------------------------------------------------------------------------
(* load. *)

readApplications(l) ==
  /\ mpLoad[l].phase = "apps"
  /\ mpLoad' = [mpLoad EXCEPT ![l] = [@ EXCEPT !.phase = "asgs", !.apps = {i \in MpItems : mpChain[i] = "pending"}]]
  /\ UNCHANGED <<mpChain, mpAddr, mpStatus, mpCheck, mpApps, mpAsgs, mpCalls, mpPanel, mpClean>>

\* The assignments are read after the applications; then both lists are set, by
\* whichever load ends last.
readAssignments(l) ==
  /\ mpLoad[l].phase = "asgs"
  /\ mpApps' = mpLoad[l].apps
  /\ mpAsgs' = {i \in MpItems : mpChain[i] = "assigned"}
  /\ mpClean' = mpLoad[l].fresh
  /\ mpLoad' = [mpLoad EXCEPT ![l] = MpNone]
  /\ UNCHANGED <<mpChain, mpAddr, mpStatus, mpCheck, mpCalls, mpPanel>>

loadFails(l) ==
  /\ mpLoad[l] # MpNone
  /\ mpLoad' = [mpLoad EXCEPT ![l] = MpNone]
  /\ UNCHANGED <<mpChain, mpAddr, mpStatus, mpCheck, mpApps, mpAsgs, mpCalls, mpPanel, mpClean>>

-----------------------------------------------------------------------------
(* Panel. *)

\* Escape, the backdrop and the pin; the rows of a closed panel are gone.
panelShell == /\ mpStatus = "authorized"
              /\ \/ ~mpPanel.open /\ mpPanel' = [mpPanel EXCEPT !.open = TRUE]
                 \/ mpPanel.open /\ mpPanel' = [mpPanel EXCEPT !.pinned = ~@]
                 \/ mpPanel.open /\ mpPanel' = [mpPanel EXCEPT !.open = FALSE, !.confirming = {}]
              /\ UNCHANGED <<mpChain, mpAddr, mpStatus, mpCheck, mpApps, mpAsgs, mpLoad, mpCalls, mpClean>>

\* AppRow: Assign asks for a confirmation, Cancel and Escape take it back.
askConfirm(i) == /\ mpStatus = "authorized" /\ mpPanel.open /\ i \in mpApps
                 /\ mpPanel' = [mpPanel EXCEPT !.confirming = IF i \in @ THEN @ \ {i} ELSE @ \cup {i}]
                 /\ UNCHANGED <<mpChain, mpAddr, mpStatus, mpCheck, mpApps, mpAsgs, mpLoad, mpCalls, mpClean>>

shownRow(c) == /\ mpStatus = "authorized" /\ mpPanel.open
               /\ IF c.op = "assign" THEN c.item \in mpApps \cap mpPanel.confirming ELSE c.item \in mpAsgs

\* The optimistic update of handleAssign, handleComplete and handleRevoke.
startCall(c) ==
  /\ shownRow(c) /\ c \notin mpCalls
  /\ mpApps' = IF c.op = "assign" THEN mpApps \ {c.item} ELSE mpApps
  /\ mpAsgs' = IF c.op = "assign" THEN mpAsgs \cup {c.item} ELSE mpAsgs \ {c.item}
  /\ mpCalls' = mpCalls \cup {c}
  /\ mpPanel' = [mpPanel EXCEPT !.confirming = @ \ {c.item}]
  /\ mpClean' = IF underWay(c.item) THEN mpClean \ {c.item} ELSE mpClean
  /\ mpLoad' = touched(c.item)
  /\ UNCHANGED <<mpChain, mpAddr, mpStatus, mpCheck>>

rollbackRow_dropped(c) == UNCHANGED <<mpApps, mpAsgs>>

rollbackRow(c) == IF c.op = "assign" THEN mpApps' = mpApps \cup {c.item} /\ mpAsgs' = mpAsgs \ {c.item}
               ELSE mpAsgs' = mpAsgs \cup {c.item} /\ UNCHANGED mpApps

allowed(c) == mpChain[c.item] = IF c.op = "assign" THEN "pending" ELSE "assigned"
\* A revoked and a completed assignment are both gone.
settled(c) == [mpChain EXCEPT ![c.item] = IF c.op = "assign" THEN "assigned" ELSE "none"]

succeeds(c) == /\ allowed(c) /\ mpChain' = settled(c)
               /\ UNCHANGED <<mpApps, mpAsgs, mpClean>>

\* The contract refuses, or the user rejects the signature.
refused(c) == /\ rollbackRow(c) /\ UNCHANGED <<mpChain, mpClean>>

\* The transaction went through and its answer did not.
answerLost(c) == /\ allowed(c) /\ mpChain' = settled(c)
                 /\ rollbackRow(c) /\ mpClean' = mpClean \ {c.item}

callEnds(c) == /\ c \in mpCalls
               /\ succeeds(c) \/ refused(c) \/ answerLost(c)
               /\ mpCalls' = mpCalls \ {c}
               /\ mpLoad' = touched(c.item)
               /\ UNCHANGED <<mpAddr, mpStatus, mpCheck, mpPanel>>

\* Somebody else: a contributor applies or withdraws.
elsewhere(i) == /\ mpChain[i] # "assigned"
                /\ mpChain' = [mpChain EXCEPT ![i] = IF @ = "none" THEN "pending" ELSE "none"]
                /\ mpClean' = mpClean \ {i} /\ mpLoad' = touched(i)
                /\ UNCHANGED <<mpAddr, mpStatus, mpCheck, mpApps, mpAsgs, mpCalls, mpPanel>>

MpNext == \/ panelShell
          \/ \E l \in MpLoads : readApplications(l) \/ readAssignments(l) \/ loadFails(l)
          \/ \E addr \in MpWallets : setMaintainerAddress(addr)
          \/ \E answers \in BOOLEAN : checkRole(answers)
          \/ \E c \in MpOps : startCall(c) \/ callEnds(c)
          \/ \E i \in MpItems : askConfirm(i) \/ elsewhere(i)

-----------------------------------------------------------------------------
\* Type invariant; a panel without a wallet says so.
MpTypeOK == /\ mpChain \in [MpItems -> {"none", "pending", "assigned"}]
            /\ mpApps \subseteq MpItems /\ mpAsgs \subseteq MpItems /\ mpCalls \subseteq MpOps
            /\ mpStatus \in {"loading", "authorized", "forbidden", "no-wallet"}
            /\ (mpStatus = "no-wallet") = (mpAddr = "")

\* Only a maintainer sees the panel: an answer about the wallet connected before
\* opens it to nobody.
MpGate == mpStatus = "authorized" => mpAddr \in MpRoles

\* An item at rest is shown as the contract has it, once its call was answered,
\* also when the call was refused or the lists were read again meanwhile, unless
\* somebody else touched it or two calls on it overlapped.
MpExact == \A i \in mpClean : underWay(i) \/ /\ (i \in mpApps) = (mpChain[i] = "pending")
                                             /\ (i \in mpAsgs) = (mpChain[i] = "assigned")
=============================================================================
