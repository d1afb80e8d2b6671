-------------------------- MODULE OrgRegistration --------------------------
(***************************************************************************)
(* Admin routes (src/routes/admin.ts): registering an organisation, which  *)
(* checks GitHub, checks for a duplicate, inserts a row and registers the  *)
(* maintainers on the contract one by one, undoing the row when one fails; *)
(* and handing out (de)registration transactions for maintainers.  Every   *)
(* await is a step, so requests for the same organisation interleave.      *)
(***************************************************************************)
EXTENDS Integers, Sequences, FiniteSets

CONSTANTS
  RegAdmins,       \* requests that may be under way at the same time
  RegOrgs,         \* organisations
  RegMaintainers   \* the maintainers each request names, in order

ASSUME RegAssumption == /\ RegMaintainers \in Seq(STRING) /\ Len(RegMaintainers) > 0
                        /\ "none" \notin RegAdmins

VARIABLES
  regReq,      \* request of each admin: pc, organisation, maintainers done, answer
  regRows,     \* table orgs: the request that inserted each row, or none
  regChain,    \* maintainers registered on the contract, per organisation
  regPending,  \* table pending_transactions: keys with a stored transaction
  regTorn      \* organisations whose registration lost its process or its rollback

regVars == <<regReq, regRows, regChain, regPending, regTorn>>

RegIdle == [pc |-> "idle", org |-> "none", done |-> 0, answer |-> "none"]

RegInit == /\ regReq = [a \in RegAdmins |-> RegIdle]
           /\ regRows = [o \in RegOrgs |-> "none"]
           /\ regChain = [o \in RegOrgs |-> {}]
           /\ regPending = {}
           /\ regTorn = {}

Goto(a, pc) == regReq' = [regReq EXCEPT ![a].pc = pc]
RegAnswer(a, s) == regReq' = [regReq EXCEPT ![a] = [@ EXCEPT !.pc = "idle", !.done = 0, !.answer = s]]
RegStored == UNCHANGED <<regRows, regChain, regPending, regTorn>>

\* signatureAuthMiddleware and the schema refuse, or the request begins.
postOrgs(a) ==
  /\ regReq[a].pc = "idle"
  /\ \/ RegAnswer(a, "401")
     \/ RegAnswer(a, "400")
     \/ \E o \in RegOrgs : regReq' = [regReq EXCEPT ![a] = [RegIdle EXCEPT !.pc = "github", !.org = o]]
  /\ RegStored

\* Only a 404 says that the organisation does not exist.
githubSays(status) == CASE status = 200 -> "true" [] status = 404 -> "false" [] OTHER -> "throws"

\* GitHub knows the organisation, does not (422), or cannot be asked (502).
validateOrg(a) ==
  /\ regReq[a].pc = "github"
  /\ \E status \in {200, 404, 403, 500} :
       CASE githubSays(status) = "true" -> Goto(a, "select")
         [] githubSays(status) = "false" -> RegAnswer(a, "422")
         [] OTHER -> RegAnswer(a, "502")
  /\ RegStored

selectDuplicate(a) ==
  /\ regReq[a].pc = "select"
  /\ IF regRows[regReq[a].org] # "none" THEN RegAnswer(a, "409") ELSE Goto(a, "insert")
  /\ RegStored

\* The primary key refuses a second row; the handler has no catch here, and the
\* unhandled rejection ends the process with every request in it.
Working(a) == regReq[a].pc \in {"register", "rollback"}
Dies == /\ regReq' = [a \in RegAdmins |-> [regReq[a] EXCEPT !.pc = "idle", !.done = 0,
                        !.answer = IF regReq[a].pc = "idle" THEN @ ELSE "none"]]
        /\ regTorn' = regTorn \cup {regReq[a].org : a \in {b \in RegAdmins : Working(b)}}

insertOrg_onConflictDoNothing(a) ==
  /\ regReq[a].pc = "insert"
  /\ regRows' = [regRows EXCEPT ![regReq[a].org] = IF @ = "none" THEN a ELSE @]
  /\ Goto(a, "register")
  /\ UNCHANGED <<regChain, regPending, regTorn>>

\* The columns github_org and org_cap of the statement are made by no migration of
\* the repository; this is the INSERT into a table that has them.
insertOrg(a) ==
  /\ regReq[a].pc = "insert"
  /\ IF regRows[regReq[a].org] = "none"
       THEN /\ regRows' = [regRows EXCEPT ![regReq[a].org] = a]
            /\ Goto(a, "register")
            /\ UNCHANGED regTorn
       ELSE Dies /\ UNCHANGED regRows
  /\ UNCHANGED <<regChain, regPending>>

\* One turn of the loop over the maintainers.  SorobanService has no method of that
\* name yet, so that today every turn is registerMaintainerFails; this is the call as
\* the route means it.
registerMaintainer(a) ==
  LET o == regReq[a].org
      k == regReq[a].done + 1
  IN /\ regReq[a].pc = "register"
     /\ regChain' = [regChain EXCEPT ![o] = @ \cup {RegMaintainers[k]}]
     /\ IF k = Len(RegMaintainers) THEN RegAnswer(a, "201")
                                   ELSE regReq' = [regReq EXCEPT ![a].done = k]
     /\ UNCHANGED <<regRows, regPending, regTorn>>

registerMaintainerFails(a) == /\ regReq[a].pc = "register"
                              /\ Goto(a, "rollback")
                              /\ RegStored

rollback_dropped(a) == /\ regReq[a].pc = "rollback"
                       /\ RegAnswer(a, "502")
                       /\ RegStored

\* DELETE by organisation; the answer is 502 whether or not it worked.
rollback(a) ==
  LET o == regReq[a].org
  IN /\ regReq[a].pc = "rollback"
     /\ \/ /\ regRows' = [regRows EXCEPT ![o] = "none"]
           /\ UNCHANGED regTorn
        \/ /\ regTorn' = regTorn \cup {o}
           /\ UNCHANGED regRows
     /\ RegAnswer(a, "502")
     /\ UNCHANGED <<regChain, regPending>>

pendingKey_swapped(a, m, o) == <<m, a, o>>

pendingKey(a, m, o) == <<a, m, o>>

\* POST /maintainers stores the transaction it hands out; DELETE /maintainers
\* only hands one out.  Both answer 400 on any error.
postMaintainers(a) ==
  /\ regReq[a].pc = "idle"
  /\ \E o \in RegOrgs, k \in DOMAIN RegMaintainers :
       \/ /\ RegAnswer(a, "xdr")
          /\ regPending' = regPending \cup {pendingKey(a, RegMaintainers[k], o)}
       \/ /\ RegAnswer(a, "400")
          /\ UNCHANGED regPending
  /\ UNCHANGED <<regRows, regChain, regTorn>>

deleteMaintainers(a) == /\ regReq[a].pc = "idle"
                        /\ \E s \in {"xdr", "404", "400"} : RegAnswer(a, s)
                        /\ RegStored

ApiDies == /\ \E a \in RegAdmins : regReq[a].pc # "idle"
           /\ Dies
           /\ UNCHANGED <<regRows, regChain, regPending>>

RegStep(a) == \/ validateOrg(a) \/ selectDuplicate(a) \/ insertOrg(a)
              \/ registerMaintainer(a) \/ rollback(a)

RegNext == \/ \E a \in RegAdmins : \/ postOrgs(a) \/ postMaintainers(a) \/ deleteMaintainers(a)
                                   \/ registerMaintainerFails(a) \/ RegStep(a)
           \/ ApiDies

-----------------------------------------------------------------------------
RegAllMaintainers == {RegMaintainers[k] : k \in DOMAIN RegMaintainers}

\* Type invariant.
RegTypeOK ==
  /\ \A a \in RegAdmins :
       /\ regReq[a].pc \in {"idle", "github", "select", "insert", "register", "rollback"}
       /\ regReq[a].org \in RegOrgs \cup {"none"}
       /\ regReq[a].done \in 0..(Len(RegMaintainers) - 1)
  /\ regRows \in [RegOrgs -> RegAdmins \cup {"none"}]
  /\ regChain \in [RegOrgs -> SUBSET RegAllMaintainers]
  /\ regPending \subseteq RegAdmins \X RegAllMaintainers \X RegOrgs

\* An administrator told 201 has a registered organisation: its row is there,
\* even if another request for the same organisation was rolled back in the
\* meantime, and every maintainer is on the contract.
RegSuccessStands ==
  \A a \in RegAdmins : regReq[a].answer = "201" /\ regReq[a].pc = "idle" =>
    /\ regRows[regReq[a].org] # "none"
    /\ regChain[regReq[a].org] = RegAllMaintainers

\* A row is only left without its maintainers by a request still at work, a lost
\* process or a failed rollback: "Rolls back the DB insert if any contract call
\* fails" (src/routes/admin.ts:171).
RegNoOrphanRow ==
  \A o \in RegOrgs : regRows[o] # "none" =>
    \/ regChain[o] = RegAllMaintainers
    \/ o \in regTorn
    \/ \E a \in RegAdmins : Working(a) /\ regReq[a].org = o
=============================================================================
