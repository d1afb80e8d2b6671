---------------------------- MODULE SafetyProofs ----------------------------
(***************************************************************************)
(* Proofs about the components of MCSafety, for every value of their       *)
(* constants.  For each component: an inductive invariant, the lemma that  *)
(* its own initial states and steps keep it, and what follows from it.     *)
(* The theorems at the end lift them to the specification of the run.      *)
(***************************************************************************)
EXTENDS MCSafety, FoldLemmas, SequenceTheorems, FiniteSetTheorems, TLAPS

-----------------------------------------------------------------------------
(* Registration of an organisation (OrgRegistration). *)

RegAnswers == {"none", "401", "400", "422", "502", "409", "201", "xdr", "404"}
RegReqs == [pc : {"idle", "github", "select", "insert", "register", "rollback"}, org : RegOrgs \cup {"none"},
            done : 0..(Len(RegMaintainers) - 1), answer : RegAnswers]

\* A request between its INSERT and its answer owns the row of its organisation,
\* and so does an administrator told 201: only the owner's rollback deletes it.
RegReqOK(a) ==
  /\ regReq[a].pc # "idle" => regReq[a].org \in RegOrgs
  /\ regReq[a].pc \in {"github", "select", "insert"} => regReq[a].done = 0
  /\ Working(a) => regRows[regReq[a].org] = a
  /\ regReq[a].pc = "register" => \A j \in 1..regReq[a].done : RegMaintainers[j] \in regChain[regReq[a].org]
  /\ regReq[a].answer = "201" /\ regReq[a].pc = "idle" =>
       /\ regReq[a].org \in RegOrgs /\ regRows[regReq[a].org] = a
       /\ regChain[regReq[a].org] = RegAllMaintainers

RegTables == /\ regRows \in [RegOrgs -> RegAdmins \cup {"none"}]
             /\ regChain \in [RegOrgs -> SUBSET RegAllMaintainers]

RegInv == /\ regReq \in [RegAdmins -> RegReqs] /\ RegTables
          /\ \A a \in RegAdmins : RegReqOK(a)
          /\ RegNoOrphanRow

\* An answer leaves the organisation of the request.
LEMMA RegAnswered ==
  ASSUME NEW q \in RegReqs, NEW s \in RegAnswers
  PROVE  LET r == [q EXCEPT !.pc = "idle", !.done = 0, !.answer = s]
         IN  r \in RegReqs /\ r.pc = "idle" /\ r.org = q.org /\ r.answer = s
  <1> DEFINE p == [q EXCEPT !.pc = "idle", !.answer = s]
  <1>1. Len(RegMaintainers) - 1 \in Nat
    BY RegAssumption
  <1>2. p \in RegReqs /\ p.pc = "idle" /\ p.org = q.org /\ p.answer = s
    BY DEF RegReqs
  <1>3. [q EXCEPT !.pc = "idle", !.done = 0, !.answer = s] = [p EXCEPT !.done = 0]
    BY DEF RegReqs
  <1> HIDE DEF p
  <1>4. [p EXCEPT !.done = 0] \in RegReqs /\ [p EXCEPT !.done = 0].pc = p.pc
        /\ [p EXCEPT !.done = 0].org = p.org /\ [p EXCEPT !.done = 0].answer = p.answer
    BY <1>1, <1>2 DEF RegReqs
  <1>5. QED
    BY <1>2, <1>3, <1>4

\* A step of request a that touches no row but its own keeps what holds of the
\* other requests.
LEMMA RegReqStep ==
  ASSUME RegInv, NEW a \in RegAdmins, NEW r \in RegReqs, regReq' = [regReq EXCEPT ![a] = r], RegTables',
         \A o \in RegOrgs : regChain[o] \subseteq regChain'[o],
         \A o \in RegOrgs : regRows'[o] # regRows[o] => regRows[o] \in {a, "none"},
         RegReqOK(a)', RegNoOrphanRow'
  PROVE  RegInv'
  <1>1. regReq' \in [RegAdmins -> RegReqs] /\ \A b \in RegAdmins \ {a} : regReq'[b] = regReq[b]
    BY DEF RegInv
  <1>2. ASSUME NEW b \in RegAdmins, b # a PROVE RegReqOK(b)'
    <2>1. regReq'[b] = regReq[b] /\ RegReqOK(b) /\ b # "none"
      BY <1>1, <1>2, RegAssumption DEF RegInv
    <2>2. \A o \in RegOrgs : regRows[o] = b => regRows'[o] = b
      BY <1>2, <2>1
    <2>3. \A o \in RegOrgs : regChain[o] = RegAllMaintainers => regChain'[o] = RegAllMaintainers
      BY DEF RegTables
    <2>4. Working(b)' <=> Working(b)
      BY <2>1 DEF Working
    <2>5. QED
      BY <2>1, <2>2, <2>3, <2>4 DEF RegReqOK, Working
  <1>3. QED
    BY <1>1, <1>2 DEF RegInv

\* A step that leaves the tables alone.
LEMMA RegQuietStep ==
  ASSUME RegInv, NEW a \in RegAdmins, NEW r \in RegReqs, regReq' = [regReq EXCEPT ![a] = r],
         UNCHANGED <<regRows, regChain, regTorn>>,
         Working(a) => r.pc \in {"register", "rollback"} /\ r.org = regReq[a].org,
         RegReqOK(a)'
  PROVE  RegInv'
  <1>1. regReq'[a] = r /\ \A b \in RegAdmins \ {a} : regReq'[b] = regReq[b]
    BY DEF RegInv
  <1>2. ASSUME NEW o \in RegOrgs, NEW b \in RegAdmins, Working(b), regReq[b].org = o
        PROVE  Working(b)' /\ regReq'[b].org = o
    BY <1>1, <1>2 DEF Working
  <1>3. RegNoOrphanRow'
    BY <1>2 DEF RegInv, RegNoOrphanRow
  <1>4. RegTables' /\ \A o \in RegOrgs : regChain[o] \subseteq regChain'[o]
    BY DEF RegInv, RegTables
  <1>5. QED
    BY <1>3, <1>4, RegReqStep

\* An answer other than 201 of a request that had not inserted its row.
LEMMA RegRefusal ==
  ASSUME RegInv, NEW a \in RegAdmins, NEW s \in RegAnswers \ {"201"}, RegAnswer(a, s), ~Working(a),
         UNCHANGED <<regRows, regChain, regTorn>>
  PROVE  RegInv'
  <1>1. PICK r : r = [regReq[a] EXCEPT !.pc = "idle", !.done = 0, !.answer = s]
    OBVIOUS
  <1>2. regReq[a] \in RegReqs
    BY DEF RegInv
  <1>3. r \in RegReqs /\ r.pc = "idle" /\ r.answer = s
    BY <1>1, <1>2, RegAnswered
  <1>4. regReq' = [regReq EXCEPT ![a] = r]
    BY <1>1, <1>2 DEF RegAnswer, RegInv
  <1>5. regReq'[a] = r
    BY <1>4 DEF RegInv
  <1>6. RegReqOK(a)'
    BY <1>3, <1>5 DEF RegReqOK, Working
  <1>7. QED
    BY <1>3, <1>4, <1>6, RegQuietStep

\* A request goes on to the next await without touching the tables.
LEMMA RegGoesOn ==
  ASSUME RegInv, NEW a \in RegAdmins, NEW pc \in {"select", "insert", "rollback"}, Goto(a, pc),
         regReq[a].pc # "idle", pc = "rollback" <=> Working(a), UNCHANGED <<regRows, regChain, regTorn>>
  PROVE  RegInv'
  <1>1. PICK r : r = [regReq[a] EXCEPT !.pc = pc]
    OBVIOUS
  <1>2. regReq[a] \in RegReqs /\ RegReqOK(a)
    BY DEF RegInv
  <1>3. r \in RegReqs /\ r.pc = pc /\ r.org = regReq[a].org /\ r.done = regReq[a].done
    BY <1>1, <1>2 DEF RegReqs
  <1>4. regReq' = [regReq EXCEPT ![a] = r] /\ regReq'[a] = r
    BY <1>1, <1>2 DEF Goto, RegInv
  <1>5. ~Working(a) => regReq[a].done = 0
    BY <1>2 DEF RegReqs, RegReqOK, Working
  <1>6. RegReqOK(a)'
    BY <1>2, <1>3, <1>4, <1>5 DEF RegReqOK, Working
  <1>7. QED
    BY <1>3, <1>4, <1>6, RegQuietStep

\* The process dies: no request is at work, and the organisations of those that
\* were are noted as torn.
LEMMA RegDies ==
  ASSUME RegInv, Dies, UNCHANGED <<regRows, regChain>> PROVE RegInv'
  <1>1. ASSUME NEW a \in RegAdmins
        PROVE /\ regReq'[a] \in RegReqs /\ regReq'[a].pc = "idle" /\ regReq'[a].org = regReq[a].org
              /\ regReq'[a].answer = "201" => regReq[a].answer = "201" /\ regReq[a].pc = "idle"
    <2>1. PICK s : s = IF regReq[a].pc = "idle" THEN regReq[a].answer ELSE "none"
      OBVIOUS
    <2>2. regReq[a] \in RegReqs
      BY DEF RegInv
    <2>3. s \in RegAnswers /\ (s = "201" => regReq[a].answer = "201" /\ regReq[a].pc = "idle")
      <3>1. regReq[a].answer \in RegAnswers
        BY <2>2 DEF RegReqs
      <3>2. CASE regReq[a].pc = "idle"
        BY <2>1, <3>1, <3>2
      <3>3. CASE regReq[a].pc # "idle"
        BY <2>1, <3>3 DEF RegAnswers
      <3>4. QED
        BY <3>2, <3>3
    <2>4. PICK r : r = [regReq[a] EXCEPT !.pc = "idle", !.done = 0, !.answer = s]
      OBVIOUS
    <2>5. r \in RegReqs /\ r.pc = "idle" /\ r.org = regReq[a].org /\ r.answer = s
      BY <2>2, <2>3, <2>4, RegAnswered
    <2>6. regReq'[a] = r
      BY <2>1, <2>4 DEF Dies
    <2>7. QED
      BY <2>3, <2>5, <2>6
  <1>2. regReq' \in [RegAdmins -> RegReqs]
    BY <1>1 DEF Dies
  <1>3. \A a \in RegAdmins : RegReqOK(a)'
    BY <1>1 DEF RegInv, RegReqOK, Working
  <1>4. ASSUME NEW o \in RegOrgs, regRows[o] # "none" PROVE regChain[o] = RegAllMaintainers \/ o \in regTorn'
    <2>1. CASE \E b \in RegAdmins : Working(b) /\ regReq[b].org = o
      BY <2>1 DEF Dies
    <2>2. CASE regChain[o] = RegAllMaintainers \/ o \in regTorn
      BY <2>2 DEF Dies
    <2>3. QED
      BY <1>4, <2>1, <2>2 DEF RegInv, RegNoOrphanRow
  <1>5. RegNoOrphanRow'
    BY <1>4 DEF RegNoOrphanRow
  <1>6. QED
    BY <1>2, <1>3, <1>5 DEF RegInv, RegTables

LEMMA RegInserts == ASSUME RegInv, NEW a \in RegAdmins, insertOrg(a) PROVE RegInv'
  <1> DEFINE o == regReq[a].org
  <1>1. regReq[a] \in RegReqs /\ RegReqOK(a) /\ regReq[a].pc = "insert" /\ o \in RegOrgs
    BY DEF RegInv, insertOrg, RegReqOK
  <1>2. CASE regRows[o] # "none"
    BY <1>2, RegDies DEF insertOrg
  <1>3. CASE regRows[o] = "none"
    <2>1. PICK r : r = [regReq[a] EXCEPT !.pc = "register"]
      OBVIOUS
    <2>2. r \in RegReqs /\ r.pc = "register" /\ r.org = o /\ r.done = regReq[a].done /\ r.answer = regReq[a].answer
      BY <1>1, <2>1 DEF RegReqs
    <2>3. /\ regReq' = [regReq EXCEPT ![a] = r] /\ regReq'[a] = r /\ regRows' = [regRows EXCEPT ![o] = a]
          /\ UNCHANGED <<regChain, regTorn>> /\ \A b \in RegAdmins \ {a} : regReq'[b] = regReq[b]
      BY <1>1, <1>3, <2>1 DEF insertOrg, Goto, RegInv
    <2> HIDE DEF o
    <2>4. /\ RegTables' /\ regRows'[o] = a /\ \A p \in RegOrgs \ {o} : regRows'[p] = regRows[p]
          /\ \A p \in RegOrgs : regChain[p] \subseteq regChain'[p]
      BY <1>1, <2>3 DEF RegInv, RegTables
    <2>5. regReq[a].done = 0
      BY <1>1 DEF RegReqOK
    <2>6. RegReqOK(a)'
      BY <1>1, <2>2, <2>3, <2>4, <2>5 DEF RegReqOK, Working
    <2>7. ASSUME NEW p \in RegOrgs, regRows'[p] # "none"
          PROVE  regChain[p] = RegAllMaintainers \/ p \in regTorn \/ \E b \in RegAdmins : Working(b)' /\ regReq'[b].org = p
      <3>1. CASE p = o
        BY <3>1, <2>2, <2>3 DEF Working
      <3>2. CASE p # o
        <4>1. \A b \in RegAdmins : Working(b) => b # a
          BY <1>1 DEF Working
        <4>2. \A b \in RegAdmins : Working(b) /\ regReq[b].org = p => Working(b)' /\ regReq'[b].org = p
          BY <4>1, <2>3 DEF Working
        <4>3. QED
          BY <3>2, <4>2, <2>4, <2>7 DEF RegInv, RegNoOrphanRow
      <3>3. QED
        BY <3>1, <3>2
    <2>8. RegNoOrphanRow'
      BY <2>3, <2>7 DEF RegNoOrphanRow
    <2>9. QED
      BY <1>3, <2>2, <2>3, <2>4, <2>6, <2>8, RegReqStep
  <1>4. QED
    BY <1>2, <1>3

LEMMA RegRegisters == ASSUME RegInv, NEW a \in RegAdmins, registerMaintainer(a) PROVE RegInv'
  <1> DEFINE o == regReq[a].org
             k == regReq[a].done + 1
             chain == regChain[o] \cup {RegMaintainers[k]}
  <1>1. regReq[a] \in RegReqs /\ RegReqOK(a) /\ regReq[a].pc = "register" /\ Working(a)
    BY DEF RegInv, registerMaintainer, Working
  <1>2. o \in RegOrgs /\ regRows[o] = a /\ \A j \in 1..regReq[a].done : RegMaintainers[j] \in regChain[o]
    BY <1>1 DEF RegReqOK
  <1>3. Len(RegMaintainers) \in Nat /\ DOMAIN RegMaintainers = 1..Len(RegMaintainers) /\ Len(RegMaintainers) > 0
    BY RegAssumption
  <1>4. k \in 1..Len(RegMaintainers) /\ regReq[a].done \in Nat
    BY <1>1, <1>3 DEF RegReqs
  <1>5. chain \subseteq RegAllMaintainers /\ \A j \in 1..k : RegMaintainers[j] \in chain
    BY <1>2, <1>3, <1>4 DEF RegInv, RegTables, RegAllMaintainers
  <1>6. regChain' = [regChain EXCEPT ![o] = chain] /\ UNCHANGED <<regRows, regTorn>>
    BY <1>2 DEF registerMaintainer, RegInv, RegTables
  <1>7. k = Len(RegMaintainers) => chain = RegAllMaintainers
    BY <1>3, <1>5 DEF RegAllMaintainers
  <1>8. PICK ch : ch = chain
    OBVIOUS
  <1>9. /\ RegTables' /\ regChain'[o] = ch /\ \A p \in RegOrgs \ {o} : regChain'[p] = regChain[p]
        /\ \A p \in RegOrgs : regChain[p] \subseteq regChain'[p]
    BY <1>2, <1>5, <1>6, <1>8 DEF RegInv, RegTables
  <1>10. CASE k = Len(RegMaintainers)
    <2>1. PICK r : r = [regReq[a] EXCEPT !.pc = "idle", !.done = 0, !.answer = "201"]
      OBVIOUS
    <2>2. r \in RegReqs /\ r.pc = "idle" /\ r.org = o /\ r.answer = "201"
      BY <1>1, <2>1, RegAnswered DEF RegAnswers
    <2>3. RegAnswer(a, "201")
      BY <1>10 DEF registerMaintainer
    <2>4. regReq' = [regReq EXCEPT ![a] = r] /\ regReq'[a] = r /\ \A b \in RegAdmins \ {a} : regReq'[b] = regReq[b]
      BY <2>1, <2>3 DEF RegAnswer, RegInv
    <2>5. regChain'[o] = RegAllMaintainers
      BY <1>7, <1>8, <1>9, <1>10
    <2>6. RegReqOK(a)'
      BY <1>2, <1>6, <2>2, <2>4, <2>5 DEF RegReqOK, Working
    <2>7. ASSUME NEW p \in RegOrgs, p # o, NEW b \in RegAdmins, Working(b), regReq[b].org = p
          PROVE  Working(b)' /\ regReq'[b].org = p
      BY <2>4, <2>7 DEF Working
    <2>8. RegNoOrphanRow'
      BY <1>6, <1>9, <2>5, <2>7 DEF RegInv, RegNoOrphanRow
    <2>9. QED
      BY <1>6, <1>9, <2>2, <2>4, <2>6, <2>8, RegReqStep
  <1>11. CASE k # Len(RegMaintainers)
    <2>1. PICK r : r = [regReq[a] EXCEPT !.done = k]
      OBVIOUS
    <2>2. r \in RegReqs /\ r.pc = "register" /\ r.org = o /\ r.done = k
      BY <1>1, <1>3, <1>4, <1>11, <2>1 DEF RegReqs
    <2>3. regReq' = [regReq EXCEPT ![a] = r] /\ regReq'[a] = r /\ \A b \in RegAdmins \ {a} : regReq'[b] = regReq[b]
      BY <1>11, <2>1 DEF registerMaintainer, RegInv
    <2>4. RegReqOK(a)'
      BY <1>2, <1>5, <1>6, <1>8, <1>9, <2>2, <2>3 DEF RegReqOK, Working
    <2>5. ASSUME NEW p \in RegOrgs, NEW b \in RegAdmins, Working(b), regReq[b].org = p
          PROVE  Working(b)' /\ regReq'[b].org = p
      BY <2>2, <2>3, <2>5 DEF Working
    <2>6. \A p \in RegOrgs : regChain[p] = RegAllMaintainers => regChain'[p] = RegAllMaintainers
      BY <1>9 DEF RegTables
    <2>7. RegNoOrphanRow'
      BY <1>6, <2>5, <2>6 DEF RegInv, RegNoOrphanRow
    <2>8. QED
      BY <1>6, <1>9, <2>2, <2>3, <2>4, <2>7, RegReqStep
  <1>12. QED
    BY <1>10, <1>11

LEMMA RegRollsBack == ASSUME RegInv, NEW a \in RegAdmins, rollback(a) PROVE RegInv'
  <1> DEFINE o == regReq[a].org
  <1>1. regReq[a] \in RegReqs /\ RegReqOK(a) /\ Working(a)
    BY DEF RegInv, rollback, Working
  <1>2. o \in RegOrgs /\ regRows[o] = a
    BY <1>1 DEF RegReqOK, Working
  <1>3. PICK r : r = [regReq[a] EXCEPT !.pc = "idle", !.done = 0, !.answer = "502"]
    OBVIOUS
  <1>4. r \in RegReqs /\ r.pc = "idle" /\ r.answer = "502"
    BY <1>1, <1>3, RegAnswered DEF RegAnswers
  <1>5. /\ regReq' = [regReq EXCEPT ![a] = r] /\ regReq'[a] = r /\ \A b \in RegAdmins \ {a} : regReq'[b] = regReq[b]
        /\ UNCHANGED regChain /\ regTorn \subseteq regTorn'
        /\ (regRows' = [regRows EXCEPT ![o] = "none"]) \/ (o \in regTorn' /\ UNCHANGED regRows)
    BY <1>3 DEF rollback, RegAnswer, RegInv
  <1>6. RegReqOK(a)'
    BY <1>4, <1>5 DEF RegReqOK, Working
  <1>7. PICK p \in RegOrgs : p = o
    BY <1>2
  <1>8. /\ RegTables' /\ (regRows'[p] = "none" \/ p \in regTorn') /\ \A x \in RegOrgs \ {p} : regRows'[x] = regRows[x]
        /\ \A x \in RegOrgs : regChain[x] \subseteq regChain'[x]
    BY <1>5, <1>7 DEF RegInv, RegTables
  <1>9. ASSUME NEW x \in RegOrgs, x # p, NEW b \in RegAdmins, Working(b), regReq[b].org = x
        PROVE  Working(b)' /\ regReq'[b].org = x
    BY <1>5, <1>7, <1>9 DEF Working
  <1>10. RegNoOrphanRow'
    BY <1>5, <1>8, <1>9 DEF RegInv, RegNoOrphanRow
  <1>11. QED
    BY <1>2, <1>4, <1>5, <1>6, <1>7, <1>8, <1>10, RegReqStep

LEMMA RegInductive == RegInit /\ [][RegNext]_regVars => []RegInv
  <1>1. RegInit => RegInv
    <2> SUFFICES ASSUME RegInit PROVE RegInv
      OBVIOUS
    <2>1. RegIdle \in RegReqs /\ RegIdle.pc = "idle" /\ RegIdle.answer = "none"
      BY RegAssumption DEF RegIdle, RegReqs, RegAnswers
    <2>2. /\ regReq = [a \in RegAdmins |-> RegIdle] /\ regRows = [o \in RegOrgs |-> "none"]
          /\ regChain = [o \in RegOrgs |-> {}]
      BY DEF RegInit
    <2>3. QED
      BY <2>1, <2>2 DEF RegInv, RegTables, RegReqOK, RegNoOrphanRow, Working
  <1>2. RegInv /\ [RegNext]_regVars => RegInv'
    <2> SUFFICES ASSUME RegInv, [RegNext]_regVars PROVE RegInv'
      OBVIOUS
    <2>1. CASE UNCHANGED regVars
      BY <2>1 DEF regVars, RegInv, RegTables, RegReqOK, RegNoOrphanRow, Working
    <2>2. ASSUME NEW a \in RegAdmins, postOrgs(a) PROVE RegInv'
      <3>1. ~Working(a) /\ UNCHANGED <<regRows, regChain, regTorn>>
        BY <2>2 DEF postOrgs, Working, RegStored
      <3>2. CASE RegAnswer(a, "401") \/ RegAnswer(a, "400")
        BY <3>1, <3>2, RegRefusal DEF RegAnswers
      <3>3. ASSUME NEW o \in RegOrgs, regReq' = [regReq EXCEPT ![a] = [RegIdle EXCEPT !.pc = "github", !.org = o]]
            PROVE RegInv'
        <4>1. PICK r : r = [RegIdle EXCEPT !.pc = "github", !.org = o]
          OBVIOUS
        <4>2. r \in RegReqs /\ r.pc = "github" /\ r.org = o /\ r.done = 0
          <5>1. RegIdle \in RegReqs /\ RegIdle.done = 0
            BY RegAssumption DEF RegIdle, RegReqs, RegAnswers
          <5>2. QED
            BY <4>1, <5>1 DEF RegReqs
        <4>3. regReq' = [regReq EXCEPT ![a] = r] /\ regReq'[a] = r
          BY <3>3, <4>1 DEF RegInv
        <4>4. RegReqOK(a)'
          BY <4>2, <4>3 DEF RegReqOK, Working
        <4>5. QED
          BY <3>1, <4>2, <4>3, <4>4, RegQuietStep
      <3>4. QED
        BY <2>2, <3>2, <3>3 DEF postOrgs
    <2>3. ASSUME NEW a \in RegAdmins, validateOrg(a) PROVE RegInv'
      <3>1. regReq[a].pc = "github" /\ ~Working(a) /\ UNCHANGED <<regRows, regChain, regTorn>>
        BY <2>3 DEF validateOrg, Working, RegStored
      <3>2. Goto(a, "select") \/ RegAnswer(a, "422") \/ RegAnswer(a, "502")
        BY <2>3 DEF validateOrg
      <3>3. QED
        BY <3>1, <3>2, RegGoesOn, RegRefusal DEF RegAnswers
    <2>4. ASSUME NEW a \in RegAdmins, selectDuplicate(a) PROVE RegInv'
      <3>1. regReq[a].pc = "select" /\ ~Working(a) /\ UNCHANGED <<regRows, regChain, regTorn>>
        BY <2>4 DEF selectDuplicate, Working, RegStored
      <3>2. Goto(a, "insert") \/ RegAnswer(a, "409")
        BY <2>4 DEF selectDuplicate
      <3>3. QED
        BY <3>1, <3>2, RegGoesOn, RegRefusal DEF RegAnswers
    <2>5. ASSUME NEW a \in RegAdmins, registerMaintainerFails(a) PROVE RegInv'
      BY <2>5, RegGoesOn DEF registerMaintainerFails, Working, RegStored
    <2>6. ASSUME NEW a \in RegAdmins, postMaintainers(a) \/ deleteMaintainers(a) PROVE RegInv'
      <3>1. ~Working(a) /\ UNCHANGED <<regRows, regChain, regTorn>>
        BY <2>6 DEF postMaintainers, deleteMaintainers, Working, RegStored
      <3>2. \E s \in {"xdr", "404", "400"} : RegAnswer(a, s)
        BY <2>6 DEF postMaintainers, deleteMaintainers
      <3>3. QED
        BY <3>1, <3>2, RegRefusal DEF RegAnswers
    <2>7. CASE ApiDies
      BY <2>7, RegDies DEF ApiDies
    <2>8. QED
      BY <2>1, <2>2, <2>3, <2>4, <2>5, <2>6, <2>7, RegInserts, RegRegisters, RegRollsBack DEF RegNext, RegStep
  <1>3. QED
    BY <1>1, <1>2, PTL

LEMMA RegResult == RegInv => RegSuccessStands /\ RegNoOrphanRow
  BY RegAssumption DEF RegInv, RegReqOK, RegSuccessStands

-----------------------------------------------------------------------------
(* One request at a time (RegisterOrg, TxControls, OrgManagement, IssueCard). *)

\* The wizard: busy exactly as long as one request is out.
RoSending == \/ roBusy = FALSE /\ roSent = <<>>
             \/ roBusy = TRUE /\ \E x : roSent = <<x>>

LEMMA RoInductive == RoInit /\ [][RoNext]_roVars => []RoSending
  <1>1. RoInit => RoSending
    BY DEF RoInit, RoSending
  <1>2. RoSending /\ [RoNext]_roVars => RoSending'
    <2> SUFFICES ASSUME RoSending, [RoNext]_roVars PROVE RoSending'
      OBVIOUS
    <2>1. CASE UNCHANGED <<roSent, roBusy>>
      BY <2>1 DEF RoSending
    <2>2. CASE handleSubmit
      <3>1. PICK x : roSent' = Append(roSent, x)
        BY <2>2 DEF handleSubmit
      <3>2. roSent = <<>> /\ roBusy' = TRUE
        BY <2>2 DEF handleSubmit, submitEnabled, RoSending
      <3>3. Append(<<>>, x) = <<x>>
        OBVIOUS
      <3>4. QED
        BY <3>1, <3>2, <3>3 DEF RoSending
    <2>3. ASSUME NEW reply, submitReply(reply) PROVE RoSending'
      <3>1. roSent # <<>> /\ roSent' = Tail(roSent) /\ roBusy' = FALSE
        BY <2>3 DEF submitReply
      <3>2. PICK x : roSent = <<x>>
        BY <3>1 DEF RoSending
      <3>3. Tail(<<x>>) = <<>>
        OBVIOUS
      <3>4. QED
        BY <3>1, <3>2, <3>3 DEF RoSending
    <2>4. QED
      BY <2>1, <2>2, <2>3 DEF RoNext, roVars, handleSaveKey, clearKey, checkGitHubOrg, setGithubStatus, wizardStep,
         handleOrgIdChange
  <1>3. QED
    BY <1>1, <1>2, PTL

LEMMA RoResult == RoSending => RoOneRequest
  BY DEF RoSending, RoOneRequest

-----------------------------------------------------------------------------
\* The dialog, the withdraw button and the extension, and what their timers show.
TcInv == /\ tcWithdraw \in [state : {"idle", "confirming", "submitting", "withdrawn", "error"}, calls : Nat]
         /\ TcOneWithdrawal
         /\ TcDecisionIsOwn
         /\ tcTtl \in [busy : BOOLEAN, sent : Nat, shown : Nat] /\ tcNow \in Nat
         /\ tcNow <= tcTtl.shown + 1 /\ TcExtendInTime

LEMMA TcInductive == TcInit /\ [][TcNext]_tcVars => []TcInv
  <1>0. TcExpiry \in Nat
    BY TcAssumption
  <1>1. TcInit => TcInv
    BY <1>0 DEF TcInit, TcInv, TcOneWithdrawal, TcDecisionIsOwn, TcExtendInTime
  <1>2. TcInv /\ [TcNext]_tcVars => TcInv'
    <2> SUFFICES ASSUME TcInv, [TcNext]_tcVars PROVE TcInv'
      OBVIOUS
    <2>1. CASE UNCHANGED <<tcWithdraw, tcTtl, tcNow, tcDialog>>
      BY <2>1 DEF TcInv, TcOneWithdrawal, TcDecisionIsOwn, TcExtendInTime, tcDialog
    <2>2. ASSUME UNCHANGED <<tcWithdraw, tcTtl, tcNow>>, TcDecisionIsOwn' PROVE TcInv'
      BY <2>2 DEF TcInv, TcOneWithdrawal, TcExtendInTime
    <2>3. CASE (\E k \in TcCallers : confirm(k)) \/ setStatus \/ close \/ resolveConfirm \/ rejectConfirm
      <3>1. UNCHANGED <<tcWithdraw, tcTtl, tcNow>>
        BY <2>3 DEF confirm, setStatus, close, resolveConfirm, rejectConfirm, OnlyModal
      <3>0. tcDetails = tcResolver /\ \A k \in tcAwait \ tcLeft : tcModal # "idle" /\ tcResolver = {k}
        BY DEF TcInv, TcDecisionIsOwn
      <3>2. TcDecisionIsOwn'
        <4>1. ASSUME NEW k, confirm(k) PROVE TcDecisionIsOwn'
          BY <3>0, <4>1 DEF TcDecisionIsOwn, confirm, resolverOf
        <4>2. CASE setStatus
          BY <3>0, <4>2 DEF TcDecisionIsOwn, setStatus
        <4>3. CASE close
          BY <3>0, <4>3 DEF TcDecisionIsOwn, close, closed
        <4>4. CASE resolveConfirm
          BY <3>0, <4>4 DEF TcDecisionIsOwn, resolveConfirm
        <4>5. CASE rejectConfirm
          <5>1. tcAwait' = tcAwait \ tcResolver /\ tcLeft' = tcLeft /\ tcDetails' = {} /\ tcResolver' = {}
            BY <4>5 DEF rejectConfirm, closed
          <5>2. tcAwait' \ tcLeft' = {}
            BY <3>0, <5>1
          <5>3. QED
            BY <5>1, <5>2 DEF TcDecisionIsOwn
        <4>6. QED
          BY <2>3, <4>1, <4>2, <4>3, <4>4, <4>5
      <3>3. QED
        BY <2>2, <3>1, <3>2
    <2>4. ASSUME UNCHANGED <<tcDialog, tcTtl, tcNow>>, TcOneWithdrawal',
                 tcWithdraw' \in [state : {"idle", "confirming", "submitting", "withdrawn", "error"}, calls : Nat]
          PROVE TcInv'
      BY <2>4 DEF TcInv, TcDecisionIsOwn, TcExtendInTime, tcDialog
    <2>5. CASE requestWithdraw \/ cancelWithdraw \/ confirmWithdraw \/ \E ok \in BOOLEAN : withdrawEnds(ok)
      <3>1. tcWithdraw.calls \in Nat /\ tcWithdraw.calls = (IF tcWithdraw.state = "submitting" THEN 1 ELSE 0)
        BY DEF TcInv, TcOneWithdrawal
      <3>2. UNCHANGED <<tcDialog, tcTtl, tcNow>>
        BY <2>5 DEF requestWithdraw, cancelWithdraw, confirmWithdraw, withdrawEnds, setWithdraw, OnlyWithdraw
      <3>3. \/ tcWithdraw' = [state |-> "confirming", calls |-> 0]
            \/ tcWithdraw' = [state |-> "idle", calls |-> 0]
            \/ tcWithdraw' = [state |-> "submitting", calls |-> 1]
            \/ tcWithdraw' = [state |-> "error", calls |-> 0]
            \/ tcWithdraw' = [state |-> "withdrawn", calls |-> 0]
        BY <2>5, <3>1 DEF requestWithdraw, cancelWithdraw, confirmWithdraw, withdrawEnds, setWithdraw, triggerEnabled
      <3>4. QED
        BY <2>4, <3>2, <3>3 DEF TcOneWithdrawal
    <2>6. ASSUME UNCHANGED <<tcDialog, tcWithdraw>>, tcTtl' \in [busy : BOOLEAN, sent : Nat, shown : Nat],
                 tcNow' \in Nat, tcNow' <= tcTtl'.shown + 1, tcTtl'.sent <= TcExpiry
          PROVE TcInv'
      BY <2>6 DEF TcInv, TcDecisionIsOwn, TcOneWithdrawal, TcExtendInTime, tcDialog
    <2>7. /\ tcTtl \in [busy : BOOLEAN, sent : Nat, shown : Nat] /\ tcNow \in Nat
          /\ tcNow <= tcTtl.shown + 1 /\ tcTtl.sent <= TcExpiry
      BY DEF TcInv, TcExtendInTime
    <2>8. CASE handleExtend
      <3>1. UNCHANGED <<tcDialog, tcWithdraw, tcNow>> /\ tcTtl' = [tcTtl EXCEPT !.busy = TRUE, !.sent = tcNow]
        BY <2>8 DEF handleExtend, OnlyTtl
      <3>2. tcNow <= TcExpiry
        BY <1>0, <2>7, <2>8 DEF handleExtend, extendEnabled, remainingSeconds
      <3>3. QED
        BY <2>6, <2>7, <3>1, <3>2
    <2>9. CASE extendEnds
      <3>1. UNCHANGED <<tcDialog, tcWithdraw, tcNow>> /\ tcTtl' = [tcTtl EXCEPT !.busy = FALSE]
        BY <2>9 DEF extendEnds, OnlyTtl
      <3>2. QED
        BY <2>6, <2>7, <3>1
    <2>10. CASE TcTick
      <3>1. UNCHANGED <<tcDialog, tcWithdraw>> /\ tcNow' = tcNow + 1
        BY <2>10 DEF TcTick, OnlyTtl
      <3>2. PICK s \in {tcNow, tcNow + 1} : tcTtl' = [tcTtl EXCEPT !.shown = s]
        BY <2>10 DEF TcTick
      <3>3. tcTtl' \in [busy : BOOLEAN, sent : Nat, shown : Nat] /\ tcTtl'.shown = s /\ tcTtl'.sent = tcTtl.sent
        BY <2>7, <3>2
      <3>4. QED
        BY <2>6, <2>7, <3>1, <3>2, <3>3
    <2>11. QED
      BY <2>1, <2>3, <2>5, <2>8, <2>9, <2>10 DEF TcNext, tcVars, setCounts, apply, limitApply, limitApplyEnds, applyEnds,
         OnlyApply, tcDialog
  <1>3. QED
    BY <1>1, <1>2, PTL

-----------------------------------------------------------------------------
\* The administrator's form: busy from the submission to the end of the load that
\* follows it, with at most one call out, and none once the load is awaited.
OmSending == /\ omBusy \in BOOLEAN /\ omCount \in Nat
             /\ ~omBusy => omCalls = {} /\ omAwaits = 0
             /\ omAwaits # 0 => omCalls = {}
             /\ omCalls = {} \/ \E c : omCalls = {c} /\ c[1]
             /\ \A r \in omReads : r[1] # 0

LEMMA OmInductive == OmInit /\ [][OmNext]_omVars => []OmSending
  <1>1. OmInit => OmSending
    <2> SUFFICES ASSUME OmInit PROVE OmSending
      OBVIOUS
    <2>1. omReads = {} \/ omReads = {<<1, FALSE, {}>>}
      BY DEF OmInit
    <2>2. \A r \in omReads : r[1] # 0
      <3> DEFINE q == <<1, FALSE, {}>>
      <3>1. q[1] = 1
        OBVIOUS
      <3> HIDE DEF q
      <3>2. omReads = {} \/ omReads = {q}
        BY <2>1 DEF q
      <3>3. QED
        BY <3>1, <3>2
    <2>3. omCount = 1 \/ omCount = 0
      BY DEF OmInit
    <2>4. omBusy = FALSE /\ omCalls = {} /\ omAwaits = 0
      BY DEF OmInit
    <2>5. omCount \in Nat
      BY <2>3
    <2>6. QED
      BY <2>2, <2>4, <2>5, Zenon DEF OmSending
  <1>2. OmSending /\ [OmNext]_omVars => OmSending'
    <2> SUFFICES ASSUME OmSending, [OmNext]_omVars PROVE OmSending'
      OBVIOUS
    <2>1. CASE UNCHANGED <<omBusy, omCount, omCalls, omAwaits, omReads>>
      BY <2>1 DEF OmSending
    <2>2. ASSUME omStartLoad PROVE omCount' \in Nat /\ omCount + 1 # 0 /\ \A r \in omReads' : r[1] # 0
      <3> DEFINE q == <<omCount + 1, FALSE, {}>>
      <3>1. omCount \in Nat /\ \A r \in omReads : r[1] # 0
        BY DEF OmSending
      <3>2. q[1] = omCount + 1 /\ omCount + 1 # 0 /\ omCount + 1 \in Nat
        BY <3>1
      <3>3. q[1] # 0
        BY <3>2
      <3>4. omReads' = omReads \cup {q} /\ omCount' = omCount + 1
        BY <2>2 DEF omStartLoad
      <3> HIDE DEF q
      <3>5. QED
        BY <3>1, <3>2, <3>3, <3>4
    <2>3. CASE setOmWallet \/ refreshList
      BY <2>2, <2>3 DEF setOmWallet, refreshList, OmSending
    <2>4. CASE handleOmSubmit
      <3> DEFINE c == <<omAdmin, <<omAddr, omOrg>>, Cardinality(omCalls)>>
      <3>1. c[1] = omAdmin
        OBVIOUS
      <3>2. omCalls = {} /\ omAwaits = 0 /\ omAdmin /\ omCalls' = omCalls \cup {c}
        BY <2>4 DEF handleOmSubmit, canSubmit, omFormShown, OmSending
      <3> HIDE DEF c
      <3>3. omCalls' = {c} /\ c[1]
        BY <3>1, <3>2
      <3>4. QED
        BY <2>4, <3>2, <3>3 DEF handleOmSubmit, OmSending
    <2>5. ASSUME NEW c \in omCalls, registerOk(c) PROVE OmSending'
      <3>1. omCalls' = {} /\ omBusy = TRUE
        BY <2>5 DEF registerOk, OmSending
      <3>2. QED
        BY <2>2, <2>5, <3>1 DEF registerOk, afterSuccess, OmSending
    <2>6. ASSUME NEW c \in omCalls, registerFails(c) PROVE OmSending'
      <3>1. omCalls' = {} /\ omAwaits = 0
        BY <2>6 DEF registerFails, OmSending
      <3>2. QED
        BY <2>6, <3>1 DEF registerFails, OmSending
    <2>7. ASSUME NEW r \in omReads, contractRead(r) PROVE OmSending'
      <3>1. r[1] # 0
        BY DEF OmSending
      <3>2. <<r[1], TRUE, omChain>>[1] = r[1]
        OBVIOUS
      <3>3. \A s \in omReads' : s[1] # 0
        BY <2>7, <3>1, <3>2 DEF contractRead, OmSending
      <3>4. QED
        BY <2>7, <3>3 DEF contractRead, OmSending
    <2>8. ASSUME NEW r \in omReads, loadMaintainers(r) PROVE OmSending'
      <3>1. r[1] # 0 /\ \A s \in omReads' : s[1] # 0
        BY <2>8 DEF loadMaintainers, OmSending
      <3>2. QED
        BY <2>8, <3>1 DEF loadMaintainers, omFinally, OmSending
    <2>9. QED
      BY <2>1, <2>3, <2>4, <2>5, <2>6, <2>7, <2>8 DEF OmNext, omVars, handleMaintainerAddressChange,
         handleOmOrgIdChange, OmFieldTo, Elsewhere
  <1>3. QED
    BY <1>1, <1>2, PTL

LEMMA OmResult == OmSending => OmOneByAdmin
  <1> SUFFICES ASSUME OmSending PROVE OmOneByAdmin
    OBVIOUS
  <1>1. CASE omCalls = {}
    BY <1>1, FS_EmptySet DEF OmOneByAdmin
  <1>2. ASSUME NEW c, omCalls = {c}, c[1] PROVE OmOneByAdmin
    <2>1. Cardinality({c}) = 1
      BY FS_Singleton
    <2>2. QED
      BY <1>2, <2>1 DEF OmOneByAdmin
  <1>3. QED
    BY <1>1, <1>2 DEF OmSending

-----------------------------------------------------------------------------
\* The card: a dialog or a call, never both, and no dialog once applied.
CaInv == /\ caBusy \in BOOLEAN /\ caApplied \in BOOLEAN /\ caRepeat = FALSE
         /\ \/ ~caBusy /\ caModal = 0 /\ caCalls = {}
            \/ caBusy /\ caModal = 1 /\ caCalls = {} /\ ~caApplied
            \/ caBusy /\ caModal = 0 /\ \E c : caCalls = {c}

LEMMA CaInductive == CaInit /\ [][CaNext]_caVars => []CaInv
  <1>1. CaInit => CaInv
    BY DEF CaInit, CaInv
  <1>2. CaInv /\ [CaNext]_caVars => CaInv'
    <2> SUFFICES ASSUME CaInv, [CaNext]_caVars PROVE CaInv'
      OBVIOUS
    <2>1. CASE UNCHANGED caOwn
      BY <2>1 DEF CaInv, caOwn
    <2>2. CASE handleApplyClick
      <3>1. ~caBusy /\ ~caApplied /\ caModal = 0 /\ caCalls = {} /\ caBusy' = TRUE /\ UNCHANGED caApplied
        BY <2>2 DEF handleApplyClick, renderApplyButton, isApplyDisabled, CaInv
      <3>2. CASE caModal' = caModal + 1 /\ UNCHANGED <<caCalls, caSent, caRepeat>>
        BY <3>1, <3>2 DEF CaInv
      <3>3. CASE CaSend("apply") /\ caRepeat' = (caRepeat \/ caApplied) /\ UNCHANGED caModal
        BY <3>1, <3>3 DEF CaInv, CaSend
      <3>4. QED
        BY <2>2, <3>2, <3>3 DEF handleApplyClick
    <2>3. CASE modalConfirmed
      <3>1. caModal = 1 /\ caCalls = {} /\ ~caApplied /\ caBusy /\ caModal' = 0 /\ UNCHANGED <<caBusy, caApplied>>
        BY <2>3 DEF modalConfirmed, CaInv
      <3>2. caCalls' = {<<"apply", caSent + 1>>} /\ caRepeat' = (caRepeat \/ caApplied)
        BY <2>3, <3>1 DEF modalConfirmed, CaSend
      <3>3. caRepeat' = FALSE
        BY <3>1, <3>2, Zenon DEF CaInv
      <3>4. QED
        BY <3>1, <3>2, <3>3 DEF CaInv
    <2>4. CASE modalCancelled
      <3>1. caModal = 1 /\ caCalls = {} /\ caModal' = caModal - 1 /\ caBusy' = FALSE
        BY <2>4 DEF modalCancelled, CaInv
      <3>2. caModal' = 0 /\ UNCHANGED <<caCalls, caApplied, caRepeat>>
        BY <2>4, <3>1 DEF modalCancelled
      <3>3. QED
        BY <3>1, <3>2 DEF CaInv
    <2>5. CASE handleWithdrawClick
      <3>1. ~caBusy /\ caModal = 0 /\ caCalls = {} /\ caBusy' = TRUE
        BY <2>5 DEF handleWithdrawClick, withdrawEnabled, CaInv
      <3>2. caCalls' = {<<"withdraw", caSent + 1>>}
        BY <2>5, <3>1 DEF handleWithdrawClick, CaSend
      <3>3. QED
        BY <2>5, <3>1, <3>2 DEF handleWithdrawClick, CaInv
    <2>6. ASSUME NEW c \in caCalls, callSucceeds(c) \/ callFails(c) PROVE CaInv'
      <3>1. caModal = 0 /\ caCalls' = {} /\ caBusy' = FALSE /\ UNCHANGED <<caModal, caRepeat>>
        BY <2>6 DEF callSucceeds, callFails, CaInv
      <3>2. caApplied' \in BOOLEAN
        BY <2>6 DEF callSucceeds, callFails, CaInv
      <3>3. QED
        BY <3>1, <3>2 DEF CaInv
    <2>7. QED
      BY <2>1, <2>2, <2>3, <2>4, <2>5, <2>6 DEF CaNext, caVars, caOwn, parentRenders, ContractMoves
  <1>3. QED
    BY <1>1, <1>2, PTL

LEMMA CaResult == CaInv => CaOneAtATime /\ CaNoRepeat
  <1> SUFFICES ASSUME CaInv PROVE CaOneAtATime
    BY DEF CaInv, CaNoRepeat
  <1>1. CASE caCalls = {}
    BY <1>1, FS_EmptySet DEF CaInv, CaOneAtATime
  <1>2. ASSUME NEW c, caCalls = {c} PROVE CaOneAtATime
    BY <1>2, FS_Singleton DEF CaInv, CaOneAtATime
  <1>3. QED
    BY <1>1, <1>2 DEF CaInv

-----------------------------------------------------------------------------
(* Late answers (MaintainerPanel, MaintainerBoard, IssueDetail, RegisterOrg). *)

\* The role gate: the check that still counts is about the wallet connected now.
MpGated == MpGate /\ (mpCheck # MpNone => mpCheck.addr = mpAddr)

LEMMA MpGateInductive == MpInit /\ [][MpNext]_mpVars => []MpGated
  <1>0. \A addr : [MpNone EXCEPT !.addr = addr].addr = addr
    BY DEF MpNone
  <1>1. MpInit => MpGated
    BY <1>0 DEF MpInit, MpGated, MpGate
  <1>2. MpGated /\ [MpNext]_mpVars => MpGated'
    <2> SUFFICES ASSUME MpGated, [MpNext]_mpVars PROVE MpGated'
      OBVIOUS
    <2>1. CASE UNCHANGED <<mpAddr, mpStatus, mpCheck>>
      BY <2>1 DEF MpGated, MpGate
    <2>2. ASSUME NEW addr, setMaintainerAddress(addr) PROVE MpGated'
      <3>1. mpAddr' = addr /\ mpStatus' # "authorized"
        BY <2>2 DEF setMaintainerAddress, statusFor
      <3>2. mpCheck' = MpNone \/ mpCheck' = [MpNone EXCEPT !.addr = addr]
        BY <2>2 DEF setMaintainerAddress, cancelCheck
      <3>3. QED
        BY <1>0, <3>1, <3>2 DEF MpGated, MpGate
    <2>3. ASSUME NEW answers \in BOOLEAN, checkRole(answers) PROVE MpGated'
      <3>1. /\ mpCheck' = MpNone /\ UNCHANGED mpAddr /\ mpCheck.addr = mpAddr
            /\ mpStatus' = "authorized" => mpCheck.addr \in MpRoles
        BY <2>3 DEF checkRole, panelLoad, MpGated
      <3>2. QED
        BY <3>1 DEF MpGated, MpGate
    <2>4. QED
      BY <2>1, <2>2, <2>3 DEF MpNext, mpVars, readApplications, readAssignments, loadFails, panelShell, askConfirm,
         startCall, callEnds, elsewhere
  <1>3. QED
    BY <1>1, <1>2, PTL

-----------------------------------------------------------------------------
\* The board: the check that still counts is about the organisation shown, and a
\* request went out for an organisation with the role.
MbGated == /\ mbAuth = "authorized" => mbOrg \in MbRoles
           /\ mbCheck # "" => mbCheck = mbOrg
           /\ mbExec = <<>> \/ \E e : mbExec = <<e>> /\ e.org \in MbRoles

LEMMA MbInductive == MbInit /\ [][MbNext]_mbVars => []MbGated
  <1>1. MbInit => MbGated
    BY DEF MbInit, MbGated
  <1>2. MbGated /\ [MbNext]_mbVars => MbGated'
    <2> SUFFICES ASSUME MbGated, [MbNext]_mbVars PROVE MbGated'
      OBVIOUS
    <2>1. CASE UNCHANGED <<mbAuth, mbOrg, mbCheck, mbExec>>
      BY <2>1 DEF MbGated
    <2>2. ASSUME NEW o, setOrgId(o) PROVE MbGated'
      BY <2>2 DEF setOrgId, cancelled, MbGated
    <2>3. CASE checkMaintainerRole
      BY <2>3 DEF checkMaintainerRole, MbGated
    <2>4. CASE executeAction
      <3>1. PICK e : e = [item |-> mbAsked[1].item, op |-> mbAsked[1].op, org |-> mbOrg, prev |-> mbItems]
        OBVIOUS
      <3>2. e.org = mbOrg
        BY <3>1
      <3>3. mbExec' = <<e>> /\ mbAuth = "authorized" /\ UNCHANGED <<mbOrg, mbAuth, mbCheck>>
        BY <2>4, <3>1 DEF executeAction
      <3>4. e.org \in MbRoles
        BY <3>2, <3>3 DEF MbGated
      <3>5. QED
        BY <3>3, <3>4 DEF MbGated
    <2>5. ASSUME NEW ok, actionEnds(ok) PROVE MbGated'
      BY <2>5 DEF actionEnds, MbGated
    <2>6. QED
      BY <2>1, <2>2, <2>3, <2>4, <2>5 DEF MbNext, mbVars, retryFetch, Pagination, requestAction, cancelAction, fetchEnds
  <1>3. QED
    BY <1>1, <1>2, PTL

LEMMA MbResult == MbGated => MbRoleHeld
  <1> SUFFICES ASSUME MbGated PROVE MbRoleHeld
    OBVIOUS
  <1>1. CASE mbExec = <<>>
    BY <1>1 DEF MbRoleHeld
  <1>2. ASSUME NEW e, mbExec = <<e>>, e.org \in MbRoles PROVE MbRoleHeld
    <2>1. DOMAIN mbExec = {1} /\ mbExec[1] = e
      BY <1>2
    <2>2. QED
      BY <1>2, <2>1 DEF MbRoleHeld
  <1>3. QED
    BY <1>1, <1>2 DEF MbGated

-----------------------------------------------------------------------------
\* The issue page: a fetch that still counts is about the issue of the route, and
\* was asked for after the last call that succeeded.
IdFetchOK(f) == DOMAIN f = {"issue", "since"} /\ f.issue = idIssue /\ f.since

IdInv == /\ idIssue \in IdIssues
         /\ \A f \in idFetch : IdFetchOK(f)
         /\ ~idLoad.loading /\ ~idLoad.error => idData.issue = idIssue /\ idSince

LEMMA IdSays == \A i, d : d \in detailSays(i) => d.issue = i
  BY DEF detailSays

LEMMA IdInductive == IdInit /\ [][IdNext]_idVars => []IdInv
  <1>0. \A i : LET q == idRequest(i) IN DOMAIN q = {"issue", "since"} /\ q.issue = i /\ q.since
    BY DEF idRequest
  <1>1. IdInit => IdInv
    <2> SUFFICES ASSUME IdInit PROVE IdInv
      OBVIOUS
    <2>1. \A f \in idFetch : IdFetchOK(f)
      BY <1>0 DEF IdInit, IdFetchOK
    <2>2. QED
      BY <2>1 DEF IdInit, IdInv
  <1>2. IdInv /\ [IdNext]_idVars => IdInv'
    <2> SUFFICES ASSUME IdInv, [IdNext]_idVars PROVE IdInv'
      OBVIOUS
    <2>1. CASE UNCHANGED <<idIssue, idData, idLoad, idFetch, idSince>>
      BY <2>1 DEF IdInv, IdFetchOK
    \* The page loads: what was asked for before no longer counts.
    <2>2. ASSUME idFetch' = {idRequest(idIssue')}, idLoad' = [loading |-> TRUE, error |-> FALSE], idIssue' \in IdIssues
          PROVE  IdInv'
      <3>1. \A f \in idFetch' : IdFetchOK(f)'
        BY <1>0, <2>2 DEF IdFetchOK
      <3>2. QED
        BY <2>2, <3>1 DEF IdInv
    <2>3. ASSUME NEW i \in IdIssues, setParams(i) PROVE IdInv'
      BY <2>2, <2>3 DEF setParams, IdFetchAgain, cleanup
    <2>4. CASE retryDetail
      BY <2>2, <2>4 DEF retryDetail, IdFetchAgain, cleanup, IdInv
    <2>5. ASSUME NEW f \in idFetch, NEW ok \in BOOLEAN, detailAnswered(f, ok) PROVE IdInv'
      <3>1. /\ idFetch' = idFetch \ {f} /\ UNCHANGED idIssue
            /\ idLoad' = [loading |-> FALSE, error |-> ~ok \/ idLoad.error]
            /\ ok => idData' \in detailSays(f.issue) /\ idSince' = f.since
        BY <2>5 DEF detailAnswered
      <3>2. idLoad'.error <=> ~ok \/ idLoad.error
        BY <3>1, Zenon
      <3>3. \A g \in idFetch' : IdFetchOK(g)'
        BY <3>1 DEF IdInv, IdFetchOK
      <3>4. ok => idData'.issue = idIssue /\ idSince'
        BY <3>1, IdSays DEF IdInv, IdFetchOK
      <3>5. QED
        BY <3>1, <3>2, <3>3, <3>4 DEF IdInv
    <2>6. ASSUME NEW c \in idCalls, idAnswered(c) PROVE IdInv'
      <3>1. CASE UNCHANGED <<idFetch, idLoad, idSince>>
        BY <2>1, <2>6, <3>1 DEF idAnswered
      <3>2. CASE refetch(c)
        <4>1. asOf(cleanup, FALSE) = {}
          BY DEF asOf, cleanup
        <4>2. QED
          BY <2>2, <2>6, <3>2, <4>1 DEF refetch, idAnswered, IdInv
      <3>3. QED
        BY <2>6, <3>1, <3>2 DEF idAnswered
    <2>7. CASE (\E op \in {"apply", "withdraw"} : idHandle(op)) \/ (\E i \in IdIssues : idAssign(i)) \/ UNCHANGED idVars
      BY <2>1, <2>7 DEF idHandle, idAssign, idVars
    <2>8. QED
      BY <2>3, <2>4, <2>5, <2>6, <2>7 DEF IdNext
  <1>3. QED
    BY <1>1, <1>2, PTL

LEMMA IdResult == IdInv => IdShowsRoute /\ IdActionSeen
  BY DEF IdInv, IdShowsRoute, IdActionSeen

-----------------------------------------------------------------------------
(* Timers and callbacks (Navigation). *)

\* Shortcuts: a pending G has its own timer.
KsInv == ksTimer \in 0..KsSecond /\ ksPending \in BOOLEAN /\ KsSequence

LEMMA KsInductive == KsInit /\ [][KsNext]_ksVars => []KsInv
  <1>0. KsSecond \in Nat /\ KsSecond > 0
    BY KsAssumption
  <1>1. ASSUME ksPending = FALSE, ksTimer = 0 PROVE KsInv
    <2>1. ~(ksTimer > 0) /\ ksTimer \in 0..KsSecond
      BY <1>0, <1>1
    <2>2. QED
      BY <1>1, <2>1, Zenon DEF KsInv, KsSequence
  <1>2. KsInv /\ [KsNext]_ksVars => KsInv'
    <2> SUFFICES ASSUME KsInv, [KsNext]_ksVars PROVE KsInv'
      OBVIOUS
    <2>1. CASE UNCHANGED <<ksPending, ksTimer, ksSinceG>>
      BY <2>1 DEF KsInv, KsSequence
    <2>2. CASE clearPendingG
      <3>1. ksPending' = FALSE /\ ksTimer' = 0
        BY <2>2 DEF clearPendingG
      <3>2. ~(ksTimer' > 0) /\ ksTimer' \in 0..KsSecond
        BY <1>0, <3>1
      <3>3. QED
        BY <3>1, <3>2, Zenon DEF KsInv, KsSequence
    <2>3. ASSUME NEW key, handleKeyDown(key) PROVE KsInv'
      <3>1. clearPendingG \/ (ksPending' = TRUE /\ ksTimer' = KsSecond /\ ksSinceG' = 0)
        BY <2>3 DEF handleKeyDown
      <3>2. CASE ksPending' = TRUE /\ ksTimer' = KsSecond /\ ksSinceG' = 0
        BY <1>0, <3>2 DEF KsInv, KsSequence
      <3>3. QED
        BY <2>2, <3>1, <3>2
    <2>4. CASE KsTick
      <3>1. CASE ksTimer = 1
        BY <2>2, <2>4, <3>1 DEF KsTick
      <3>2. CASE ksTimer # 1
        <4>1. ksTimer > 0 /\ ksTimer' = ksTimer - 1 /\ UNCHANGED ksPending
              /\ ksSinceG' = IF ksSinceG \in 0..KsSecond THEN ksSinceG + 1 ELSE ksSinceG
          BY <2>4, <3>2 DEF KsTick
        <4>2. ksPending /\ ksSinceG = KsSecond - ksTimer /\ ksTimer \in 0..KsSecond
          BY <4>1 DEF KsInv, KsSequence
        <4>3. ksTimer' \in 0..KsSecond /\ ksTimer' > 0 /\ ksSinceG' = KsSecond - ksTimer'
          BY <1>0, <3>2, <4>1, <4>2
        <4>4. QED
          BY <4>1, <4>2, <4>3 DEF KsInv, KsSequence
      <3>3. QED
        BY <3>1, <3>2
    <2>5. QED
      BY <2>1, <2>2, <2>3, <2>4 DEF KsNext, ksVars, keyWhileTyping, setShortcutsEnabled, KsOutside
  <1>3. QED
    BY <1>1, <1>2, PTL DEF KsInit

-----------------------------------------------------------------------------
\* Navigation: without an overlap every callback left belongs to the last
\* navigation, and until its view is shown one is left that will show it.
VtInv == /\ vtAsked \in Nat
         /\ VtReleased
         /\ ~vtOverlap => /\ \A c \in vtPend : c.nav = vtAsked
                          /\ vtView = vtAsked \/ \E c \in vtPend : c.kind \in {"capture", "exitTimer"}
         /\ \A c \in vtPend : c.nav \in Nat

LEMMA VtCallbackIs == \A n, kind, from : LET q == VtCallback(n, kind, from) IN q.nav = n /\ q.kind = kind
  BY DEF VtCallback

LEMMA VtInductive == VtInit /\ [][VtNext]_vtVars => []VtInv
  <1>1. VtInit => VtInv
    BY DEF VtInit, VtInv, VtReleased
  <1>2. VtInv /\ [VtNext]_vtVars => VtInv'
    <2> SUFFICES ASSUME VtInv, [VtNext]_vtVars PROVE VtInv'
      OBVIOUS
    <2>1. /\ vtAsked \in Nat
          /\ vtFlight # 0 => \E c \in vtPend : c.nav = vtFlight /\ c.kind \notin {"exitListener", "enterListener"}
          /\ ~vtOverlap => /\ \A c \in vtPend : c.nav = vtAsked
                           /\ vtView = vtAsked \/ \E c \in vtPend : c.kind \in {"capture", "exitTimer"}
          /\ \A c \in vtPend : c.nav \in Nat
      BY DEF VtInv, VtReleased
    <2>2. CASE UNCHANGED vtVars
      BY <2>2 DEF VtInv, VtReleased, vtVars
    <2>3. CASE navigate
      <3>1. vtAsked' = vtAsked + 1 /\ vtAsked + 1 \in Nat /\ vtAsked + 1 # 0 /\ (~vtOverlap' => ~vtOverlap /\ vtPend = {})
        <4>1. vtAsked' = vtAsked + 1 /\ vtOverlap' = (vtOverlap \/ vtPend # {})
          BY <2>3 DEF navigate
        <4>2. ~vtOverlap' => ~vtOverlap /\ vtPend = {}
          BY <4>1, Zenon
        <4>3. QED
          BY <2>1, <4>1, <4>2
      <3>2. CASE vtFlight # 0 \/ vtMode = "bare"
        <4>1. vtView' = vtAsked + 1 /\ UNCHANGED <<vtFlight, vtPend>>
          BY <2>3, <3>2 DEF navigate, bareFlight
        <4>2. QED
          BY <2>1, <3>1, <4>1 DEF VtInv, VtReleased
      <3>3. CASE ~(vtFlight # 0 \/ vtMode = "bare")
        <4> DEFINE kind == IF vtMode = "native" THEN "capture" ELSE "exitTimer"
        <4>1. PICK q : q = VtCallback(vtAsked + 1, kind, "start")
          OBVIOUS
        <4>2. PICK r : r = IF vtMode = "native" THEN q ELSE VtCallback(vtAsked + 1, "exitListener", "start")
          OBVIOUS
        <4>3. vtPend' = vtPend \cup {q, r}
          BY <2>3, <3>3, <4>1, <4>2 DEF navigate, exitPhase
        <4>4. q.nav = vtAsked + 1 /\ q.kind \in {"capture", "exitTimer"} /\ r.nav = vtAsked + 1
          BY <4>1, <4>2, VtCallbackIs
        <4>5. vtFlight' = vtAsked + 1 /\ UNCHANGED vtView
          BY <2>3, <3>3 DEF navigate
        <4>6. QED
          BY <2>1, <3>1, <4>3, <4>4, <4>5 DEF VtInv, VtReleased
      <3>4. QED
        BY <3>2, <3>3
    \* A callback gives way to one of the same navigation.
    <2>4. ASSUME NEW c \in vtPend, NEW q, vtPend' = (vtPend \ {c}) \cup {q}, q.nav = c.nav,
                 q.kind \notin {"exitListener", "enterListener"}, UNCHANGED <<vtFlight, vtAsked, vtOverlap>>,
                 vtView' = c.nav \/ (c.kind \notin {"capture", "exitTimer"} /\ UNCHANGED vtView)
          PROVE  VtInv'
      BY <2>1, <2>4 DEF VtInv, VtReleased
    <2>5. ASSUME NEW c \in vtPend, vtPend' = vtPend \ {c}, c.kind \notin {"capture", "exitTimer"},
                 vtFlight' = 0 \/ (vtFlight' = vtFlight /\ c.nav # vtFlight), UNCHANGED <<vtView, vtAsked, vtOverlap>>
          PROVE  VtInv'
      BY <2>1, <2>5 DEF VtInv, VtReleased
    <2>6. ASSUME NEW c \in vtPend, startViewTransition(c) PROVE VtInv'
      <3>1. CASE c.kind = "capture"
        <4>1. PICK q : q = VtCallback(c.nav, "finished", "start")
          OBVIOUS
        <4>2. q.nav = c.nav /\ q.kind = "finished"
          BY <4>1, VtCallbackIs
        <4>3. /\ vtPend' = (vtPend \ {c}) \cup {q} /\ vtView' = c.nav
              /\ UNCHANGED <<vtFlight, vtAsked, vtOverlap>>
          BY <2>6, <3>1, <4>1 DEF startViewTransition
        <4>4. QED
          BY <2>4, <4>2, <4>3
      <3>2. CASE c.kind = "finished"
        BY <2>5, <2>6, <3>2 DEF startViewTransition
      <3>3. QED
        BY <2>6, <3>1, <3>2 DEF startViewTransition
    <2>7. ASSUME NEW c \in vtPend, requestAnimationFrame(c) PROVE VtInv'
      <3>1. PICK q : q = VtCallback(c.nav, "enterTimer", c.from)
        OBVIOUS
      <3>2. PICK r : r = VtCallback(c.nav, "enterListener", c.from)
        OBVIOUS
      <3>3. q.nav = c.nav /\ q.kind = "enterTimer" /\ r.nav = c.nav /\ r.kind = "enterListener"
        BY <3>1, <3>2, VtCallbackIs
      <3>4. /\ vtPend' = (vtPend \ {c}) \cup {r, q} /\ c.kind = "frame"
            /\ UNCHANGED <<vtView, vtFlight, vtAsked, vtOverlap>>
        BY <2>7, <3>1, <3>2 DEF requestAnimationFrame, enterPhase
      <3>5. QED
        BY <2>1, <3>3, <3>4 DEF VtInv, VtReleased
    <2>8. ASSUME NEW c \in vtPend, vtTimer(c) PROVE VtInv'
      <3>1. CASE c.kind = "exitTimer"
        <4>1. PICK q : q = VtCallback(c.nav, "frame", c.kind)
          OBVIOUS
        <4>2. q.nav = c.nav /\ q.kind = "frame"
          BY <4>1, VtCallbackIs
        <4>3. afterExit({c}) = {q}
          BY <4>1 DEF afterExit
        <4>4. /\ vtPend' = (vtPend \ {c}) \cup {q} /\ vtView' = c.nav
              /\ UNCHANGED <<vtFlight, vtAsked, vtOverlap>>
          BY <2>8, <3>1, <4>3 DEF vtTimer
        <4>5. QED
          BY <2>4, <4>2, <4>4
      <3>2. CASE c.kind = "enterTimer"
        <4>1. vtFlight' = 0 \/ (vtFlight' = vtFlight /\ c.nav # vtFlight)
          BY <2>8, <3>2 DEF vtTimer, afterEnter
        <4>2. QED
          BY <2>5, <2>8, <3>2, <4>1 DEF vtTimer
      <3>3. QED
        BY <2>8, <3>1, <3>2 DEF vtTimer
    <2>9. CASE animationend
      <3> DEFINE exits == {c \in vtPend : c.kind = "exitListener"}
                 enters == {c \in vtPend : c.kind = "enterListener"}
                 last == CHOOSE c \in exits : \A d \in exits : d.nav <= c.nav
      <3>1. /\ vtView' = IF exits = {} THEN vtView ELSE last.nav
            /\ vtFlight' = afterEnter(enters)
            /\ vtPend' = (vtPend \ (exits \cup enters)) \cup afterExit(exits)
            /\ UNCHANGED <<vtAsked, vtOverlap>>
        BY <2>9 DEF animationend
      <3>2. \A q \in afterExit(exits) : \E c \in exits : q.nav = c.nav
        BY VtCallbackIs DEF afterExit
      <3>3. ~vtOverlap /\ exits # {} => last \in exits
        <4> SUFFICES ASSUME ~vtOverlap, exits # {} PROVE last \in exits
          OBVIOUS
        <4>1. PICK c \in exits : TRUE
          OBVIOUS
        <4>2. \A d \in exits : d.nav <= c.nav
          BY <2>1
        <4>3. \E e \in exits : \A d \in exits : d.nav <= e.nav
          BY <4>1, <4>2
        <4>4. QED
          BY <4>3, Zenon
      <3> HIDE DEF last
      <3>4. QED
        BY <2>1, <3>1, <3>2, <3>3 DEF VtInv, VtReleased, afterEnter
    <2>10. QED
      BY <2>2, <2>3, <2>6, <2>7, <2>8, <2>9 DEF VtNext
  <1>3. QED
    BY <1>1, <1>2, PTL

LEMMA VtResult == VtInv => VtReleased /\ VtLastWins
  BY DEF VtInv, VtReleased, VtLastWins

-----------------------------------------------------------------------------
(* Session and selector (Session, OrgSelector). *)

\* Session: the scopes of the store, and the addresses of the calls under way.
SeInv == /\ seKey \in {{}} \cup {{a} : a \in SeAddrs}
         /\ DOMAIN seStore = {"wallet", "settings", "order", "pins"}
         /\ DOMAIN seStore.settings = SeScopes /\ DOMAIN seMeant = SeScopes
         /\ \A c \in seCalls : c.stage = "network" => c.addr \in {{a} : a \in SeAddrs}
         /\ \A c \in seCalls : DOMAIN c = {"n", "who", "stage", "addr"}
         /\ seStore.wallet \in {{}} \cup {{a} : a \in SeAddrs}
         /\ SeKeyIsStored /\ SeSettingsScoped

LEMMA ScopeIs == ASSUME NEW key \in {{}} \cup {{a} : a \in SeAddrs} PROVE scopeOf(key) \in SeScopes
  <1>1. CASE key = {}
    BY <1>1 DEF scopeOf, SeScopes
  <1>2. CASE key # {}
    <2>1. \E a \in SeAddrs : a \in key
      BY <1>2
    <2>2. (CHOOSE a \in SeAddrs : a \in key) \in SeAddrs
      BY <2>1, Zenon
    <2>3. QED
      BY <1>2, <2>2, Zenon DEF scopeOf, SeScopes
  <1>3. QED
    BY <1>1, <1>2

\* Writing the bookmarks leaves the wallet and the settings of a store alone.
LEMMA BookmarksOnly ==
    ASSUME NEW st, DOMAIN st = {"wallet", "settings", "order", "pins"}, NEW s, NEW o, NEW p
    PROVE  LET r == [st EXCEPT !.order[s] = o, !.pins[s] = p]
           IN DOMAIN r = DOMAIN st /\ r.wallet = st.wallet /\ r.settings = st.settings
  OBVIOUS

LEMMA SeInductive == SeInit /\ [][SeNext]_seVars => []SeInv
  <1>1. SeInit => SeInv
    <2> SUFFICES ASSUME SeInit PROVE SeInv
      OBVIOUS
    <2>1. scopeOf(seKey) \in SeScopes
      BY ScopeIs DEF SeInit
    <2>2. seCalls = {} /\ seKey \in {{}} \cup {{a} : a \in SeAddrs}
      BY DEF SeInit
    <2>3. PICK f : f = [s \in SeScopes |-> DEFAULT_SETTINGS]
      OBVIOUS
    <2>4. seMeant = f /\ seStore.settings = f /\ seStore.wallet = seKey /\ DOMAIN seStore = {"wallet", "settings", "order", "pins"}
      BY <2>3 DEF SeInit
    <2>5. DOMAIN f = SeScopes /\ f[scopeOf(seKey)] = DEFAULT_SETTINGS
      BY <2>1, <2>3
    <2>6. sePage = seKey
      BY DEF SeInit
    <2>7. QED
      BY <2>2, <2>4, <2>5, <2>6 DEF SeInv, SeKeyIsStored, SeSettingsScoped, SeInit
  <1>2. SeInv /\ [SeNext]_seVars => SeInv'
    <2> SUFFICES ASSUME SeInv, [SeNext]_seVars PROVE SeInv'
      OBVIOUS
    <2>0. /\ seKey \in {{}} \cup {{a} : a \in SeAddrs}
          /\ DOMAIN seStore = {"wallet", "settings", "order", "pins"}
          /\ DOMAIN seStore.settings = SeScopes /\ DOMAIN seMeant = SeScopes
          /\ \A c \in seCalls : c.stage = "network" => c.addr \in {{a} : a \in SeAddrs}
          /\ \A c \in seCalls : DOMAIN c = {"n", "who", "stage", "addr"}
          /\ seStore.wallet \in {{}} \cup {{a} : a \in SeAddrs}
          /\ "bar" \notin seStale => seKey = seStore.wallet
          /\ "page" \notin seStale => sePage = seStore.wallet
          /\ seSettings = seMeant[scopeOf(seKey)] /\ seTheme = seSettings /\ seStore.settings = seMeant
      BY DEF SeInv, SeKeyIsStored, SeSettingsScoped
    \* Only the calls change.
    <2>1. ASSUME UNCHANGED <<seStore, seKey, sePage, seStale, seSettings, seTheme, seMeant>>,
                 \A c \in seCalls' : (c.stage = "network" => c.addr \in {{a} : a \in SeAddrs}) /\ DOMAIN c = {"n", "who", "stage", "addr"}
          PROVE  SeInv'
      BY <2>0, <2>1 DEF SeInv, SeKeyIsStored, SeSettingsScoped, scopeOf
    \* The address changes, or is set again.
    <2>2. ASSUME NEW key \in {{}} \cup {{a} : a \in SeAddrs}, NEW st, setPublicKey(key, st), seCalls' \subseteq seCalls, seStale' = {"page"},
                 DOMAIN st = DOMAIN seStore, st.wallet = key, st.settings = seStore.settings
          PROVE  SeInv'
      <3>1. scopeOf(key) \in SeScopes
        BY ScopeIs
      <3>2. seKey' = key /\ seMeant' = seMeant
        BY <2>2 DEF setPublicKey
      <3>3. DOMAIN seStore' = DOMAIN seStore /\ seStore'.wallet = key /\ seStore'.settings = seStore.settings
        <4>1. PICK s : s = scopeOf(key)
          OBVIOUS
        <4>2. seStore' = st \/ seStore' = [st EXCEPT !.order[s] = seOrder, !.pins[s] = sePins]
          BY <2>2, <4>1 DEF setPublicKey, persistBookmarks
        <4>3. QED
          <5>1. DOMAIN st = {"wallet", "settings", "order", "pins"} /\ DOMAIN st = DOMAIN seStore
            BY <2>0, <2>2
          <5>2. PICK r : r = [st EXCEPT !.order[s] = seOrder, !.pins[s] = sePins]
            OBVIOUS
          <5>3. DOMAIN r = DOMAIN st /\ r.wallet = st.wallet /\ r.settings = st.settings
            BY <5>1, <5>2, BookmarksOnly
          <5>4. seStore' = st \/ seStore' = r
            BY <4>2, <5>2
          <5>5. st.wallet = key /\ st.settings = seStore.settings
            BY <2>2
          <5>6. QED
            BY <5>1, <5>3, <5>4, <5>5, Zenon
      <3>4. seSettings' = seMeant[scopeOf(key)] /\ seTheme' = seSettings'
        BY <2>0, <2>2 DEF setPublicKey, loadSettings
      <3>5. scopeOf(seKey') = scopeOf(key)
        BY <3>2
      <3>6. QED
        BY <2>0, <2>2, <3>2, <3>3, <3>4, <3>5 DEF SeInv, SeKeyIsStored, SeSettingsScoped, scopeOf
    <2>3. ASSUME NEW who, connect(who) PROVE SeInv'
      <3>1. PICK n : n = IF \E c \in seCalls : c.n = 1 THEN 2 ELSE 1
        OBVIOUS
      <3>2. PICK q : q = [n |-> n, who |-> who, stage |-> "installed", addr |-> {}]
        OBVIOUS
      <3>3. q.stage = "installed" /\ DOMAIN q = {"n", "who", "stage", "addr"}
        BY <3>2
      <3>4. seCalls' = seCalls \cup {q} /\ UNCHANGED <<seStore, seKey, sePage, seStale, seSettings, seTheme, seMeant>>
        BY <2>3, <3>1, <3>2 DEF connect, NoPrefs
      <3>5. QED
        BY <2>0, <2>1, <3>3, <3>4
    <2>4. ASSUME NEW c \in seCalls, connectFails(c) PROVE SeInv'
      BY <2>0, <2>1, <2>4 DEF connectFails, NoPrefs
    <2>5. ASSUME NEW c \in seCalls, connectStep(c) PROVE SeInv'
      <3>1. PICK a \in SeAddrs : seCalls' = (seCalls \ {c}) \cup {[c EXCEPT !.stage = seStages[@],
                                                  !.addr = IF c.stage = "address" THEN {a} ELSE {}]}
        BY <2>5 DEF connectStep
      <3>2. PICK g : g = IF c.stage = "address" THEN {a} ELSE {}
        OBVIOUS
      <3>3. PICK t : t = seStages[c.stage]
        OBVIOUS
      <3>4. PICK q : q = [c EXCEPT !.stage = t, !.addr = g]
        OBVIOUS
      <3>5. q.stage = t /\ q.addr = g /\ DOMAIN q = DOMAIN c
        BY <2>0, <3>4
      <3>6. t = "network" => g = {a}
        BY <2>5, <3>2, <3>3 DEF connectStep, seStages
      <3>7. seCalls' = (seCalls \ {c}) \cup {q}
        BY <3>1, <3>2, <3>3, <3>4
      <3>8. UNCHANGED <<seStore, seKey, sePage, seStale, seSettings, seTheme, seMeant>>
        BY <2>5 DEF connectStep, NoPrefs
      <3>9. \A d \in seCalls' : (d.stage = "network" => d.addr \in {{e} : e \in SeAddrs}) /\ DOMAIN d = {"n", "who", "stage", "addr"}
        BY <2>0, <3>5, <3>6, <3>7
      <3>10. QED
        BY <2>1, <3>8, <3>9
    <2>6. ASSUME NEW c \in seCalls, NEW w, connectEnds(c, w) PROVE SeInv'
      <3>1. PICK k : k = c.addr
        OBVIOUS
      <3>2. PICK st : st = [seStore EXCEPT !.wallet = k]
        OBVIOUS
      <3>3. DOMAIN st = DOMAIN seStore /\ st.wallet = k /\ st.settings = seStore.settings
        BY <2>0, <3>2
      <3>4. k \in {{a} : a \in SeAddrs}
        BY <2>0, <2>6, <3>1 DEF connectEnds
      <3>5. setPublicKey(k, st) /\ seCalls' \subseteq seCalls /\ seStale' = {"page"}
        BY <2>6, <3>1, <3>2 DEF connectEnds
      <3>6. QED
        BY <2>2, <3>3, <3>4, <3>5
    <2>7. CASE disconnect
      <3>1. PICK st : st = [seStore EXCEPT !.wallet = {}]
        OBVIOUS
      <3>2. DOMAIN st = DOMAIN seStore /\ st.wallet = {} /\ st.settings = seStore.settings
        BY <2>0, <3>1
      <3>3. setPublicKey({}, st) /\ seCalls' \subseteq seCalls /\ seStale' = {"page"}
        BY <2>7, <3>1 DEF disconnect, clearWallet
      <3>4. QED
        BY <2>2, <3>2, <3>3
    <2>8. CASE reload
      <3>1. /\ seKey' = seStore.wallet /\ sePage' = seStore.wallet /\ seSettings' = seStore.settings[scopeOf(seStore.wallet)]
            /\ seTheme' = seSettings' /\ seCalls' = {} /\ UNCHANGED <<seStore, seMeant>>
        BY <2>8 DEF reload
      <3>2. QED
        BY <2>0, <3>1 DEF SeInv, SeKeyIsStored, SeSettingsScoped
    <2>9. ASSUME NEW v, updateSetting(v) PROVE SeInv'
      <3>1. PICK s : s = scopeOf(seKey)
        OBVIOUS
      <3>2. s \in SeScopes
        BY <2>0, <3>1, ScopeIs
      <3>3. /\ seSettings' = v /\ seTheme' = v /\ seStore' = [seStore EXCEPT !.settings[s] = v]
            /\ seMeant' = [seMeant EXCEPT ![s] = v] /\ UNCHANGED <<seKey, sePage, seStale, seCalls>>
        BY <2>9, <3>1 DEF updateSetting
      <3>4. DOMAIN seStore' = DOMAIN seStore /\ seStore'.wallet = seStore.wallet /\ seStore'.settings = [seStore.settings EXCEPT ![s] = v]
        BY <2>0, <3>3
      <3>5. scopeOf(seKey') = s /\ seMeant'[s] = v /\ seStore'.settings = seMeant' /\ DOMAIN seMeant' = SeScopes
        BY <2>0, <3>1, <3>2, <3>3, <3>4
      <3>6. QED
        BY <2>0, <3>3, <3>4, <3>5 DEF SeInv, SeKeyIsStored, SeSettingsScoped
    \* The bookmarks are written.
    <2>10. ASSUME PersistLists, UNCHANGED <<seKey, sePage, seStale, seCalls, seSettings, seTheme, seMeant>> PROVE SeInv'
      <3>1. PICK s : s = scopeOf(seKey)
        OBVIOUS
      <3>2. seStore' = [seStore EXCEPT !.order[s] = seOrder', !.pins[s] = sePins']
        BY <2>10, <3>1 DEF PersistLists
      <3>3. DOMAIN seStore' = DOMAIN seStore /\ seStore'.wallet = seStore.wallet /\ seStore'.settings = seStore.settings
        BY <2>0, <3>2, BookmarksOnly
      <3>4. QED
        BY <2>0, <2>10, <3>3 DEF SeInv, SeKeyIsStored, SeSettingsScoped
    <2>11. ASSUME NEW i, NEW j, handleDrop(i, j) PROVE SeInv'
      BY <2>10, <2>11 DEF handleDrop
    <2>12. ASSUME NEW p, NEW o, setPins(p, o) PROVE SeInv'
      BY <2>10, <2>12 DEF setPins
    <2>13. CASE UNCHANGED seVars
      BY <2>0, <2>1, <2>13 DEF seVars
    <2>14. ASSUME NEW c \in seCalls, pageConnectEnds(c) PROVE SeInv'
      <3>1. PICK k : k = c.addr
        OBVIOUS
      <3>2. k \in {{a} : a \in SeAddrs} /\ c.who # "bar"
        BY <2>0, <2>14, <3>1 DEF pageConnectEnds
      <3>3. seStore' = [seStore EXCEPT !.wallet = k] /\ seCalls' \subseteq seCalls
        BY <2>14, <3>1 DEF pageConnectEnds
      <3>4. DOMAIN seStore' = DOMAIN seStore /\ seStore'.wallet = k /\ seStore'.settings = seStore.settings
        BY <2>0, <3>3
      <3>5. UNCHANGED <<seKey, seSettings, seTheme, seMeant>>
        BY <2>14 DEF pageConnectEnds, NoPrefs
      <3>6. seStale' = {"bar", "page"} \ {c.who} /\ sePage' = IF c.who = "page" THEN k ELSE sePage
        BY <2>14, <3>1 DEF pageConnectEnds, Holders
      <3>7. "bar" \in seStale' /\ ("page" \notin seStale' => sePage' = k)
        BY <3>2, <3>6
      <3>8. SeKeyIsStored'
        BY <3>4, <3>7 DEF SeKeyIsStored
      <3>9. SeSettingsScoped'
        BY <2>0, <3>4, <3>5 DEF SeSettingsScoped
      <3>10. QED
        BY <2>0, <3>2, <3>3, <3>4, <3>5, <3>8, <3>9 DEF SeInv
    <2>15. CASE pageMounts
      <3>1. /\ sePage' = seStore.wallet /\ seStale' = seStale \ {"page"}
            /\ UNCHANGED <<seStore, seKey, seSettings, seTheme, seMeant>>
        BY <2>15 DEF pageMounts, NoPrefs
      <3>2. \A d \in seCalls' : (d.stage = "network" => d.addr \in {{e} : e \in SeAddrs}) /\ DOMAIN d = {"n", "who", "stage", "addr"}
        <4> SUFFICES ASSUME NEW d \in seCalls'
                     PROVE  (d.stage = "network" => d.addr \in {{e} : e \in SeAddrs}) /\ DOMAIN d = {"n", "who", "stage", "addr"}
          OBVIOUS
        <4>1. PICK c \in seCalls : d = [c EXCEPT !.who = IF @ = "page" THEN "gone" ELSE @]
          BY <2>15 DEF pageMounts
        <4>2. PICK w : w = IF c.who = "page" THEN "gone" ELSE c.who
          OBVIOUS
        <4>3. d = [c EXCEPT !.who = w]
          BY <4>1, <4>2
        <4>4. DOMAIN d = DOMAIN c /\ d.stage = c.stage /\ d.addr = c.addr
          BY <2>0, <4>3
        <4>5. QED
          BY <2>0, <4>4
      <3>3. SeKeyIsStored'
        BY <2>0, <3>1 DEF SeKeyIsStored
      <3>4. SeSettingsScoped'
        BY <2>0, <3>1 DEF SeSettingsScoped
      <3>5. QED
        BY <2>0, <3>1, <3>2, <3>3, <3>4 DEF SeInv
    <2>16. QED
      BY <2>3, <2>4, <2>5, <2>6, <2>7, <2>8, <2>9, <2>11, <2>12, <2>13, <2>14, <2>15
         DEF SeNext, connectWalletClick, pageConnectClick, resetSettings, handleHandleKeyDown, pinOrg, resetOrder
  <1>3. QED
    BY <1>1, <1>2, PTL

-----------------------------------------------------------------------------
\* OrgSelector: nothing is selected before the organisations are known.
OsInv == /\ osLoading => osSent = {} /\ osOrgs = <<>> /\ osSelected = AllOrgs /\ ~osOpen
         /\ OsSelectionAgrees

LEMMA OsInductive == OsInit /\ [][OsNext]_osVars => []OsInv
  <1>1. OsInit => OsInv
    <2>1. ~Contains(<<>>, osUrl)
      BY DEF Contains
    <2>2. QED
      BY <2>1, Zenon DEF OsInit, OsInv, OsSelectionAgrees
  <1>2. OsInv /\ [OsNext]_osVars => OsInv'
    <2> SUFFICES ASSUME OsInv, [OsNext]_osVars PROVE OsInv'
      OBVIOUS
    <2>1. ASSUME OnlyList, osOpen' => ~osLoading PROVE OsInv'
      BY <2>1 DEF OsInv, OsSelectionAgrees, OnlyList
    <2>2. ASSUME NEW org, selectOrg(org), osOpen PROVE OsInv'
      BY <2>2 DEF OsInv, OsSelectionAgrees, selectOrg, urlAfter
    <2>3. CASE fetchOrgs
      <3>1. PICK list : osOrgs' = list /\ (IF osUrl # AllOrgs /\ Contains(list, osUrl)
                       THEN osSelected' = osUrl /\ osQuery' = osUrl
                       ELSE UNCHANGED <<osSelected, osQuery>>)
        BY <2>3 DEF fetchOrgs
      <3>2. osLoading /\ ~osLoading' /\ UNCHANGED <<osUrl, osSent>> /\ osSent = {} /\ osSelected = AllOrgs
        BY <2>3 DEF fetchOrgs, OsInv
      <3>3. QED
        BY <3>1, <3>2 DEF OsInv, OsSelectionAgrees
    <2>4. CASE Enter
      <3>1. CASE osOpen /\ osActive >= 0 /\ osActive < Len(filtered(osQuery))
        BY <2>2, <2>4, <3>1 DEF Enter
      <3>2. CASE ~(osOpen /\ osActive >= 0 /\ osActive < Len(filtered(osQuery)))
        BY <2>1, <2>4, <3>2 DEF Enter
      <3>3. QED
        BY <3>1, <3>2
    <2>5. CASE clickOption
      BY <2>2, <2>5 DEF clickOption
    <2>6. ASSUME onFocus \/ ArrowDown \/ Escape \/ handleClickOutside \/ Tab PROVE OsInv'
      BY <2>1, <2>6 DEF onFocus, ArrowDown, Escape, handleClickOutside, closeList, Tab
    <2>7. CASE ArrowUp
      BY <2>1, <2>7 DEF ArrowUp
    <2>8. ASSUME NEW q, onType(q) PROVE OsInv'
      BY <2>1, <2>8 DEF onType
    <2>9. ASSUME NEW i, hover(i) PROVE OsInv'
      BY <2>1, <2>9 DEF hover, OsInv
    <2>10. CASE UNCHANGED osVars
      BY <2>10 DEF OsInv, OsSelectionAgrees, osVars
    <2>11. QED
      BY <2>3, <2>4, <2>5, <2>6, <2>7, <2>8, <2>9, <2>10 DEF OsNext
  <1>3. QED
    BY <1>1, <1>2, PTL

-----------------------------------------------------------------------------
(* Lists at rest (MaintainerPanel, OrgManagement). *)

\* MaintainerPanel.  Each item nothing else happened to has at most one call under
\* way; before its answer the lists are one step ahead of the contract.
MpAgree(i) == /\ i \in mpApps <=> mpChain[i] = "pending"
              /\ i \in mpAsgs <=> mpChain[i] = "assigned"
MpAhead(c) == /\ mpChain[c.item] = (IF c.op = "assign" THEN "pending" ELSE "assigned")
              /\ c.item \notin mpApps
              /\ c.item \in mpAsgs <=> c.op = "assign"
MpItemOk(i) == /\ ~underWay(i) => MpAgree(i)
               /\ \A c, d \in mpCalls : c.item = i /\ d.item = i => c = d
               /\ \A c \in mpCalls : c.item = i => MpAhead(c)
MpFreshOk(l, i) == ~underWay(i) /\ (mpLoad[l].phase = "asgs" => (i \in mpLoad[l].apps <=> mpChain[i] = "pending"))
MpLoadOk(l) == /\ DOMAIN mpLoad[l] = {"phase", "addr", "apps", "fresh"} /\ mpLoad[l].fresh \subseteq MpItems
               /\ \A i \in mpLoad[l].fresh : MpFreshOk(l, i)
MpRest == /\ DOMAIN mpChain = MpItems /\ mpCalls \subseteq MpOps /\ DOMAIN mpLoad = MpLoads
          /\ mpClean \subseteq MpItems
          /\ \A i \in mpClean : MpItemOk(i)
          /\ \A l \in MpLoads : MpLoadOk(l)

LEMMA MpResult == MpRest => MpExact
  BY DEF MpRest, MpItemOk, MpAgree, MpExact

LEMMA MpOpIs == \A c \in MpOps : c.item \in MpItems /\ c.op \in {"assign", "complete", "revoke"}
  BY DEF MpOps

LEMMA MpNoneIs == /\ DOMAIN MpNone = {"phase", "addr", "apps", "fresh"} /\ MpNone.fresh = {} /\ MpNone.phase = "none"
                  /\ \A S : LET q == [MpNone EXCEPT !.phase = "apps", !.fresh = S]
                            IN q.phase = "apps" /\ q.fresh = S /\ DOMAIN q = DOMAIN MpNone
  BY DEF MpNone

\* A load that starts, one that goes on and one that ends leave the others alone.
LEMMA MpLoadStep ==
  ASSUME MpRest, NEW l \in MpLoads, NEW r, mpLoad' = [mpLoad EXCEPT ![l] = r],
         UNCHANGED <<mpChain, mpCalls>>, MpLoadOk(l)'
  PROVE  DOMAIN mpLoad' = MpLoads /\ \A k \in MpLoads : MpLoadOk(k)'
  <1>1. DOMAIN mpLoad' = MpLoads /\ \A k \in MpLoads : k # l => mpLoad'[k] = mpLoad[k]
    BY DEF MpRest
  <1>2. ASSUME NEW k \in MpLoads, k # l PROVE MpLoadOk(k)'
    BY <1>1, <1>2 DEF MpRest, MpLoadOk, MpFreshOk, underWay
  <1>3. QED
    BY <1>1, <1>2

LEMMA MpRestInductive == MpInit /\ [][MpNext]_mpVars => []MpRest
  <1>1. MpInit => MpRest
    BY MpNoneIs DEF MpInit, MpRest, MpLoadOk
  <1>2. MpRest /\ [MpNext]_mpVars => MpRest'
    <2> SUFFICES ASSUME MpRest, [MpNext]_mpVars PROVE MpRest'
      OBVIOUS
    <2>0. /\ DOMAIN mpChain = MpItems /\ mpCalls \subseteq MpOps /\ DOMAIN mpLoad = MpLoads
          /\ mpClean \subseteq MpItems
          /\ \A i \in mpClean : MpItemOk(i)
          /\ \A l \in MpLoads : MpLoadOk(l)
      BY DEF MpRest
    <2>1. CASE UNCHANGED <<mpChain, mpApps, mpAsgs, mpLoad, mpCalls, mpClean>>
      BY <2>1 DEF MpRest, MpItemOk, MpLoadOk, MpFreshOk, MpAgree, MpAhead, underWay
    <2>a. ASSUME UNCHANGED <<mpChain, mpApps, mpAsgs, mpCalls, mpClean>>, DOMAIN mpLoad' = MpLoads, \A k \in MpLoads : MpLoadOk(k)'
          PROVE  MpRest'
      BY <2>0, <2>a DEF MpRest, MpItemOk, MpAgree, MpAhead, underWay
    <2>2. ASSUME NEW a, checkRole(a) PROVE MpRest'
      <3>1. PICK S : S = {i \in MpItems : ~underWay(i)}
        OBVIOUS
      <3>2. UNCHANGED <<mpChain, mpApps, mpAsgs, mpCalls, mpClean>>
        BY <2>2 DEF checkRole
      <3>3. panelLoad \/ mpLoad' = mpLoad
        BY <2>2 DEF checkRole
      <3>4. CASE panelLoad
        <4>1. PICK l \in MpLoads : mpLoad' = [mpLoad EXCEPT ![l] = [MpNone EXCEPT !.phase = "apps", !.fresh = S]]
          BY <3>1, <3>4 DEF panelLoad
        <4>2. PICK q : q = [MpNone EXCEPT !.phase = "apps", !.fresh = S]
          OBVIOUS
        <4>3. q.phase = "apps" /\ q.fresh = S /\ DOMAIN q = {"phase", "addr", "apps", "fresh"}
          BY <4>2, MpNoneIs
        <4>4. mpLoad' = [mpLoad EXCEPT ![l] = q] /\ mpLoad'[l] = q
          BY <2>0, <4>1, <4>2
        <4>5. MpLoadOk(l)'
          BY <3>1, <3>2, <4>3, <4>4 DEF MpLoadOk, MpFreshOk, underWay
        <4>6. QED
          BY <2>a, <3>2, <4>4, <4>5, MpLoadStep
      <3>5. QED
        BY <2>1, <3>2, <3>3, <3>4
    <2>3. ASSUME NEW l \in MpLoads, readApplications(l) PROVE MpRest'
      <3>1. PICK S : S = {i \in MpItems : mpChain[i] = "pending"}
        OBVIOUS
      <3>2. PICK q : q = [mpLoad[l] EXCEPT !.phase = "asgs", !.apps = S]
        OBVIOUS
      <3>3. mpLoad' = [mpLoad EXCEPT ![l] = q] /\ UNCHANGED <<mpChain, mpApps, mpAsgs, mpCalls, mpClean>>
        BY <2>3, <3>1, <3>2 DEF readApplications
      <3>4. q.apps = S /\ q.fresh = mpLoad[l].fresh /\ DOMAIN q = {"phase", "addr", "apps", "fresh"}
        BY <2>0, <3>2 DEF MpLoadOk
      <3>5. mpLoad'[l] = q
        BY <2>0, <3>3
      <3>6. MpLoadOk(l)'
        BY <2>0, <3>1, <3>3, <3>4, <3>5 DEF MpLoadOk, MpFreshOk, underWay
      <3>7. QED
        BY <2>a, <3>3, <3>6, MpLoadStep
    <2>b. ASSUME NEW l \in MpLoads, mpLoad' = [mpLoad EXCEPT ![l] = MpNone], UNCHANGED <<mpChain, mpCalls>>
          PROVE  DOMAIN mpLoad' = MpLoads /\ \A k \in MpLoads : MpLoadOk(k)'
      <3>1. mpLoad'[l] = MpNone
        BY <2>0, <2>b
      <3>2. MpLoadOk(l)'
        BY <3>1, MpNoneIs DEF MpLoadOk
      <3>3. QED
        BY <2>b, <3>2, MpLoadStep
    <2>4. ASSUME NEW l \in MpLoads, readAssignments(l) PROVE MpRest'
      <3>1. PICK S : S = {i \in MpItems : mpChain[i] = "assigned"}
        OBVIOUS
      <3>2. /\ mpLoad[l].phase = "asgs" /\ mpApps' = mpLoad[l].apps /\ mpAsgs' = S /\ mpClean' = mpLoad[l].fresh
            /\ mpLoad' = [mpLoad EXCEPT ![l] = MpNone] /\ UNCHANGED <<mpChain, mpCalls>>
        BY <2>4, <3>1 DEF readAssignments
      <3>3. MpLoadOk(l)
        BY <2>0
      <3>4. ASSUME NEW i \in mpClean' PROVE MpItemOk(i)'
        BY <3>1, <3>2, <3>3, <3>4 DEF MpItemOk, MpLoadOk, MpFreshOk, MpAgree, MpAhead, underWay
      <3>5. mpClean' \subseteq MpItems
        BY <3>2, <3>3 DEF MpLoadOk
      <3>6. QED
        BY <2>0, <2>b, <3>2, <3>4, <3>5 DEF MpRest
    <2>5. ASSUME NEW l \in MpLoads, loadFails(l) PROVE MpRest'
      BY <2>5, <2>a, <2>b DEF loadFails
    \* An item leaves the fresh ones.
    <2>6. ASSUME NEW j, mpLoad' = touched(j)
          PROVE  /\ DOMAIN mpLoad' = MpLoads
                 /\ \A l \in MpLoads : /\ mpLoad'[l].phase = mpLoad[l].phase /\ mpLoad'[l].apps = mpLoad[l].apps
                                       /\ mpLoad'[l].fresh = mpLoad[l].fresh \ {j} /\ DOMAIN mpLoad'[l] = DOMAIN mpLoad[l]
      BY <2>0, <2>6 DEF touched, MpLoadOk
    \* What happens to an item leaves the loads that do not count on it in order.
    <2>c. ASSUME NEW j, mpLoad' = touched(j),
                 \A i \in MpItems : i # j => mpChain'[i] = mpChain[i],
                 \A d \in mpCalls' : d \in mpCalls \/ d.item = j
          PROVE  DOMAIN mpLoad' = MpLoads /\ \A l \in MpLoads : MpLoadOk(l)'
      <3> SUFFICES ASSUME NEW l \in MpLoads PROVE MpLoadOk(l)'
        BY <2>6, <2>c
      <3>1. /\ mpLoad'[l].phase = mpLoad[l].phase /\ mpLoad'[l].apps = mpLoad[l].apps
            /\ mpLoad'[l].fresh = mpLoad[l].fresh \ {j} /\ DOMAIN mpLoad'[l] = DOMAIN mpLoad[l]
        BY <2>6, <2>c
      <3>2. MpLoadOk(l)
        BY <2>0
      <3>3. ASSUME NEW i \in mpLoad'[l].fresh PROVE MpFreshOk(l, i)'
        BY <2>c, <3>1, <3>2, <3>3 DEF MpLoadOk, MpFreshOk, underWay
      <3>4. QED
        BY <3>1, <3>2, <3>3 DEF MpLoadOk
    <2>7. ASSUME NEW c \in MpOps, startCall(c) PROVE MpRest'
      <3>1. PICK j : j = c.item
        OBVIOUS
      <3>2. /\ mpApps' = (IF c.op = "assign" THEN mpApps \ {j} ELSE mpApps)
            /\ mpAsgs' = (IF c.op = "assign" THEN mpAsgs \cup {j} ELSE mpAsgs \ {j})
            /\ mpCalls' = mpCalls \cup {c}
            /\ mpClean' = (IF underWay(j) THEN mpClean \ {j} ELSE mpClean)
            /\ mpLoad' = touched(j) /\ UNCHANGED mpChain
            /\ IF c.op = "assign" THEN j \in mpApps ELSE j \in mpAsgs
        BY <2>7, <3>1 DEF startCall, shownRow
      <3>3. DOMAIN mpLoad' = MpLoads /\ \A l \in MpLoads : MpLoadOk(l)'
        BY <2>c, <3>1, <3>2
      <3>4. ASSUME NEW i \in mpClean' PROVE MpItemOk(i)'
        <4>1. i \in mpClean /\ MpItemOk(i)
          BY <2>0, <3>2
        <4>2. CASE i # j
          BY <3>1, <3>2, <4>1, <4>2 DEF MpItemOk, MpAgree, MpAhead, underWay
        <4>3. CASE i = j
          <5>1. ~underWay(j) /\ MpAgree(j)
            BY <3>2, <4>1, <4>3 DEF MpItemOk
          <5>2. MpAhead(c)'
            BY <3>1, <3>2, <5>1 DEF MpAgree, MpAhead
          <5>3. QED
            BY <3>1, <3>2, <4>3, <5>1, <5>2 DEF MpItemOk, underWay
        <4>4. QED
          BY <4>2, <4>3
      <3>5. QED
        BY <2>0, <3>2, <3>3, <3>4 DEF MpRest
    <2>8. ASSUME NEW c \in MpOps, callEnds(c) PROVE MpRest'
      <3>1. PICK j : j = c.item
        OBVIOUS
      <3>2. /\ c \in mpCalls /\ mpCalls' = mpCalls \ {c} /\ mpLoad' = touched(j)
            /\ succeeds(c) \/ refused(c) \/ answerLost(c)
        BY <2>8, <3>1 DEF callEnds
      <3>4. j \in MpItems /\ c.op \in {"assign", "complete", "revoke"}
        BY <2>8, <3>1, MpOpIs
      <3>5. /\ DOMAIN mpChain' = MpItems
            /\ \A i \in MpItems : i # j => mpChain'[i] = mpChain[i] /\ (i \in mpApps' <=> i \in mpApps) /\ (i \in mpAsgs' <=> i \in mpAsgs)
            /\ mpClean' \subseteq mpClean
        BY <2>0, <3>1, <3>2, <3>4 DEF succeeds, refused, answerLost, rollbackRow, settled
      <3>6. ASSUME NEW i \in mpClean' PROVE MpItemOk(i)'
        <4>1. i \in mpClean /\ MpItemOk(i) /\ i \in MpItems
          BY <2>0, <3>5
        <4>2. CASE i # j
          BY <3>1, <3>2, <3>5, <4>1, <4>2 DEF MpItemOk, MpAgree, MpAhead, underWay
        <4>3. CASE i = j
          <5>1. MpAhead(c) /\ \A d \in mpCalls' : d.item # j
            BY <3>1, <3>2, <4>1, <4>3 DEF MpItemOk
          <5>2. MpAgree(j)'
            <6>1. CASE succeeds(c)
              BY <2>0, <3>1, <3>4, <5>1, <6>1 DEF succeeds, settled, MpAhead, MpAgree
            <6>2. CASE refused(c)
              BY <2>0, <3>1, <3>4, <5>1, <6>2 DEF refused, rollbackRow, MpAhead, MpAgree
            <6>3. ~answerLost(c)
              BY <3>1, <4>3 DEF answerLost
            <6>4. QED
              BY <3>2, <6>1, <6>2, <6>3
          <5>3. QED
            BY <4>3, <5>1, <5>2 DEF MpItemOk, underWay
        <4>4. QED
          BY <4>2, <4>3
      <3>7. DOMAIN mpLoad' = MpLoads /\ \A l \in MpLoads : MpLoadOk(l)'
        BY <2>c, <3>2, <3>5
      <3>8. QED
        BY <2>0, <3>2, <3>5, <3>6, <3>7 DEF MpRest
    <2>9. ASSUME NEW j \in MpItems, elsewhere(j) PROVE MpRest'
      <3>1. /\ mpClean' = mpClean \ {j} /\ mpLoad' = touched(j)
            /\ UNCHANGED <<mpApps, mpAsgs, mpCalls>>
            /\ DOMAIN mpChain' = MpItems /\ \A i \in MpItems : i # j => mpChain'[i] = mpChain[i]
        BY <2>0, <2>9 DEF elsewhere
      <3>2. DOMAIN mpLoad' = MpLoads /\ \A l \in MpLoads : MpLoadOk(l)'
        BY <2>c, <3>1
      <3>3. QED
        BY <2>0, <3>1, <3>2 DEF MpRest, MpItemOk, MpAgree, MpAhead, underWay
    <2>10. ASSUME NEW a, setMaintainerAddress(a) PROVE MpRest'
      BY <2>1, <2>10 DEF setMaintainerAddress
    <2>11. ASSUME NEW i, askConfirm(i) PROVE MpRest'
      BY <2>1, <2>11 DEF askConfirm
    <2>12. CASE panelShell
      BY <2>1, <2>12 DEF panelShell
    <2>13. CASE UNCHANGED mpVars
      BY <2>1, <2>13 DEF mpVars
    <2>14. QED
      BY <2>2, <2>3, <2>4, <2>5, <2>7, <2>8, <2>9, <2>10, <2>11, <2>12, <2>13 DEF MpNext
  <1>3. QED
    BY <1>1, <1>2, PTL

-----------------------------------------------------------------------------
\* OrgManagement: without an overlap one load is under way, and it has read what
\* the contract still says unless something changed elsewhere.
OmRest == /\ "overlap" \notin omDoubt => \A r, s \in omReads : r = s
          /\ (omDoubt \cap {"overlap", "elsewhere"} = {}) => \A r \in omReads : r[2] => r[3] = omChain
          /\ (omAdmin /\ omReads = {} /\ omDoubt \cap {"overlap", "elsewhere", "failed"} = {}) => omList = omChain
          /\ omDoubt \subseteq {"overlap", "elsewhere", "failed"}

LEMMA OmRestResult == OmRest => OmListExact
  BY DEF OmRest, OmListExact

LEMMA OmRestInductive == OmInit /\ [][OmNext]_omVars => []OmRest
  <1>1. OmInit => OmRest
    <2> SUFFICES ASSUME OmInit PROVE OmRest
      OBVIOUS
    <2>1. PICK q : q = <<1, FALSE, {}>>
      OBVIOUS
    <2>2. q[2] = FALSE
      BY <2>1
    <2>3. (omAdmin => omReads = {q}) /\ (~omAdmin => omReads = {}) /\ omDoubt = {}
      BY <2>1 DEF OmInit
    <2>4. QED
      BY <2>2, <2>3 DEF OmRest
  <1>2. OmRest /\ [OmNext]_omVars => OmRest'
    <2> SUFFICES ASSUME OmRest, [OmNext]_omVars PROVE OmRest'
      OBVIOUS
    <2>0. /\ "overlap" \notin omDoubt => \A r, s \in omReads : r = s
          /\ (omDoubt \cap {"overlap", "elsewhere"} = {}) => \A r \in omReads : r[2] => r[3] = omChain
          /\ (omAdmin /\ omReads = {} /\ omDoubt \cap {"overlap", "elsewhere", "failed"} = {}) => omList = omChain
          /\ omDoubt \subseteq {"overlap", "elsewhere", "failed"}
      BY DEF OmRest
    <2>1. CASE UNCHANGED <<omReads, omChain, omList, omDoubt, omAdmin>>
      BY <2>0, <2>1 DEF OmRest
    \* A load starts, alone or beside others.
    <2>2. CASE omStartLoad
      <3>1. PICK q : q = <<omCount + 1, FALSE, {}>>
        OBVIOUS
      <3>2. q[2] = FALSE
        BY <3>1
      <3>3. /\ omReads' = omReads \cup {q}
            /\ omDoubt' = IF omReads = {} THEN omDoubt \cap {"failed"} ELSE omDoubt \cup {"overlap"}
        BY <2>2, <3>1 DEF omStartLoad
      <3>4. QED
        BY <2>0, <3>2, <3>3 DEF OmRest
    <2>3. CASE setOmWallet
      <3>1. CASE omAdmin
        <4>1. ~omAdmin' /\ UNCHANGED <<omReads, omChain, omList, omDoubt>>
          BY <2>3, <3>1 DEF setOmWallet
        <4>2. QED
          BY <2>0, <4>1 DEF OmRest
      <3>2. QED
        BY <2>2, <2>3, <3>1 DEF setOmWallet
    <2>4. ASSUME NEW c \in omCalls, registerFails(c) PROVE OmRest'
      <3>1. UNCHANGED <<omReads, omList, omAdmin>> /\ (UNCHANGED <<omChain, omDoubt>> \/ omDoubt' = omDoubt \cup {"elsewhere"})
        BY <2>4 DEF registerFails
      <3>2. QED
        BY <2>0, <3>1 DEF OmRest
    <2>5. ASSUME NEW r \in omReads, contractRead(r) PROVE OmRest'
      <3>1. PICK q : q = <<r[1], TRUE, omChain>>
        OBVIOUS
      <3>2. q[3] = omChain
        BY <3>1
      <3>3. omReads' = (omReads \ {r}) \cup {q} /\ UNCHANGED <<omChain, omList, omDoubt, omAdmin>>
        BY <2>5, <3>1 DEF contractRead
      <3>4. QED
        BY <2>0, <3>2, <3>3 DEF OmRest
    <2>6. ASSUME NEW r \in omReads, loadMaintainers(r) PROVE OmRest'
      <3>1. omReads' = omReads \ {r} /\ UNCHANGED <<omChain, omAdmin>>
        BY <2>6 DEF loadMaintainers
      <3>2. \/ r[2] /\ omList' = r[3] /\ omDoubt' = omDoubt \ {"failed"}
            \/ omDoubt' = omDoubt \cup {"failed"} /\ UNCHANGED omList
        BY <2>6 DEF loadMaintainers
      <3>3. QED
        BY <2>0, <3>1, <3>2 DEF OmRest
    <2>7. ASSUME NEW p, Elsewhere(p) PROVE OmRest'
      <3>1. "elsewhere" \in omDoubt' /\ omDoubt \subseteq omDoubt' /\ omDoubt' \subseteq omDoubt \cup {"elsewhere", "overlap"} /\ UNCHANGED omReads
        BY <2>7 DEF Elsewhere
      <3>2. QED
        BY <2>0, <3>1 DEF OmRest
    <2>8. QED
      BY <2>1, <2>2, <2>3, <2>4, <2>5, <2>6, <2>7
         DEF OmNext, omVars, refreshList, handleOmSubmit, handleMaintainerAddressChange, handleOmOrgIdChange,
             OmFieldTo, registerOk, afterSuccess
  <1>3. QED
    BY <1>1, <1>2, PTL

-----------------------------------------------------------------------------
(* Lists at rest (MaintainerBoard, Dashboard). *)

\* MaintainerBoard: while a request is under way, the list shown is one action ahead
\* of the one it goes back to.
MbRest == ~mbRaced => /\ mbExec = <<>> => mbItems = mbKept
                      /\ mbExec # <<>> => /\ mbExec[1].prev = mbKept
                                          /\ mbItems = applied(mbKept, mbExec[1].item, mbExec[1].op)

LEMMA MbRestResult == MbRest => MbRestExact
  BY DEF MbRest, MbRestExact

LEMMA MbRestInductive == MbInit /\ [][MbNext]_mbVars => []MbRest
  <1>1. MbInit => MbRest
    BY DEF MbInit, MbRest
  <1>2. MbRest /\ [MbNext]_mbVars => MbRest'
    <2> SUFFICES ASSUME MbRest, [MbNext]_mbVars PROVE MbRest'
      OBVIOUS
    <2>1. CASE UNCHANGED <<mbItems, mbExec, mbKept, mbRaced>>
      BY <2>1 DEF MbRest
    <2>2. ASSUME NEW o, NEW ok, fetchEnds(o, ok) PROVE MbRest'
      <3>1. CASE ok
        <4>1. mbKept' = mbItems' /\ mbRaced' = (mbExec # <<>>) /\ UNCHANGED mbExec
          BY <2>2, <3>1 DEF fetchEnds
        <4>2. QED
          BY <4>1 DEF MbRest
      <3>2. CASE ~ok
        BY <2>1, <2>2, <3>2 DEF fetchEnds
      <3>3. QED
        BY <3>1, <3>2
    <2>3. CASE executeAction
      <3>1. PICK a : a = mbAsked[1]
        OBVIOUS
      <3>2. PICK q : q = [item |-> a.item, op |-> a.op, org |-> mbOrg, prev |-> mbItems]
        OBVIOUS
      <3>3. q.item = a.item /\ q.op = a.op /\ q.prev = mbItems
        BY <3>2
      <3>4. PICK ex : ex = <<q>>
        OBVIOUS
      <3>5. ex # <<>> /\ ex[1] = q
        BY <3>4
      <3>6. /\ mbExec = <<>> /\ mbExec' = ex /\ mbItems' = applied(mbItems, a.item, a.op)
            /\ UNCHANGED <<mbKept, mbRaced>>
        BY <2>3, <3>1, <3>2, <3>4 DEF executeAction
      <3>7. QED
        BY <3>3, <3>5, <3>6 DEF MbRest
    <2>4. ASSUME NEW ok, actionEnds(ok) PROVE MbRest'
      <3>1. PICK e : e = mbExec[1]
        OBVIOUS
      <3>2. /\ mbExec # <<>> /\ mbExec' = <<>> /\ UNCHANGED mbRaced
            /\ mbItems' = (IF ok THEN mbItems ELSE e.prev)
            /\ mbKept' = (IF ok THEN applied(mbKept, e.item, e.op) ELSE mbKept)
        BY <2>4, <3>1 DEF actionEnds, revert
      <3>3. QED
        BY <3>1, <3>2 DEF MbRest
    <2>5. CASE UNCHANGED mbVars
      BY <2>1, <2>5 DEF mbVars
    <2>6. CASE checkMaintainerRole \/ retryFetch \/ Pagination
      BY <2>1, <2>6 DEF checkMaintainerRole, retryFetch, Pagination
    <2>7. CASE requestAction \/ cancelAction \/ \E o \in MbOrgs : setOrgId(o)
      BY <2>1, <2>7 DEF requestAction, cancelAction, setOrgId
    <2>8. QED
      BY <2>2, <2>3, <2>4, <2>5, <2>6, <2>7 DEF MbNext
  <1>3. QED
    BY <1>1, <1>2, PTL

-----------------------------------------------------------------------------
\* Dashboard.  A load that is not stale has read what the contract still says; the list in the
\* page is in doubt or exact, the count too or about to be taken again.
DaRest == /\ daChain \subseteq DaPending
          /\ \A l \in daLoads : DOMAIN l = {"kind", "n", "read", "apps", "stale"} /\ l.kind \in {"counts", "apps"}
          /\ \A l \in daLoads : l.read => l.stale \/ l.apps = daChain
          /\ "apps" \in daDoubt \/ daApps = {a \in daChain : a[2] \notin daGone}
          /\ "counts" \in daDoubt \/ daCount = Cardinality(daChain) \/ \E l \in daLoads : l.kind = "counts"

LEMMA DaRestResult == DaRest => DaExact
  BY DEF DaRest, DaExact

LEMMA DaLoadIs == \A kind, n : LET l == daLoad(kind, n) IN l.kind = kind /\ ~l.read /\ DOMAIN l = {"kind", "n", "read", "apps", "stale"}
  BY DEF daLoad

LEMMA DaWithLoads == ASSUME NEW kinds \in SUBSET {"counts", "apps"}, NEW l \in withLoads(kinds)
                     PROVE  l \in daLoads \/ (l.kind \in kinds /\ ~l.read /\ DOMAIN l = {"kind", "n", "read", "apps", "stale"})
  BY DaLoadIs DEF withLoads

LEMMA DaRestInductive == DaInit /\ [][DaNext]_daVars => []DaRest
  <1>1. DaInit => DaRest
    BY DaLoadIs DEF DaInit, DaRest
  <1>2. DaRest /\ [DaNext]_daVars => DaRest'
    <2> SUFFICES ASSUME DaRest, [DaNext]_daVars PROVE DaRest'
      OBVIOUS
    <2>0. /\ daChain \subseteq DaPending
          /\ \A l \in daLoads : DOMAIN l = {"kind", "n", "read", "apps", "stale"} /\ l.kind \in {"counts", "apps"}
          /\ \A l \in daLoads : l.read => l.stale \/ l.apps = daChain
          /\ "apps" \in daDoubt \/ daApps = {a \in daChain : a[2] \notin daGone}
          /\ "counts" \in daDoubt \/ daCount = Cardinality(daChain) \/ \E l \in daLoads : l.kind = "counts"
      BY DEF DaRest
    <2>1. CASE UNCHANGED <<daChain, daApps, daCount, daLoads, daDoubt, daGone>>
      BY <2>0, <2>1 DEF DaRest
    \* Both loads start.
    <2>2. CASE daLoads' = withLoads({"counts", "apps"}) /\ UNCHANGED <<daChain, daApps, daCount, daDoubt, daGone>>
      <3>1. daLoads \subseteq daLoads'
        BY <2>2 DEF withLoads
      <3>2. \A l \in daLoads' : l \in daLoads \/ (l.kind \in {"counts", "apps"} /\ ~l.read /\ DOMAIN l = {"kind", "n", "read", "apps", "stale"})
        BY <2>2, DaWithLoads
      <3>3. QED
        BY <2>0, <2>2, <3>1, <3>2 DEF DaRest
    <2>3. ASSUME NEW l \in daLoads, serverReads(l) PROVE DaRest'
      <3>1. PICK q : q = [l EXCEPT !.read = TRUE, !.apps = daChain]
        OBVIOUS
      <3>2. DOMAIN q = DOMAIN l /\ q.kind = l.kind /\ q.apps = daChain
        BY <2>0, <3>1
      <3>3. daLoads' = (daLoads \ {l}) \cup {q} /\ UNCHANGED <<daChain, daApps, daCount, daDoubt, daGone>>
        BY <2>3, <3>1 DEF serverReads
      <3>4. QED
        BY <2>0, <3>2, <3>3 DEF DaRest
    <2>4. ASSUME NEW l \in daLoads, NEW ok, loadAnswered(l, ok) PROVE DaRest'
      <3>1. daLoads' = daLoads \ {l} /\ UNCHANGED daChain /\ (ok => l.read)
            /\ daDoubt' = (IF ok /\ ~l.stale THEN daDoubt \ {l.kind} ELSE daDoubt \cup {l.kind})
        BY <2>4 DEF loadAnswered
      <3>2. CASE l.kind = "counts"
        <4>1. daCount' = (IF ok THEN Cardinality(l.apps) ELSE daCount) /\ UNCHANGED <<daApps, daGone>>
          BY <2>4, <3>2 DEF loadAnswered
        <4>2. QED
          BY <2>0, <3>1, <3>2, <4>1 DEF DaRest
      <3>3. CASE l.kind = "apps"
        <4>1. /\ daApps' = (IF ok THEN l.apps ELSE daApps) /\ UNCHANGED daCount
              /\ daGone' = (IF ok THEN {} ELSE daGone)
          BY <2>4, <3>3 DEF loadAnswered
        <4>2. QED
          BY <2>0, <3>1, <3>3, <4>1 DEF DaRest
      <3>4. QED
        BY <2>0, <3>2, <3>3
    <2>5. CASE withdrawSubmitted
      <3>1. PICK app \in daChain : daChain' = daChain \ {app} /\ daApps' = {a \in daApps : a[2] # app[2]} /\ daGone' = daGone \cup {app[2]}
        BY <2>5 DEF withdrawSubmitted, removeApplication
      <3>2. daLoads' = onSuccess /\ UNCHANGED <<daCount, daDoubt>>
        BY <2>5 DEF withdrawSubmitted
      <3>3. daApps = {a \in daChain : a[2] \notin daGone} => daApps' = {a \in daChain' : a[2] \notin daGone'}
        BY <3>1
      <3>4. ASSUME NEW l \in withLoads({"counts"}), NEW q, q = [l EXCEPT !.stale = l.read]
            PROVE  q.kind = l.kind /\ DOMAIN q = {"kind", "n", "read", "apps", "stale"} /\ l.kind \in {"counts", "apps"} /\ (q.read => q.stale)
        <4>1. DOMAIN l = {"kind", "n", "read", "apps", "stale"} /\ l.kind \in {"counts", "apps"}
          BY <2>0, DaWithLoads
        <4>2. PICK b : b = l.read
          OBVIOUS
        <4>3. q = [l EXCEPT !.stale = b]
          BY <3>4, <4>2
        <4>4. q.kind = l.kind /\ DOMAIN q = DOMAIN l /\ q.read = b /\ q.stale = b
          BY <4>1, <4>2, <4>3
        <4>5. QED
          BY <4>1, <4>4
      <3>5. \A q \in daLoads' : q.kind \in {"counts", "apps"} /\ DOMAIN q = {"kind", "n", "read", "apps", "stale"} /\ (q.read => q.stale)
        BY <3>2, <3>4 DEF onSuccess
      <3>6. \E q \in daLoads' : q.kind = "counts"
        <4>1. PICK l \in withLoads({"counts"}) : l.kind = "counts"
          <5>1. PICK l : l = daLoad("counts", CHOOSE n \in freeFor("counts") : TRUE)
            OBVIOUS
          <5>2. l \in withLoads({"counts"})
            BY <5>1 DEF withLoads
          <5>3. QED
            BY <5>1, <5>2, DaLoadIs
        <4>2. PICK q : q = [l EXCEPT !.stale = l.read]
          OBVIOUS
        <4>3. q \in daLoads' /\ q.kind = "counts"
          BY <3>2, <3>4, <4>1, <4>2 DEF onSuccess
        <4>4. QED
          BY <4>3
      <3>7. daChain' \subseteq DaPending
        BY <2>0, <3>1
      <3>8. QED
        BY <2>0, <3>2, <3>3, <3>5, <3>6, <3>7 DEF DaRest
    <2>7. CASE withdrawStep \/ withdrawFails
      BY <2>1, <2>7 DEF withdrawStep, withdrawFails
    <2>8. CASE initiateWithdraw \/ handleCancel \/ handleConfirm
      BY <2>1, <2>8 DEF initiateWithdraw, handleCancel, handleConfirm
    <2>9. CASE connectWallet \/ refreshBoth
      BY <2>2, <2>9 DEF connectWallet, refreshBoth
    <2>10. CASE UNCHANGED daVars
      BY <2>1, <2>10 DEF daVars
    <2>11. QED
      BY <2>3, <2>4, <2>5, <2>7, <2>8, <2>9, <2>10 DEF DaNext
  <1>3. QED
    BY <1>1, <1>2, PTL

-----------------------------------------------------------------------------
(* Lists at rest (Profile). *)

CpSecFields == {"mounted", "loading", "loaded", "error", "rows", "busy", "read", "gone"}
CpRest == DOMAIN cpSec = CpSecFields /\ CpRowsExact

LEMMA CpRestResult == CpRest => CpRowsExact
  BY DEF CpRest

LEMMA CpNoSecIs == /\ DOMAIN CpNoSec = CpSecFields /\ ~CpNoSec.mounted
                   /\ LET s == [CpNoSec EXCEPT !.mounted = TRUE, !.loading = TRUE] IN DOMAIN s = CpSecFields /\ ~s.loaded
  BY DEF CpNoSec, CpSecFields

\* Mounting leaves the section as it is handed over, or starts an empty one.
LEMMA CpMounting ==
    ASSUME NEW route, NEW view, NEW sec, DOMAIN sec = CpSecFields, NEW deletes,
           sec.mounted /\ sec.loaded => sec.rows = {r \in sec.read : r[3] \notin sec.gone},
           Mounting(route, view, sec, deletes)
    PROVE  CpRest'
  <1>1. PICK s : s = [CpNoSec EXCEPT !.mounted = TRUE, !.loading = TRUE]
    OBVIOUS
  <1>2. DOMAIN s = CpSecFields /\ ~s.loaded
    BY <1>1, CpNoSecIs
  <1>3. cpSec' \in {CpNoSec, sec, s}
    BY <1>1 DEF Mounting
  <1>4. QED
    BY <1>2, <1>3, CpNoSecIs DEF CpRest, CpRowsExact

LEMMA CpRestInductive == CpInit /\ [][CpNext]_cpVars => []CpRest
  <1>1. CpInit => CpRest
    BY CpNoSecIs DEF CpInit, CpRest, CpRowsExact
  <1>2. CpRest /\ [CpNext]_cpVars => CpRest'
    <2> SUFFICES ASSUME CpRest, [CpNext]_cpVars PROVE CpRest'
      OBVIOUS
    <2>0. /\ DOMAIN cpSec = CpSecFields
          /\ cpSec.mounted /\ cpSec.loaded => cpSec.rows = {r \in cpSec.read : r[3] \notin cpSec.gone}
      BY DEF CpRest, CpRowsExact
    <2>1. ASSUME NEW route, NEW view, showAt(route, view) PROVE CpRest'
      BY <2>0, <2>1, CpMounting DEF showAt
    <2>2. ASSUME DOMAIN cpSec' = CpSecFields, cpSec'.mounted = cpSec.mounted, cpSec'.loaded = cpSec.loaded,
                 cpSec'.rows = cpSec.rows, cpSec'.read = cpSec.read, cpSec'.gone = cpSec.gone
          PROVE  CpRest'
      BY <2>0, <2>2 DEF CpRest, CpRowsExact
    <2>3. ASSUME NEW a, setAddress(a) PROVE CpRest'
      BY <2>1, <2>3 DEF setAddress
    <2>4. CASE refreshProfile
      BY <2>1, <2>4 DEF refreshProfile
    <2>5. ASSUME NEW l, NEW o, profileAnswered(l, o) PROVE CpRest'
      <3>1. PICK v : showAt(cpRoute, v)
        BY <2>5 DEF profileAnswered
      <3>2. QED
        BY <2>1, <3>1
    \* The list lands: read and rows are the same, nothing is gone.
    <2>6. ASSUME NEW f, NEW ok, fetchApps(f, ok) PROVE CpRest'
      <3>1. CASE ok
        <4>1. PICK rows : cpSec' = [cpSec EXCEPT !.loading = FALSE, !.loaded = TRUE, !.rows = rows, !.read = rows, !.gone = {}]
          BY <2>6, <3>1 DEF fetchApps
        <4>2. PICK none : none = {}
          OBVIOUS
        <4>3. cpSec' = [cpSec EXCEPT !.loading = FALSE, !.loaded = TRUE, !.rows = rows, !.read = rows, !.gone = none]
          BY <4>1, <4>2
        <4>4. DOMAIN cpSec' = CpSecFields /\ cpSec'.rows = rows /\ cpSec'.read = rows /\ cpSec'.gone = none
          BY <2>0, <4>3 DEF CpSecFields
        <4>5. rows = {r \in rows : r[3] \notin none}
          BY <4>2
        <4>6. QED
          BY <4>4, <4>5 DEF CpRest, CpRowsExact
      <3>2. CASE ~ok
        <4>1. cpSec' = [cpSec EXCEPT !.loading = FALSE, !.error = TRUE]
          BY <2>6, <3>2 DEF fetchApps
        <4>2. QED
          BY <2>0, <2>2, <4>1 DEF CpSecFields
      <3>3. QED
        BY <3>1, <3>2
    <2>7. CASE retryApps
      <3>1. cpSec' = [cpSec EXCEPT !.loading = TRUE, !.error = FALSE]
        BY <2>7 DEF retryApps
      <3>2. QED
        BY <2>0, <2>2, <3>1 DEF CpSecFields
    <2>8. ASSUME NEW x, handleWithdraw(x) PROVE CpRest'
      <3>1. cpSec' = [cpSec EXCEPT !.busy = x[3]]
        BY <2>8 DEF handleWithdraw
      <3>2. QED
        BY <2>0, <2>2, <3>1 DEF CpSecFields
    \* The row goes and its number is remembered.
    <2>9. ASSUME NEW d, withdrawOk(d) PROVE CpRest'
      <3>1. PICK R : R = {r \in cpSec.rows : r[3] # d.issue}
        OBVIOUS
      <3>2. PICK G : G = cpSec.gone \cup {d.issue}
        OBVIOUS
      <3>3. PICK t : t = [cpSec EXCEPT !.rows = R, !.busy = 0, !.gone = G]
        OBVIOUS
      <3>4. PICK s : s = IF d.live THEN t ELSE cpSec
        OBVIOUS
      <3>5. PICK v : Mounting(cpRoute, v, s, cpDeletes \ {d})
        <4>1. t = [cpSec EXCEPT !.rows = removeRow(d.issue), !.busy = busyAfter, !.gone = @ \cup {d.issue}]
          BY <3>1, <3>2, <3>3 DEF removeRow, busyAfter
        <4>2. QED
          BY <2>9, <3>4, <4>1 DEF withdrawOk
      <3>6. /\ DOMAIN t = CpSecFields /\ t.mounted = cpSec.mounted /\ t.loaded = cpSec.loaded
            /\ t.rows = R /\ t.gone = G /\ t.read = cpSec.read
        BY <2>0, <3>3 DEF CpSecFields
      <3>7. cpSec.rows = {r \in cpSec.read : r[3] \notin cpSec.gone} => R = {r \in cpSec.read : r[3] \notin G}
        BY <3>1, <3>2
      <3>8. t.mounted /\ t.loaded => t.rows = {r \in t.read : r[3] \notin t.gone}
        BY <2>0, <3>6, <3>7
      <3>9. DOMAIN s = CpSecFields /\ (s.mounted /\ s.loaded => s.rows = {r \in s.read : r[3] \notin s.gone})
        BY <2>0, <3>4, <3>6, <3>8
      <3>10. QED
        BY <3>5, <3>9, CpMounting
    <2>10. ASSUME NEW d, withdrawFailed(d) PROVE CpRest'
      <3>1. cpSec' \in {[cpSec EXCEPT !.error = TRUE, !.busy = 0], cpSec}
        BY <2>10 DEF withdrawFailed, busyAfter
      <3>2. QED
        BY <2>0, <2>2, <3>1 DEF CpSecFields
    <2>11. CASE UNCHANGED cpVars
      BY <2>0, <2>2, <2>11 DEF cpVars
    <2>12. QED
      BY <2>3, <2>4, <2>5, <2>6, <2>7, <2>8, <2>9, <2>10, <2>11 DEF CpNext
  <1>3. QED
    BY <1>1, <1>2, PTL

-----------------------------------------------------------------------------
(* What is sent (RegisterOrg), and how often (TxForms). *)

\* A wizard's form past step 2 has a maintainer, none is in it twice, and the cap
\* has been clamped.
RoFormOK == /\ roForm \in [step : 1..4, orgId : RoTyped, maintainers : Seq(RoAddrs), cap : 1..20, capError : BOOLEAN]
            /\ Distinct(roForm.maintainers)
            /\ roForm.step >= 3 => roForm.maintainers # <<>>

RoBody(x) == x.maintainers # <<>> /\ IsInjective(x.maintainers) /\ x.cap \in 1..20

RoValid == /\ RoFormOK
           /\ \/ roBusy = FALSE /\ roSent = <<>>
              \/ roBusy = TRUE /\ \E x : RoBody(x) /\ roSent = <<x>>

\* A list is filtered as the lemmas about Without say.
LEMMA OthersAre ==
  ASSUME NEW list \in Seq(RoAddrs), NEW addr, Distinct(list)
  PROVE  otherMaintainers(list, addr) \in Seq(RoAddrs) /\ Distinct(otherMaintainers(list, addr))
  <1>1. otherMaintainers(list, addr) = Without(list, addr)
    BY DEF otherMaintainers, Without
  <1>2. QED
    BY <1>1, WithoutValues

\* Another list of maintainers, at the step that edits it.
LEMMA RoRelisted ==
  ASSUME RoFormOK, roForm.step = 2, NEW list \in Seq(RoAddrs), Distinct(list),
         roForm' = [roForm EXCEPT !.maintainers = list]
  PROVE  RoFormOK'
  <1>1. PICK S, r, s : S = Seq(RoAddrs) /\ r = roForm /\ s = roForm'
    OBVIOUS
  <1>2. r \in [step : 1..4, orgId : RoTyped, maintainers : S, cap : 1..20, capError : BOOLEAN] /\ r.step = 2
    BY <1>1 DEF RoFormOK
  <1>3. list \in S /\ s = [r EXCEPT !.maintainers = list]
    BY <1>1
  <1>4. /\ s \in [step : 1..4, orgId : RoTyped, maintainers : S, cap : 1..20, capError : BOOLEAN]
        /\ s.maintainers = list /\ s.step = 2
    BY <1>2, <1>3
  <1>5. s.step >= 3 => s.maintainers # <<>>
    <2>1. ~(2 >= 3)
      OBVIOUS
    <2>2. QED
      BY <1>4, <2>1, Zenon
  <1>6. Distinct(s.maintainers)
    BY <1>4
  <1>7. QED
    BY <1>1, <1>4, <1>5, <1>6, Zenon DEF RoFormOK

LEMMA RoFormSteps ==
  ASSUME RoFormOK, wizardStep
  PROVE  RoFormOK'
  <1> USE DEF RoFormOK
  <1>0. roForm.step \in 1..4
    OBVIOUS
  <1>1. ASSUME NEW step \in 1..4, RoGo(step), step >= 3 => roForm.maintainers # <<>> PROVE RoFormOK'
    <2>1. roForm' = [roForm EXCEPT !.step = step, !.capError = FALSE]
      BY <1>1 DEF RoGo
    <2>2. roForm'.maintainers = roForm.maintainers /\ roForm'.step = step
      BY <2>1
    <2>3. QED
      BY <1>1, <2>1, <2>2 DEF Distinct
  <1>2. CASE next1 \/ next2
    BY <1>1, <1>2 DEF next1, next2, roAt, nextEnabled2
  <1>3. CASE next3
    BY <1>1, <1>3 DEF next3, roAt
  <1>4. CASE goBack
    <2>1. roForm.step > 1 /\ RoGo(roForm.step - 1)
      BY <1>4 DEF goBack
    <2>2. PICK n : n = roForm.step - 1
      OBVIOUS
    <2>3. n \in 1..4 /\ (n >= 3 => roForm.step >= 3)
      BY <2>1, <2>2
    <2>4. QED
      BY <1>1, <2>1, <2>2, <2>3
  <1>5. ASSUME NEW addr, handleAdd(addr) PROVE RoFormOK'
    <2>1. /\ roForm.step = 2 /\ addr \in RoAddrs /\ ~Contains(roForm.maintainers, addr)
          /\ roForm' = [roForm EXCEPT !.maintainers = Append(roForm.maintainers, addr)]
      BY <1>5 DEF handleAdd, roAt, acceptable
    <2>2. PICK list : list = roForm.maintainers
      OBVIOUS
    <2>3. list \in Seq(RoAddrs) /\ Distinct(list) /\ addr \notin Values(list)
      BY <2>1, <2>2 DEF Contains, Values
    <2>4. PICK more : more = Append(list, addr)
      OBVIOUS
    <2>5. more \in Seq(RoAddrs) /\ Distinct(more)
      BY <2>1, <2>3, <2>4, AppendValues
    <2>6. roForm' = [roForm EXCEPT !.maintainers = more]
      BY <2>1, <2>2, <2>4
    <2>7. QED
      BY <2>1, <2>5, <2>6, RoRelisted
  <1>6. ASSUME NEW addr, onRemove(addr) PROVE RoFormOK'
    <2>1. /\ roForm.step = 2
          /\ roForm' = [roForm EXCEPT !.maintainers = otherMaintainers(roForm.maintainers, addr)]
      BY <1>6 DEF onRemove, roAt
    <2>2. PICK list : list = roForm.maintainers
      OBVIOUS
    <2>3. list \in Seq(RoAddrs) /\ Distinct(list)
      BY <2>2
    <2>4. PICK fewer : fewer = otherMaintainers(list, addr)
      OBVIOUS
    <2>5. fewer \in Seq(RoAddrs) /\ Distinct(fewer)
      BY <2>3, <2>4, OthersAre
    <2>6. roForm' = [roForm EXCEPT !.maintainers = fewer]
      BY <2>1, <2>2, <2>4
    <2>7. QED
      BY <2>1, <2>5, <2>6, RoRelisted
  <1>7. CASE handleChange(<<>>)
    <2>1. roForm' = [roForm EXCEPT !.capError = TRUE]
      BY <1>7 DEF handleChange
    <2>2. roForm'.maintainers = roForm.maintainers /\ roForm'.step = roForm.step
      BY <2>1
    <2>3. QED
      BY <2>1, <2>2 DEF Distinct
  <1>8. ASSUME NEW n \in {0, 4, 21}, handleChange(<<n>>) PROVE RoFormOK'
    <2>1. PICK c, e : c = clampCap(n) /\ e = (clampCap(n) # n)
      OBVIOUS
    <2>2. c \in 1..20 /\ e \in BOOLEAN
      BY <2>1 DEF clampCap
    <2>3. <<n>> # <<>> /\ <<n>>[1] = n
      OBVIOUS
    <2>4. roForm' = [roForm EXCEPT !.cap = c, !.capError = e]
      BY <1>8, <2>1, <2>3 DEF handleChange
    <2>5. roForm'.maintainers = roForm.maintainers /\ roForm'.step = roForm.step
      BY <2>4
    <2>6. QED
      BY <2>2, <2>4, <2>5 DEF Distinct
  <1>9. QED
    BY <1>2, <1>3, <1>4, <1>5, <1>6, <1>7, <1>8 DEF wizardStep

LEMMA RoEmptyIs == /\ RoEmptyForm \in [step : 1..4, orgId : RoTyped, maintainers : Seq(RoAddrs), cap : 1..20, capError : BOOLEAN]
                   /\ RoEmptyForm.maintainers = <<>> /\ RoEmptyForm.step = 1 /\ Distinct(<<>>)
  BY DEF RoEmptyForm, RoTyped, Distinct

LEMMA RoValidInductive == RoInit /\ [][RoNext]_roVars => []RoValid
  <1>1. RoInit => RoValid
    <2> SUFFICES ASSUME RoInit PROVE RoValid
      OBVIOUS
    <2>1. roForm = RoEmptyForm /\ roSent = <<>> /\ roBusy = FALSE
      BY DEF RoInit
    <2>2. RoFormOK
      BY <2>1, RoEmptyIs DEF RoFormOK
    <2>3. QED
      BY <2>1, <2>2 DEF RoValid
  <1>2. RoValid /\ [RoNext]_roVars => RoValid'
    <2> SUFFICES ASSUME RoValid, [RoNext]_roVars PROVE RoValid'
      OBVIOUS
    <2>0. RoFormOK
      BY DEF RoValid
    <2>1. CASE UNCHANGED <<roForm, roSent, roBusy>>
      BY <2>1 DEF RoValid, RoFormOK
    <2>2. ASSUME roForm' = [roForm EXCEPT !.capError = FALSE] PROVE RoFormOK'
      <3>1. roForm'.maintainers = roForm.maintainers /\ roForm'.step = roForm.step
        BY <2>0, <2>2 DEF RoFormOK
      <3>2. QED
        BY <2>0, <2>2, <3>1 DEF RoFormOK, Distinct
    <2>3. CASE clearKey
      BY <2>2, <2>3 DEF clearKey, RoValid
    <2>4. CASE wizardStep
      BY <2>0, <2>4, RoFormSteps DEF wizardStep, RoValid
    <2>5. ASSUME NEW value \in RoTyped, handleOrgIdChange(value) PROVE RoValid'
      <3>1. roForm' = [roForm EXCEPT !.orgId = value] /\ UNCHANGED <<roSent, roBusy>>
        BY <2>5 DEF handleOrgIdChange
      <3>2. roForm'.maintainers = roForm.maintainers /\ roForm'.step = roForm.step
        BY <2>0, <3>1 DEF RoFormOK
      <3>3. RoFormOK'
        BY <2>0, <2>5, <3>1, <3>2 DEF RoFormOK, Distinct
      <3>4. QED
        BY <3>1, <3>3 DEF RoValid
    <2>6. CASE handleSubmit
      <3>1. PICK x : x = [org |-> roForm.orgId, maintainers |-> roForm.maintainers, cap |-> roForm.cap]
        OBVIOUS
      <3>2. roForm.step = 4 /\ roSent = <<>> /\ roBusy' = TRUE /\ roForm' = roForm /\ roSent' = Append(roSent, x)
        BY <2>6, <3>1 DEF handleSubmit, submitEnabled, roAt, RoValid
      <3>3. roForm.maintainers # <<>> /\ roForm.cap \in 1..20 /\ Distinct(roForm.maintainers)
        BY <2>0, <3>2 DEF RoFormOK
      <3>4. x.maintainers = roForm.maintainers /\ x.cap = roForm.cap
        BY <3>1
      <3>5. RoBody(x)
        BY <3>3, <3>4 DEF RoBody, Distinct, IsInjective
      <3>6. Append(<<>>, x) = <<x>>
        OBVIOUS
      <3>7. RoFormOK'
        BY <2>0, <3>2 DEF RoFormOK
      <3>8. QED
        BY <3>2, <3>5, <3>6, <3>7 DEF RoValid
    <2>7. ASSUME NEW reply, submitReply(reply) PROVE RoValid'
      <3>1. roSent # <<>> /\ roSent' = Tail(roSent) /\ roBusy' = FALSE
        BY <2>7 DEF submitReply
      <3>2. PICK x : roSent = <<x>>
        BY <3>1 DEF RoValid
      <3>3. Tail(<<x>>) = <<>>
        OBVIOUS
      <3>4. roForm' = RoEmptyForm \/ roForm' = [roForm EXCEPT !.capError = FALSE] \/ roForm' = roForm
        BY <2>7 DEF submitReply
      <3>5. RoFormOK'
        BY <2>0, <2>2, <3>4, RoEmptyIs DEF RoFormOK
      <3>6. QED
        BY <3>1, <3>2, <3>3, <3>5 DEF RoValid
    <2>8. QED
      BY <2>1, <2>3, <2>4, <2>5, <2>6, <2>7 DEF RoNext, roVars, handleSaveKey, checkGitHubOrg, setGithubStatus
  <1>3. QED
    BY <1>1, <1>2, PTL

LEMMA RoValidResult == RoValid => RoBodyValid
  <1> SUFFICES ASSUME RoValid, NEW i \in DOMAIN roSent PROVE RoBody(roSent[i])
    BY DEF RoBodyValid, RoBody
  <1>1. roSent # <<>>
    <2>1. DOMAIN <<>> = {}
      OBVIOUS
    <2>2. QED
      BY <2>1
  <1>2. PICK x : RoBody(x) /\ roSent = <<x>>
    BY <1>1 DEF RoValid
  <1>3. DOMAIN <<x>> = {1} /\ <<x>>[1] = x
    OBVIOUS
  <1>4. QED
    BY <1>2, <1>3

-----------------------------------------------------------------------------
\* The transaction forms: at most one call, and busy with it.
TfInv == TfTypeOK /\ TfOneCall /\ (\A c, d \in tfCalls : c = d)

LEMMA TfInductive == TfInit /\ [][TfNext]_tfVars => []TfInv
  <1>1. TfInit => TfInv
    BY DEF TfInit, TfInv, TfTypeOK, TfOneCall, TfTexts
  <1>2. TfInv /\ [TfNext]_tfVars => TfInv'
    <2> SUFFICES ASSUME TfInv, [TfNext]_tfVars PROVE TfInv'
      OBVIOUS
    <2>0. TfTypeOK /\ TfOneCall /\ (\A c, d \in tfCalls : c = d)
      BY DEF TfInv
    <2>1. CASE UNCHANGED tfVars
      BY <2>0, <2>1 DEF TfInv, TfTypeOK, TfOneCall, tfVars
    <2>2. ASSUME NEW f \in tfForm.fields, onBlur(f) PROVE TfInv'
      BY <2>0, <2>2 DEF onBlur, TfInv, TfTypeOK, TfOneCall
    <2>3. ASSUME NEW f \in tfForm.fields, NEW t \in TfTexts, setField(f, t) PROVE TfInv'
      <3>1. tfValue' = [tfValue EXCEPT ![f] = t] /\ UNCHANGED <<tfForm, tfTouched, tfTried, tfBusy, tfCalls, tfCap>>
        BY <2>3 DEF setField
      <3>2. DOMAIN tfValue' = tfForm.fields /\ \A g \in tfForm.fields : tfValue'[g] \in TfTexts
        BY <2>0, <3>1 DEF TfTypeOK
      <3>3. QED
        BY <2>0, <3>1, <3>2 DEF TfInv, TfTypeOK, TfOneCall
    <2>4. ASSUME NEW cap, setCap(cap) PROVE TfInv'
      BY <2>0, <2>4 DEF setCap, TfInv, TfTypeOK, TfOneCall
    <2>5. CASE handleFormSubmit
      <3>1. tfCalls = {} /\ tfBusy = FALSE /\ UNCHANGED <<tfForm, tfValue, tfTouched, tfCap>>
        BY <2>0, <2>5 DEF handleFormSubmit, submitDisabled, TfOneCall
      <3>2. CASE ~isValid
        <4>1. tfCalls' = tfCalls /\ tfBusy' = FALSE
          BY <2>5, <3>1, <3>2 DEF handleFormSubmit
        <4>2. QED
          BY <2>0, <3>1, <4>1 DEF TfInv, TfTypeOK, TfOneCall
      <3>3. CASE isValid
        <4>1. PICK c : c = [n |-> IF tfCalls = {} THEN 1 ELSE 2, value |-> [f \in tfForm.fields |-> tfValue[f].trim]]
          OBVIOUS
        <4>2. tfCalls' = {c} /\ tfBusy' = TRUE
          BY <2>5, <3>1, <3>3, <4>1 DEF handleFormSubmit
        <4>3. c.n = 1
          BY <3>1, <4>1
        <4>4. QED
          BY <2>0, <3>1, <4>2, <4>3 DEF TfInv, TfTypeOK, TfOneCall
      <3>4. QED
        BY <3>2, <3>3
    <2>6. ASSUME NEW c \in tfCalls, formSettled(c) PROVE TfInv'
      <3>1. tfCalls' = tfCalls \ {c} /\ tfBusy' = FALSE /\ UNCHANGED <<tfForm, tfValue, tfTouched, tfTried, tfCap>>
        BY <2>6 DEF formSettled
      <3>2. QED
        BY <2>0, <3>1 DEF TfInv, TfTypeOK, TfOneCall
    <2>7. QED
      BY <2>1, <2>2, <2>3, <2>4, <2>5, <2>6 DEF TfNext
  <1>3. QED
    BY <1>1, <1>2, PTL

-----------------------------------------------------------------------------
(* Types. *)

LEMMA RegTypes == RegInit /\ [][RegNext]_regVars => []RegTypeOK
  <1> DEFINE Typed == regPending \subseteq RegAdmins \X RegAllMaintainers \X RegOrgs
  <1>1. RegInit => Typed
    BY DEF RegInit
  <1>2. Typed /\ [RegNext]_regVars => Typed'
    <2> SUFFICES ASSUME Typed, [RegNext]_regVars PROVE Typed'
      OBVIOUS
    <2>1. CASE UNCHANGED regPending
      BY <2>1
    <2>2. ASSUME NEW a \in RegAdmins, postMaintainers(a) PROVE Typed'
      <3>1. CASE UNCHANGED regPending
        BY <3>1
      <3>2. ASSUME NEW o \in RegOrgs, NEW k \in DOMAIN RegMaintainers,
                   regPending' = regPending \cup {<<a, RegMaintainers[k], o>>}
            PROVE  Typed'
        BY <3>2 DEF RegAllMaintainers
      <3>3. QED
        BY <2>2, <3>1, <3>2 DEF postMaintainers, pendingKey
    <2>3. QED
      BY <2>1, <2>2 DEF RegNext, RegStep, regVars, RegStored, postOrgs, deleteMaintainers, registerMaintainerFails,
         validateOrg, selectDuplicate, insertOrg, registerMaintainer, rollback, ApiDies
  <1>3. RegInv /\ Typed => RegTypeOK
    BY DEF RegInv, RegTables, RegReqs, RegTypeOK
  <1>4. QED
    BY <1>1, <1>2, <1>3, RegInductive, PTL

LEMMA RoTypes == RoInit /\ [][RoNext]_roVars => []RoTypeOK
  <1> DEFINE Typed == roStatus \in {"idle", "checking", "found", "not_found", "error"}
  <1>1. RoInit => Typed
    BY DEF RoInit
  <1>2. Typed /\ [RoNext]_roVars => Typed'
    <2> SUFFICES ASSUME Typed, [RoNext]_roVars PROVE Typed'
      OBVIOUS
    <2>1. CASE UNCHANGED roStatus
      BY <2>1
    <2>2. CASE setGithubStatus
      BY <2>2 DEF setGithubStatus, defaultCheckGitHubOrg
    <2>3. ASSUME NEW value, handleOrgIdChange(value) PROVE Typed'
      BY <2>3 DEF handleOrgIdChange, triggerGithubCheck, debounce
    <2>4. ASSUME NEW reply, submitReply(reply) PROVE Typed'
      BY <2>4 DEF submitReply
    <2>5. QED
      BY <2>1, <2>2, <2>3, <2>4 DEF RoNext, roVars, handleSaveKey, clearKey, checkGitHubOrg, wizardStep, handleSubmit
  <1>3. RoValid /\ Typed => RoTypeOK
    BY DEF RoValid, RoFormOK, RoTypeOK
  <1>4. QED
    BY <1>1, <1>2, <1>3, RoValidInductive, PTL

MpLoadSet == [phase : {"none", "apps", "asgs"}, addr : {""}, apps : SUBSET MpItems, fresh : SUBSET MpItems]

LEMMA MpTypes == MpInit /\ [][MpNext]_mpVars => []MpTypeOK
  <1> DEFINE Inv == MpTypeOK /\ mpLoad \in [MpLoads -> MpLoadSet]
                    /\ (mpCheck # MpNone => mpAddr # "")
  <1>0. MpNone \in MpLoadSet
    BY DEF MpNone, MpLoadSet
  <1>1. MpInit => Inv
    BY <1>0 DEF MpInit, MpTypeOK
  <1>2. Inv /\ [MpNext]_mpVars => Inv'
    <2> SUFFICES ASSUME Inv, [MpNext]_mpVars PROVE Inv'
      OBVIOUS
    <2>0. /\ mpChain \in [MpItems -> {"none", "pending", "assigned"}]
          /\ mpApps \subseteq MpItems /\ mpAsgs \subseteq MpItems /\ mpCalls \subseteq MpOps
          /\ mpLoad \in [MpLoads -> MpLoadSet]
          /\ mpStatus \in {"loading", "authorized", "forbidden", "no-wallet"} /\ (mpStatus = "no-wallet" <=> mpAddr = "")
          /\ (mpCheck # MpNone => mpAddr # "")
      BY DEF MpTypeOK
    <2> DEFINE Rows == /\ mpChain \in [MpItems -> {"none", "pending", "assigned"}]
                         /\ mpApps \subseteq MpItems /\ mpAsgs \subseteq MpItems /\ mpCalls \subseteq MpOps
                         /\ mpLoad \in [MpLoads -> MpLoadSet]
               Gate == /\ mpStatus \in {"loading", "authorized", "forbidden", "no-wallet"}
                       /\ (mpStatus = "no-wallet" <=> mpAddr = "") /\ (mpCheck # MpNone => mpAddr # "")
    <2>1. Rows' /\ Gate' => Inv'
      BY DEF MpTypeOK
    <2>2. UNCHANGED <<mpStatus, mpAddr, mpCheck>> => Gate'
      BY <2>0
    <2>3. UNCHANGED <<mpChain, mpApps, mpAsgs, mpCalls, mpLoad>> => Rows'
      BY <2>0
    <2>4. ASSUME NEW addr, setMaintainerAddress(addr) PROVE Inv'
      <3>1. mpStatus' = statusFor(addr) /\ mpAddr' = addr /\ mpCheck' = cancelCheck(addr) /\ Rows'
        BY <2>3, <2>4 DEF setMaintainerAddress
      <3>2. Gate'
        BY <3>1 DEF statusFor, cancelCheck
      <3>3. QED
        BY <2>1, <3>1, <3>2
    <2>5. ASSUME NEW answers, checkRole(answers) PROVE Inv'
      <3>1. mpCheck' = MpNone /\ mpCheck # MpNone /\ mpAddr' = mpAddr /\ mpStatus' \in {"authorized", "forbidden"}
        BY <2>5 DEF checkRole
      <3>2. Gate'
        BY <2>0, <3>1
      <3>3. PICK S \in SUBSET MpItems : S = {i \in MpItems : ~underWay(i)}
        OBVIOUS
      <3>4. [MpNone EXCEPT !.phase = "apps", !.fresh = S] \in MpLoadSet
        BY <1>0, <3>3 DEF MpLoadSet
      <3>5. mpLoad' \in [MpLoads -> MpLoadSet]
        BY <2>0, <2>5, <3>3, <3>4 DEF checkRole, panelLoad
      <3>6. Rows'
        BY <2>0, <2>5, <3>5 DEF checkRole
      <3>7. QED
        BY <2>1, <3>2, <3>6
    <2>6. ASSUME NEW l \in MpLoads, readApplications(l) PROVE Inv'
      <3>1. PICK S \in SUBSET MpItems : S = {i \in MpItems : mpChain[i] = "pending"}
        OBVIOUS
      <3>0. [mpLoad[l] EXCEPT !.phase = "asgs", !.apps = S] \in MpLoadSet
        BY <2>0, <3>1 DEF MpLoadSet
      <3>2. mpLoad' \in [MpLoads -> MpLoadSet]
        BY <2>0, <2>6, <3>0, <3>1 DEF readApplications
      <3>3. Rows' /\ Gate'
        BY <2>0, <2>2, <2>6, <3>2 DEF readApplications
      <3>4. QED
        BY <2>1, <3>3
    <2>7. ASSUME NEW l \in MpLoads, readAssignments(l) PROVE Inv'
      <3>0. mpLoad[l].apps \subseteq MpItems
        BY <2>0 DEF MpLoadSet
      <3>1. mpApps' \subseteq MpItems /\ mpAsgs' \subseteq MpItems /\ mpLoad' \in [MpLoads -> MpLoadSet]
        BY <1>0, <2>0, <2>7, <3>0 DEF readAssignments
      <3>2. Rows' /\ Gate'
        BY <1>0, <2>0, <2>2, <2>7, <3>1 DEF readAssignments
      <3>3. QED
        BY <2>1, <3>2
    <2>8. ASSUME NEW l \in MpLoads, loadFails(l) PROVE Inv'
      BY <1>0, <2>0, <2>1, <2>2, <2>8 DEF loadFails
    <2>9. ASSUME NEW i, askConfirm(i) PROVE Inv'
      BY <2>1, <2>2, <2>3, <2>9 DEF askConfirm
    <2>10. CASE panelShell
      BY <2>1, <2>2, <2>3, <2>10 DEF panelShell
    <2>11. ASSUME NEW i PROVE touched(i) \in [MpLoads -> MpLoadSet]
      <3>1. ASSUME NEW l \in MpLoads PROVE [mpLoad[l] EXCEPT !.fresh = @ \ {i}] \in MpLoadSet
        <4>1. PICK q : q = mpLoad[l]
          OBVIOUS
        <4>2. q \in MpLoadSet
          BY <2>0, <4>1
        <4>3. PICK S : S = q.fresh \ {i}
          OBVIOUS
        <4>4. S \in SUBSET MpItems
          BY <4>2, <4>3 DEF MpLoadSet
        <4>5. [q EXCEPT !.fresh = S] \in MpLoadSet
          BY <4>2, <4>4 DEF MpLoadSet
        <4>6. [mpLoad[l] EXCEPT !.fresh = @ \ {i}] = [q EXCEPT !.fresh = S]
          BY <4>1, <4>3
        <4>7. QED
          BY <4>5, <4>6
      <3>2. QED
        BY <3>1 DEF touched
    <2>12. ASSUME NEW c \in MpOps, startCall(c) PROVE Inv'
      <3>1. c.item \in MpItems
        BY MpOpIs
      <3>2. mpApps' \subseteq MpItems /\ mpAsgs' \subseteq MpItems /\ mpCalls' \subseteq MpOps /\ mpChain' = mpChain
        BY <2>0, <2>12, <3>1 DEF startCall
      <3>3. Rows' /\ Gate'
        BY <2>0, <2>2, <2>11, <2>12, <3>2 DEF startCall
      <3>4. QED
        BY <2>1, <3>3
    <2>13. ASSUME NEW c \in MpOps, callEnds(c) PROVE Inv'
      <3>1. c.item \in MpItems
        BY MpOpIs
      <3>2. mpApps' \subseteq MpItems /\ mpAsgs' \subseteq MpItems /\ mpCalls' \subseteq MpOps
        BY <2>0, <2>13, <3>1 DEF callEnds, succeeds, refused, answerLost, rollbackRow
      <3>3. mpChain' = mpChain \/ mpChain' = settled(c)
        BY <2>13 DEF callEnds, succeeds, refused, answerLost
      <3>4. mpChain' \in [MpItems -> {"none", "pending", "assigned"}]
        BY <2>0, <3>1, <3>3 DEF settled
      <3>5. Rows' /\ Gate'
        BY <2>0, <2>2, <2>11, <2>13, <3>2, <3>4 DEF callEnds
      <3>6. QED
        BY <2>1, <3>5
    <2>14. ASSUME NEW i \in MpItems, elsewhere(i) PROVE Inv'
      <3>1. mpChain' \in [MpItems -> {"none", "pending", "assigned"}]
        BY <2>0, <2>14 DEF elsewhere
      <3>2. Rows' /\ Gate'
        BY <2>0, <2>2, <2>11, <2>14, <3>1 DEF elsewhere
      <3>3. QED
        BY <2>1, <3>2
    <2>15. CASE UNCHANGED mpVars
      BY <2>1, <2>2, <2>3, <2>15 DEF mpVars
    <2>16. QED
      BY <2>4, <2>5, <2>6, <2>7, <2>8, <2>9, <2>10, <2>12, <2>13, <2>14, <2>15 DEF MpNext
  <1>3. Inv => MpTypeOK
    OBVIOUS
  <1>4. QED
    BY <1>1, <1>2, <1>3, PTL

LEMMA IdTypes == IdInit /\ [][IdNext]_idVars => []IdTypeOK
  <1> DEFINE Typed == /\ idData.issue \in IdIssues \cup {0}
                      /\ \/ idBusy = "" /\ idCalls = {}
                         \/ idBusy # "" /\ \E c : idCalls = {c}
  <1>0. IdNoData.issue = 0
    BY DEF IdNoData
  <1>1. IdInit => Typed
    BY <1>0 DEF IdInit
  <1>2. IdInv /\ Typed /\ [IdNext]_idVars => Typed'
    <2> SUFFICES ASSUME IdInv, Typed, [IdNext]_idVars PROVE Typed'
      OBVIOUS
    <2>1. CASE UNCHANGED <<idData, idBusy, idCalls>>
      BY <2>1
    <2>2. ASSUME NEW f \in idFetch, NEW ok, detailAnswered(f, ok) PROVE Typed'
      <3>1. f.issue \in IdIssues
        BY DEF IdInv, IdFetchOK
      <3>2. (idData' = idData \/ idData' \in detailSays(f.issue)) /\ UNCHANGED <<idBusy, idCalls>>
        BY <2>2 DEF detailAnswered
      <3>3. QED
        BY <3>1, <3>2, IdSays
    <2>3. ASSUME NEW op \in {"apply", "withdraw"}, idHandle(op) PROVE Typed'
      <3>1. PICK c : c = [op |-> op, issue |-> idIssue]
        OBVIOUS
      <3>2. idBusy = "" /\ idBusy' = op /\ idCalls' = idCalls \cup {c} /\ UNCHANGED idData
        BY <2>3, <3>1 DEF idHandle, buttonEnabled
      <3>3. QED
        BY <3>2
    <2>4. ASSUME NEW c \in idCalls, idAnswered(c) PROVE Typed'
      <3>1. idCalls = {c}
        OBVIOUS
      <3>2. idBusy' = "" /\ idCalls' = idCalls \ {c} /\ UNCHANGED idData
        BY <2>4 DEF idAnswered
      <3>3. QED
        BY <3>1, <3>2
    <2>5. QED
      BY <2>1, <2>2, <2>3, <2>4 DEF IdNext, idVars, retryDetail, setParams, idAssign
  <1>3. IdInv /\ Typed => IdTypeOK
    <2> SUFFICES ASSUME IdInv, Typed PROVE IdTypeOK
      OBVIOUS
    <2>1. CASE idBusy = "" /\ idCalls = {}
      BY <2>1, FS_EmptySet DEF IdInv, IdTypeOK
    <2>2. ASSUME NEW c, idCalls = {c}, idBusy # "" PROVE IdTypeOK
      <3>1. Cardinality({c}) = 1
        BY FS_Singleton
      <3>2. QED
        BY <2>2, <3>1 DEF IdInv, IdTypeOK
    <2>3. QED
      BY <2>1, <2>2
  <1>4. QED
    BY <1>1, <1>2, <1>3, IdInductive, PTL

LEMMA TcTypes == TcInit /\ [][TcNext]_tcVars => []TcTypeOK
  <1> DEFINE Applies == [state : {"idle", "submitting", "applied", "error"}, calls : {0, 1}, reason : BOOLEAN]
             Limits == [busy : BOOLEAN, calls : {0, 1}, count : 0..TcCap]
             Inv == TcTypeOK /\ tcApply \in Applies /\ tcLimit \in Limits
  <1>0. 0 \in 0..TcCap /\ 1 \in 1..TcMaxTime /\ TcCap \in Nat /\ TcMaxTime \in Nat
    BY TcAssumption
  <1>1. TcInit => Inv
    <2> SUFFICES ASSUME TcInit PROVE Inv
      OBVIOUS
    <2>1. tcApply \in Applies /\ tcApply.calls = 0 /\ tcApply.state = "idle"
      BY DEF TcInit
    <2>2. tcLimit \in Limits /\ tcLimit.calls = 0 /\ tcLimit.busy = FALSE
      BY <1>0 DEF TcInit
    <2>3. QED
      BY <1>0, <2>1, <2>2 DEF TcInit, TcTypeOK
  <1>2. Inv /\ [TcNext]_tcVars => Inv'
    <2> SUFFICES ASSUME Inv, [TcNext]_tcVars PROVE Inv'
      OBVIOUS
    <2> DEFINE Dialog == tcModal \in {"idle", "confirming", "loading", "error"} /\ tcAwait \subseteq TcCallers /\ tcLeft \subseteq TcCallers
               ApplyOK == tcApply \in Applies /\ tcApply.calls = (IF tcApply.state = "submitting" THEN 1 ELSE 0)
               LimitOK == tcLimit \in Limits /\ tcLimit.calls = (IF tcLimit.busy THEN 1 ELSE 0)
               Clock == tcNow \in 1..TcMaxTime
    <2>0. Dialog /\ ApplyOK /\ LimitOK /\ Clock
      BY DEF TcTypeOK
    <2>1. Dialog' /\ ApplyOK' /\ LimitOK' /\ Clock' => Inv'
      BY DEF TcTypeOK
    <2>2. UNCHANGED tcDialog => Dialog'
      BY <2>0 DEF tcDialog
    <2>3. UNCHANGED tcApply => ApplyOK'
      BY <2>0
    <2>4. UNCHANGED tcLimit => LimitOK'
      BY <2>0
    <2>5. UNCHANGED tcNow => Clock'
      BY <2>0
    <2>6. CASE (\E k \in TcCallers : confirm(k)) \/ setStatus \/ close \/ resolveConfirm \/ rejectConfirm
      <3>1. Dialog'
        BY <2>0, <2>6 DEF confirm, setStatus, close, closed, resolveConfirm, rejectConfirm
      <3>2. QED
        BY <2>1, <2>3, <2>4, <2>5, <2>6, <3>1 DEF confirm, setStatus, close, resolveConfirm, rejectConfirm, OnlyModal
    <2>7. ASSUME NEW n \in 0..TcCap, setCounts(n) PROVE Inv'
      <3>1. PICK b : b = (n >= TcCap)
        OBVIOUS
      <3>2. b \in BOOLEAN
        BY <1>0, <3>1
      <3>3. tcApply' = [tcApply EXCEPT !.reason = b] /\ tcLimit' = [tcLimit EXCEPT !.count = n]
        BY <2>7, <3>1 DEF setCounts
      <3>4. tcApply' \in Applies /\ tcApply'.calls = tcApply.calls /\ tcApply'.state = tcApply.state
        BY <2>0, <3>2, <3>3
      <3>5. tcLimit' \in Limits /\ tcLimit'.calls = tcLimit.calls /\ tcLimit'.busy = tcLimit.busy
        BY <2>0, <3>3
      <3>6. ApplyOK' /\ LimitOK'
        BY <2>0, <3>4, <3>5
      <3>7. QED
        BY <2>1, <2>2, <2>5, <2>7, <3>6 DEF setCounts, OnlyApply
    <2>8. CASE apply
      <3>1. tcApply.state # "submitting"
        BY <2>8 DEF apply
      <3>2. tcApply.calls = 0
        BY <2>0, <3>1
      <3>3. \/ tcApply' = [tcApply EXCEPT !.state = "submitting", !.calls = 1]
            \/ tcApply' = [tcApply EXCEPT !.state = "error"]
        BY <2>8, <3>2 DEF apply
      <3>4. ApplyOK'
        BY <2>0, <3>2, <3>3
      <3>5. QED
        BY <2>1, <2>2, <2>4, <2>5, <2>8, <3>4 DEF apply, OnlyApply
    <2>9. ASSUME NEW ok \in BOOLEAN, applyEnds(ok) PROVE Inv'
      <3>1. tcApply.calls = 1
        BY <2>0, <2>9 DEF applyEnds
      <3>2. PICK s \in {"applied", "error"} : s = IF ok THEN "applied" ELSE "error"
        OBVIOUS
      <3>3. tcApply' = [tcApply EXCEPT !.calls = 0, !.state = s]
        BY <2>9, <3>1, <3>2 DEF applyEnds
      <3>4. ApplyOK'
        BY <2>0, <3>2, <3>3
      <3>5. QED
        BY <2>1, <2>2, <2>4, <2>5, <2>9, <3>4 DEF applyEnds, OnlyApply
    <2>10. CASE limitApply
      <3>1. ~tcLimit.busy
        BY <2>10 DEF limitApply, handleApplyGuard
      <3>2. tcLimit.calls = 0
        BY <2>0, <3>1
      <3>3. tcLimit' = [tcLimit EXCEPT !.busy = TRUE, !.calls = 1]
        BY <2>10, <3>2 DEF limitApply
      <3>4. LimitOK'
        BY <2>0, <3>3
      <3>5. QED
        BY <2>1, <2>2, <2>3, <2>5, <2>10, <3>4 DEF limitApply, OnlyApply
    <2>11. CASE limitApplyEnds
      <3>1. tcLimit.calls = 1
        BY <2>0, <2>11 DEF limitApplyEnds
      <3>2. tcLimit' = [tcLimit EXCEPT !.busy = FALSE, !.calls = 0]
        BY <2>11, <3>1 DEF limitApplyEnds
      <3>3. LimitOK'
        BY <2>0, <3>2
      <3>4. QED
        BY <2>1, <2>2, <2>3, <2>5, <2>11, <3>3 DEF limitApplyEnds, OnlyApply
    <2>12. CASE requestWithdraw \/ cancelWithdraw \/ confirmWithdraw \/ \E ok \in BOOLEAN : withdrawEnds(ok)
      BY <2>1, <2>2, <2>3, <2>4, <2>5, <2>12
         DEF requestWithdraw, cancelWithdraw, confirmWithdraw, withdrawEnds, setWithdraw, OnlyWithdraw
    <2>13. CASE handleExtend \/ extendEnds
      BY <2>1, <2>2, <2>3, <2>4, <2>5, <2>13 DEF handleExtend, extendEnds, OnlyTtl
    <2>14. CASE TcTick
      <3>1. Clock'
        BY <1>0, <2>0, <2>14 DEF TcTick
      <3>2. QED
        BY <2>1, <2>2, <2>3, <2>4, <2>14, <3>1 DEF TcTick, OnlyTtl
    <2>15. CASE UNCHANGED tcVars
      BY <2>1, <2>2, <2>3, <2>4, <2>5, <2>15 DEF tcVars, tcDialog
    <2>16. QED
      BY <2>6, <2>7, <2>8, <2>9, <2>10, <2>11, <2>12, <2>13, <2>14, <2>15 DEF TcNext
  <1>3. Inv => TcTypeOK
    OBVIOUS
  <1>4. QED
    BY <1>1, <1>2, <1>3, PTL

LEMMA DaTypes == DaInit /\ [][DaNext]_daVars => []DaTypeOK
  <1> DEFINE LoadOK(l) == DOMAIN l = {"kind", "n", "read", "apps", "stale"} /\ l.apps \in SUBSET DaPending
             Inv == /\ DaTypeOK /\ \A l \in daLoads : LoadOK(l)
                    /\ daStage # "idle" => daTarget # {}
  <1>0. \A kind, n : LoadOK(daLoad(kind, n))
    BY DEF daLoad
  <1>1. DaInit => Inv
    BY <1>0 DEF DaInit, DaTypeOK
  <1>2. Inv /\ [DaNext]_daVars => Inv'
    <2> SUFFICES ASSUME Inv, [DaNext]_daVars PROVE Inv'
      OBVIOUS
    <2> DEFINE Rows == daChain \subseteq DaPending /\ daApps \subseteq DaPending
               Count == daCount \in 0..Cardinality(DaPending) \cup {DaUnknown}
               Stage == /\ daStage \in {"idle", "sequence", "build", "sign", "submit"}
                        /\ daStage # "idle" => daSigned = daTarget /\ daTarget # {}
               LoadsOK == \A l \in daLoads : LoadOK(l)
    <2>0. Rows /\ Count /\ Stage /\ LoadsOK
      BY DEF DaTypeOK
    <2>1. Rows' /\ Count' /\ Stage' /\ LoadsOK' => Inv'
      BY DEF DaTypeOK
    <2>2. UNCHANGED <<daChain, daApps>> => Rows'
      BY <2>0
    <2>3. UNCHANGED daCount => Count'
      BY <2>0
    <2>4. UNCHANGED <<daStage, daSigned, daTarget>> => Stage'
      BY <2>0
    <2>5. UNCHANGED daLoads => LoadsOK'
      BY <2>0
    <2>6. ASSUME NEW kinds PROVE \A l \in withLoads(kinds) : LoadOK(l)
      BY <1>0, <2>0 DEF withLoads
    <2> HIDE DEF LoadOK
    <2>7. CASE connectWallet \/ refreshBoth
      <3>1. LoadsOK'
        BY <2>6, <2>7 DEF connectWallet, refreshBoth
      <3>2. QED
        BY <2>1, <2>2, <2>3, <2>4, <2>7, <3>1 DEF connectWallet, refreshBoth
    <2>8. CASE initiateWithdraw \/ handleCancel \/ handleConfirm
      <3>1. Stage'
        BY <2>0, <2>8 DEF initiateWithdraw, handleCancel, handleConfirm, mayCancel
      <3>2. QED
        BY <2>1, <2>2, <2>3, <2>5, <2>8, <3>1 DEF initiateWithdraw, handleCancel, handleConfirm
    <2>9. CASE withdrawStep \/ withdrawFails
      <3>1. Stage'
        BY <2>0, <2>9 DEF withdrawStep, withdrawFails, daAfter
      <3>2. QED
        BY <2>1, <2>2, <2>3, <2>5, <2>9, <3>1 DEF withdrawStep, withdrawFails
    <2>10. ASSUME NEW l \in daLoads, serverReads(l) PROVE Inv'
      <3>1. PICK q : q = [l EXCEPT !.read = TRUE, !.apps = daChain]
        OBVIOUS
      <3>2. LoadOK(l)
        BY <2>0
      <3>3. LoadOK(q)
        BY <2>0, <3>1, <3>2 DEF LoadOK
      <3>4. daLoads' = (daLoads \ {l}) \cup {q}
        BY <2>10, <3>1 DEF serverReads
      <3>5. LoadsOK'
        BY <2>0, <3>3, <3>4
      <3>6. QED
        BY <2>1, <2>2, <2>3, <2>4, <2>10, <3>5 DEF serverReads
    <2>11. ASSUME NEW l \in daLoads, NEW ok, loadAnswered(l, ok) PROVE Inv'
      <3>1. l.apps \in SUBSET DaPending
        BY <2>0 DEF LoadOK
      <3>2. Cardinality(l.apps) \in 0..Cardinality(DaPending)
        <4>1. IsFiniteSet(DaPending)
          BY DaAssumption
        <4>2. IsFiniteSet(l.apps) /\ Cardinality(l.apps) <= Cardinality(DaPending)
          BY <3>1, <4>1, FS_Subset
        <4>3. Cardinality(l.apps) \in Nat /\ Cardinality(DaPending) \in Nat
          BY <4>1, <4>2, FS_CardinalityType
        <4>4. QED
          BY <4>2, <4>3
      <3>3. daApps' \in {daApps, l.apps} /\ daChain' = daChain
        BY <2>11 DEF loadAnswered
      <3>4. daCount' \in {daCount, Cardinality(l.apps)}
        BY <2>11 DEF loadAnswered
      <3>5. Rows' /\ Count' /\ LoadsOK'
        BY <2>0, <2>11, <3>1, <3>2, <3>3, <3>4 DEF loadAnswered
      <3>6. QED
        BY <2>1, <2>4, <2>11, <3>5 DEF loadAnswered
    <2>12. CASE withdrawSubmitted
      <3>1. Rows' /\ Stage'
        BY <2>0, <2>12 DEF withdrawSubmitted, removeApplication
      <3>2. ASSUME NEW l \in withLoads({"counts"}) PROVE LoadOK([l EXCEPT !.stale = l.read])
        <4>1. PICK b : b = l.read
          OBVIOUS
        <4>2. LoadOK([l EXCEPT !.stale = b])
          BY <2>6 DEF LoadOK
        <4>3. QED
          BY <4>1, <4>2
      <3>3. LoadsOK'
        BY <2>12, <3>2 DEF withdrawSubmitted, onSuccess
      <3>4. QED
        BY <2>1, <2>3, <2>12, <3>1, <3>3 DEF withdrawSubmitted
    <2>13. CASE UNCHANGED daVars
      BY <2>1, <2>2, <2>3, <2>4, <2>5, <2>13 DEF daVars
    <2>14. QED
      BY <2>7, <2>8, <2>9, <2>10, <2>11, <2>12, <2>13 DEF DaNext
  <1>3. Inv => DaTypeOK
    OBVIOUS
  <1>4. QED
    BY <1>1, <1>2, <1>3, PTL

LEMMA CaTypes == CaInit /\ [][CaNext]_caVars => []CaTypeOK
  <1> DEFINE Typed == /\ caStatus \in CaStatuses /\ caChain \in CaStatuses /\ caSent \in 0..CaMaxCalls
                      /\ caCalls \subseteq {"apply", "withdraw"} \X (1..caSent)
  <1>0. CaMaxCalls \in Nat
    BY CaAssumption
  <1>1. CaInit => Typed
    BY <1>0 DEF CaInit
  <1>2. Typed /\ [CaNext]_caVars => Typed'
    <2> SUFFICES ASSUME Typed, [CaNext]_caVars PROVE Typed'
      OBVIOUS
    <2>1. ASSUME NEW kind \in {"apply", "withdraw"}, CaSend(kind), caSent < CaMaxCalls, UNCHANGED <<caStatus, caChain>>
          PROVE  Typed'
      <3>1. caSent' = caSent + 1 /\ caSent \in Nat
        BY <2>1 DEF CaSend
      <3>2. caSent' \in 0..CaMaxCalls /\ caSent + 1 \in 1..caSent' /\ 1..caSent \subseteq 1..caSent'
        BY <1>0, <2>1, <3>1
      <3>3. caCalls' = caCalls \cup {<<kind, caSent + 1>>}
        BY <2>1 DEF CaSend
      <3>4. QED
        BY <2>1, <3>2, <3>3
    <2>2. CASE UNCHANGED <<caSent, caCalls>> /\ caStatus' \in CaStatuses /\ caChain' \in CaStatuses
      BY <2>2
    <2>3. CASE parentRenders
      BY <2>2, <2>3 DEF parentRenders, caOwn
    <2>4. CASE ContractMoves
      <3>1. caChain' \in CaStatuses
        BY <2>4 DEF ContractMoves, CaStatuses
      <3>2. QED
        BY <2>2, <2>4, <3>1 DEF ContractMoves, caOwn
    <2>5. CASE handleApplyClick
      BY <2>1, <2>2, <2>5 DEF handleApplyClick
    <2>6. CASE modalConfirmed
      BY <2>1, <2>6 DEF modalConfirmed
    <2>7. CASE modalCancelled
      BY <2>2, <2>7 DEF modalCancelled
    <2>8. CASE handleWithdrawClick
      BY <2>1, <2>8 DEF handleWithdrawClick
    <2>9. ASSUME NEW c, callSucceeds(c) \/ callFails(c) PROVE Typed'
      <3>1. caChain' \in CaStatuses
        BY <2>9 DEF callSucceeds, callFails, CaStatuses
      <3>2. QED
        BY <2>9, <3>1 DEF callSucceeds, callFails
    <2>10. CASE UNCHANGED caVars
      BY <2>2, <2>10 DEF caVars
    <2>11. QED
      BY <2>3, <2>4, <2>5, <2>6, <2>7, <2>8, <2>9, <2>10 DEF CaNext
  <1>3. CaInv /\ Typed => CaTypeOK
    BY DEF CaInv, CaTypeOK
  <1>4. QED
    BY <1>1, <1>2, <1>3, CaInductive, PTL

LEMMA KsTypes == KsInit /\ [][KsNext]_ksVars => []KsTypeOK
  <1> DEFINE Typed == /\ ksEnabled \in BOOLEAN /\ ksModal \in {"none", "help", "apply", "org"}
                      /\ ksCards \in 0..KsMaxCards /\ ksFocus \in Int /\ ksFocus >= -2 /\ ksFocus <= ksCards
  <1>0. KsMaxCards \in Nat
    BY KsAssumption
  <1>1. KsInit => Typed
    BY <1>0 DEF KsInit, KsBody
  <1>2. Typed /\ [KsNext]_ksVars => Typed'
    <2> SUFFICES ASSUME Typed, [KsNext]_ksVars PROVE Typed'
      OBVIOUS
    <2> DEFINE Focus == ksCards \in 0..KsMaxCards /\ ksFocus \in Int /\ ksFocus >= -2 /\ ksFocus <= ksCards
               Modal == ksModal \in {"none", "help", "apply", "org"}
    <2>0. ksCards \in 0..KsMaxCards /\ ksFocus \in Int /\ ksFocus >= -2 /\ ksFocus <= ksCards /\ ksCards \in Nat
      BY <1>0
    <2>1. UNCHANGED <<ksCards, ksFocus>> => Focus'
      BY <2>0
    <2>2. ASSUME NEW d \in {1, -1}, moveFocus(d), UNCHANGED ksCards PROVE Focus'
      BY <2>0, <2>2 DEF moveFocus, nextIndex
    <2>3. UNCHANGED ksCards /\ ksFocus' \in {KsBody, KsSearch, KsSelector} => Focus'
      BY <2>0 DEF KsBody, KsSearch, KsSelector
    <2>4. ASSUME NEW key, keyEffect(key), UNCHANGED ksCards PROVE Focus' /\ Modal'
      <3>1. CASE key = "j"
        BY <2>2, <2>4, <3>1 DEF keyEffect, moveFocus
      <3>2. CASE key = "k"
        BY <2>2, <2>4, <3>2 DEF keyEffect, moveFocus
      <3>3. CASE key = "Enter"
        BY <2>1, <2>4, <3>3 DEF keyEffect
      <3>4. CASE key = "Escape"
        BY <2>1, <2>4, <3>4 DEF keyEffect
      <3>5. CASE key = "/"
        BY <2>3, <2>4, <3>5 DEF keyEffect
      <3>6. CASE key = "?"
        BY <2>1, <2>4, <3>6 DEF keyEffect
      <3>7. CASE key \notin {"j", "k", "Enter", "Escape", "/", "?"}
        BY <2>1, <2>4, <3>7 DEF keyEffect
      <3>8. QED
        BY <3>1, <3>2, <3>3, <3>4, <3>5, <3>6, <3>7
    <2>5. ASSUME NEW key, handleKeyDown(key) PROVE Typed'
      <3>1. UNCHANGED <<ksEnabled, ksCards>>
        BY <2>5 DEF handleKeyDown
      <3>2. CASE openOrgSelector
        BY <2>1, <2>3, <3>1, <3>2 DEF openOrgSelector
      <3>3. CASE keyEffect(key)
        BY <2>4, <3>1, <3>3
      <3>4. CASE UNCHANGED <<ksFocus, ksModal>>
        BY <2>1, <3>1, <3>4
      <3>5. QED
        BY <2>5, <3>2, <3>3, <3>4 DEF handleKeyDown
    <2>6. ASSUME NEW key, keyWhileTyping(key) PROVE Typed'
      BY <2>1, <2>6 DEF keyWhileTyping
    <2>7. CASE KsTick
      BY <2>1, <2>7 DEF KsTick
    <2>8. CASE setShortcutsEnabled
      BY <2>1, <2>8 DEF setShortcutsEnabled
    <2>9. CASE KsOutside
      <3>1. CASE ksCards' \in 0..KsMaxCards /\ ksFocus' = (IF ksFocus > ksCards' THEN KsBody ELSE ksFocus)
        <4>1. Focus'
          BY <1>0, <2>0, <3>1 DEF KsBody
        <4>2. QED
          BY <2>9, <4>1 DEF KsOutside
      <3>2. CASE ksFocus' \in {KsBody, KsSearch} /\ UNCHANGED ksCards
        BY <2>3, <2>9, <3>2 DEF KsOutside
      <3>3. QED
        BY <2>9, <3>1, <3>2 DEF KsOutside
    <2>10. CASE UNCHANGED ksVars
      BY <2>1, <2>10 DEF ksVars
    <2>11. QED
      BY <2>5, <2>6, <2>7, <2>8, <2>9, <2>10 DEF KsNext
  <1>3. KsInv /\ Typed => KsTypeOK
    <2> SUFFICES ASSUME KsInv, Typed PROVE KsTypeOK
      OBVIOUS
    <2>1. ksFocus \in -2..ksCards
      BY <1>0
    <2>2. QED
      BY <2>1 DEF KsInv, KsTypeOK
  <1>4. QED
    BY <1>1, <1>2, <1>3, KsInductive, PTL

LEMMA VtTypes == VtInit /\ [][VtNext]_vtVars => []VtTypeOK
  <1>0. VtMax \in Nat
    BY VtAssumption
  <1>1. VtInit => VtTypeOK
    BY <1>0 DEF VtInit, VtTypeOK
  <1>2. VtTypeOK /\ [VtNext]_vtVars => VtTypeOK'
    <2> SUFFICES ASSUME VtTypeOK, [VtNext]_vtVars PROVE VtTypeOK'
      OBVIOUS
    <2>0. /\ vtAsked \in 0..VtMax /\ vtView \in 0..vtAsked /\ vtFlight \in 0..vtAsked /\ vtAsked \in Nat
          /\ \A c \in vtPend : c.nav \in 1..vtAsked
          /\ vtMode = "bare" => vtFlight = 0 /\ vtPend = {}
      BY <1>0 DEF VtTypeOK
    <2>1. 0 \in 0..vtAsked /\ 1..vtAsked \subseteq 0..vtAsked
      BY <2>0
    <2>2. CASE navigate
      <3>1. vtAsked < VtMax /\ vtAsked' = vtAsked + 1 /\ UNCHANGED vtMode
        BY <2>2 DEF navigate
      <3>2. /\ vtAsked' \in 0..VtMax /\ vtAsked + 1 \in 1..vtAsked' /\ 0..vtAsked \subseteq 0..vtAsked'
            /\ 1..vtAsked \subseteq 1..vtAsked' /\ 1..vtAsked' \subseteq 0..vtAsked'
        BY <1>0, <2>0, <3>1
      <3>3. CASE vtFlight # 0 \/ vtMode = "bare"
        <4>1. vtView' = vtAsked + 1 /\ UNCHANGED <<vtFlight, vtPend>>
          BY <2>2, <3>3 DEF navigate, bareFlight
        <4>2. QED
          BY <2>0, <3>1, <3>2, <4>1 DEF VtTypeOK
      <3>4. CASE ~(vtFlight # 0 \/ vtMode = "bare")
        <4>1. \A c \in vtPend' : c \in vtPend \/ c.nav = vtAsked + 1
          BY <2>2, <3>4, VtCallbackIs DEF navigate, exitPhase
        <4>2. vtFlight' = vtAsked + 1 /\ UNCHANGED vtView
          BY <2>2, <3>4 DEF navigate
        <4>3. QED
          BY <2>0, <3>1, <3>2, <3>4, <4>1, <4>2 DEF VtTypeOK
      <3>5. QED
        BY <3>3, <3>4
    \* The callbacks left are of navigations that had some before.
    <2>3. ASSUME vtPend # {}, \A q \in vtPend' : \E c \in vtPend : q.nav = c.nav, vtFlight' \in {0, vtFlight},
                 vtView' = vtView \/ \E c \in vtPend : vtView' = c.nav, UNCHANGED <<vtMode, vtAsked>>
          PROVE  VtTypeOK'
      BY <2>0, <2>1, <2>3 DEF VtTypeOK
    <2>4. ASSUME NEW c \in vtPend, startViewTransition(c) PROVE VtTypeOK'
      <3>1. \A q \in vtPend' : \E d \in vtPend : q.nav = d.nav
        BY <2>4, VtCallbackIs DEF startViewTransition
      <3>2. QED
        BY <2>3, <2>4, <3>1 DEF startViewTransition
    <2>5. ASSUME NEW c \in vtPend, requestAnimationFrame(c) PROVE VtTypeOK'
      <3>1. \A q \in vtPend' : \E d \in vtPend : q.nav = d.nav
        BY <2>5, VtCallbackIs DEF requestAnimationFrame, enterPhase
      <3>2. QED
        BY <2>3, <2>5, <3>1 DEF requestAnimationFrame
    <2>6. ASSUME NEW c \in vtPend, vtTimer(c) PROVE VtTypeOK'
      <3>1. \A q \in vtPend' : \E d \in vtPend : q.nav = d.nav
        BY <2>6, VtCallbackIs DEF vtTimer, afterExit
      <3>2. QED
        BY <2>3, <2>6, <3>1 DEF vtTimer, afterEnter
    <2>7. CASE animationend
      <3> DEFINE exits == {c \in vtPend : c.kind = "exitListener"}
                 enters == {c \in vtPend : c.kind = "enterListener"}
                 last == CHOOSE c \in exits : \A d \in exits : d.nav <= c.nav
      <3>1. /\ exits \cup enters # {} /\ vtView' = IF exits = {} THEN vtView ELSE last.nav
            /\ vtFlight' = afterEnter(enters)
            /\ vtPend' = (vtPend \ (exits \cup enters)) \cup afterExit(exits)
            /\ UNCHANGED <<vtMode, vtAsked>>
        BY <2>7 DEF animationend
      <3>2. \A q \in vtPend' : \E c \in vtPend : q.nav = c.nav
        BY <3>1, VtCallbackIs DEF afterExit
      <3>3. ASSUME exits # {} PROVE last \in exits
        <4> DEFINE navs == {c.nav : c \in exits}
        <4>1. navs \in SUBSET (1..vtAsked) /\ navs # {} /\ vtAsked \in Nat
          BY <2>0, <3>3
        <4>2. Max(navs) \in navs /\ \A y \in navs : Max(navs) >= y
          <5> HIDE DEF navs
          <5>1. QED
            BY <4>1, MaxIn
        <4>3. PICK c \in exits : c.nav = Max(navs)
          BY <4>2
        <4>4. \A d \in exits : d.nav \in navs /\ d.nav \in Nat
          BY <4>1
        <4>5. \A d \in exits : d.nav <= c.nav
          <5> HIDE DEF navs, exits
          <5>1. QED
            BY <4>2, <4>3, <4>4
        <4>6. QED
          BY <4>5, Zenon
      <3>4. vtFlight' \in {0, vtFlight}
        BY <3>1 DEF afterEnter
      <3>5. vtView' = vtView \/ \E c \in vtPend : vtView' = c.nav
        <4> HIDE DEF last
        <4>1. QED
          BY <3>1, <3>3
      <3>6. vtPend # {}
        BY <3>1
      <3> HIDE DEF exits, enters
      <3>7. QED
        BY <2>3, <3>1, <3>2, <3>4, <3>5, <3>6
    <2>8. CASE UNCHANGED vtVars
      BY <2>0, <2>8 DEF vtVars, VtTypeOK
    <2>9. QED
      BY <2>2, <2>4, <2>5, <2>6, <2>7, <2>8 DEF VtNext
  <1>3. QED
    BY <1>1, <1>2, PTL

LEMMA OmTypes == OmInit /\ [][OmNext]_omVars => []OmTypeOK
  <1> DEFINE ReadOK(r) == r[1] \in 1..OmLoads /\ r[3] \subseteq OmPairs
             Form == /\ omAddr \in OmAddrs \cup {"", "bad"} /\ omOrg \in OmOrgs \cup {""}
                     /\ omErrors \subseteq {"addr", "org"} /\ omStatus \in {"none", "success", "error"}
             Pairs == omList \subseteq OmPairs /\ omChain \subseteq OmPairs /\ \A c \in omCalls : c[2] \in OmPairs
             Reads == /\ omCount \in 0..OmLoads /\ \A r \in omReads : ReadOK(r)
                      /\ omAwaits # 0 => \E r \in omReads : r[1] = omAwaits
             Inv == Form /\ Pairs /\ Reads
  <1>0. OmLoads \in Nat /\ OmLoads >= 1
    <2>1. OmLoads \in Nat /\ OmLoads # 0
      BY OmAssumption, Zenon
    <2>2. QED
      BY <2>1
  <1>1. OmInit => Inv
    <2> SUFFICES ASSUME OmInit PROVE Inv
      OBVIOUS
    <2>1. Form
      BY DEF OmInit
    <2>2. (CHOOSE p \in OmPairs : TRUE) \in OmPairs
      <3>1. PICK a \in OmAddrs, o \in OmOrgs : TRUE
        BY OmAssumption
      <3>2. <<a, o>> \in OmPairs
        BY DEF OmPairs
      <3>3. QED
        BY <3>2
    <2>3. Pairs
      BY <2>2 DEF OmInit
    <2>4. PICK q : q = <<1, FALSE, {}>>
      OBVIOUS
    <2>5. ReadOK(q)
      BY <1>0, <2>4
    <2> HIDE DEF ReadOK
    <2>6. omReads = {} \/ omReads = {q}
      BY <2>4 DEF OmInit
    <2>7. omCount \in {0, 1} /\ omAwaits = 0
      BY DEF OmInit
    <2>8. omCount \in 0..OmLoads
      BY <1>0, <2>7
    <2>9. QED
      BY <2>1, <2>3, <2>5, <2>6, <2>7, <2>8
  <1>2. Inv /\ [OmNext]_omVars => Inv'
    <2> SUFFICES ASSUME Inv, [OmNext]_omVars PROVE Inv'
      OBVIOUS
    <2>0. Form /\ Pairs /\ Reads
      OBVIOUS
    <2>1. UNCHANGED <<omForm, omStatus>> => Form'
      BY <2>0 DEF omForm
    <2>2. UNCHANGED <<omList, omChain, omCalls>> => Pairs'
      BY <2>0
    <2>3. UNCHANGED <<omCount, omReads, omAwaits>> => Reads'
      BY <2>0
    <2>4. ASSUME omStartLoad PROVE omCount + 1 \in 1..OmLoads /\ omCount' \in 0..OmLoads
                                   /\ omCount' = omCount + 1 /\ \E q : ReadOK(q) /\ q[1] = omCount + 1 /\ omReads' = omReads \cup {q}
      <3>1. PICK q : q = <<omCount + 1, FALSE, {}>>
        OBVIOUS
      <3>2. omCount < OmLoads /\ omCount' = omCount + 1 /\ omReads' = omReads \cup {q}
        BY <2>4, <3>1 DEF omStartLoad
      <3>3. omCount + 1 \in 1..OmLoads /\ omCount' \in 0..OmLoads
        <4>1. omCount \in 0..OmLoads
          BY <2>0
        <4> HIDE DEF Form, Pairs, Reads
        <4>2. QED
          BY <1>0, <4>1, <3>2
      <3>4. q[1] = omCount + 1 /\ q[3] = {}
        BY <3>1
      <3>5. QED
        BY <3>2, <3>3, <3>4
    <2> HIDE DEF ReadOK
    <2>5. ASSUME omStartLoad, omAwaits' \in {omAwaits, omCount + 1} PROVE Reads'
      <3>1. PICK q : ReadOK(q) /\ q[1] = omCount + 1 /\ omReads' = omReads \cup {q}
        BY <2>4, <2>5
      <3>2. \A r \in omReads' : ReadOK(r)
        BY <2>0, <3>1
      <3>3. omAwaits' # 0 => \E r \in omReads' : r[1] = omAwaits'
        BY <2>0, <2>5, <3>1
      <3>4. QED
        BY <2>4, <2>5, <3>2, <3>3
    <2>6. CASE setOmWallet
      <3>1. Form' /\ Pairs'
        BY <2>1, <2>2, <2>6 DEF setOmWallet
      <3>2. Reads'
        BY <2>3, <2>5, <2>6 DEF setOmWallet
      <3>3. QED
        BY <3>1, <3>2
    <2>7. CASE refreshList
      <3>1. Form' /\ Pairs'
        BY <2>1, <2>2, <2>7 DEF refreshList
      <3>2. Reads'
        BY <2>5, <2>7 DEF refreshList
      <3>3. QED
        BY <3>1, <3>2
    <2>8. CASE handleOmSubmit
      <3>1. PICK c : c = <<omAdmin, <<omAddr, omOrg>>, Cardinality(omCalls)>>
        OBVIOUS
      <3>2. c[2] = <<omAddr, omOrg>>
        BY <3>1
      <3>3. omAddr \in OmAddrs /\ omOrg \in OmOrgs
        <4>1. omAddr \in OmAddrs /\ omOrg # ""
          BY <2>8 DEF handleOmSubmit, canSubmit
        <4>2. omOrg \in OmOrgs \cup {""}
          BY <2>0
        <4>3. QED
          BY <4>1, <4>2
      <3>4. omCalls' = omCalls \cup {c} /\ UNCHANGED <<omList, omChain, omForm>> /\ omStatus' = "none"
        BY <2>8, <3>1 DEF handleOmSubmit
      <3>5. c[2] \in OmPairs
        <4>1. <<omAddr, omOrg>> \in OmPairs
          BY <3>3, Zenon DEF OmPairs
        <4>2. QED
          BY <3>2, <4>1, Zenon
      <3>6. Form'
        BY <2>0, <3>4 DEF omForm
      <3>7. Pairs'
        BY <2>0, <3>4, <3>5
      <3>8. Reads'
        BY <2>3, <2>8 DEF handleOmSubmit
      <3>9. QED
        BY <3>6, <3>7, <3>8
    <2>9. ASSUME NEW a \in OmAddrs \cup {"", "bad"}, handleMaintainerAddressChange(a) PROVE Inv'
      <3>1. Form'
        BY <2>0, <2>9 DEF handleMaintainerAddressChange, OmFieldTo
      <3>2. Pairs' /\ Reads'
        BY <2>2, <2>3, <2>9 DEF handleMaintainerAddressChange, OmFieldTo
      <3>3. QED
        BY <3>1, <3>2
    <2>10. ASSUME NEW o \in OmOrgs \cup {""}, handleOmOrgIdChange(o) PROVE Inv'
      <3>1. Form'
        BY <2>0, <2>10 DEF handleOmOrgIdChange, OmFieldTo
      <3>2. Pairs' /\ Reads'
        BY <2>2, <2>3, <2>10 DEF handleOmOrgIdChange, OmFieldTo
      <3>3. QED
        BY <3>1, <3>2
    <2>11. ASSUME NEW c \in omCalls, registerOk(c) PROVE Inv'
      <3>1. Form'
        BY <2>0, <2>11 DEF registerOk
      <3>2. c[2] \in OmPairs
        BY <2>0
      <3>3. omChain' = omChain \cup {c[2]} /\ omCalls' = omCalls \ {c} /\ UNCHANGED omList
        BY <2>11 DEF registerOk
      <3>4. Pairs'
        BY <2>0, <3>2, <3>3
      <3>5. Reads'
        BY <2>5, <2>11 DEF registerOk, afterSuccess
      <3>6. QED
        BY <3>1, <3>4, <3>5
    <2>12. ASSUME NEW c \in omCalls, registerFails(c) PROVE Inv'
      <3>1. Form'
        BY <2>0, <2>12 DEF registerFails, omForm
      <3>2. c[2] \in OmPairs
        BY <2>0
      <3>3. omChain' \in {omChain, omChain \cup {c[2]}} /\ omCalls' = omCalls \ {c} /\ UNCHANGED omList
        BY <2>12 DEF registerFails
      <3>4. Pairs'
        BY <2>0, <3>2, <3>3
      <3>5. Reads'
        BY <2>3, <2>12 DEF registerFails
      <3>6. QED
        BY <3>1, <3>4, <3>5
    <2>13. ASSUME NEW r \in omReads, contractRead(r) PROVE Inv'
      <3>1. PICK q : q = <<r[1], TRUE, omChain>>
        OBVIOUS
      <3>2. q[1] = r[1] /\ q[3] = omChain
        BY <3>1
      <3>3. ReadOK(q)
        BY <2>0, <3>2 DEF ReadOK
      <3>4. omReads' = (omReads \ {r}) \cup {q} /\ UNCHANGED <<omCount, omAwaits>>
        BY <2>13, <3>1 DEF contractRead
      <3>5. Reads'
        BY <2>0, <3>2, <3>3, <3>4
      <3>6. Form' /\ Pairs'
        BY <2>1, <2>2, <2>13 DEF contractRead
      <3>7. QED
        BY <3>5, <3>6
    <2>14. ASSUME NEW r \in omReads, loadMaintainers(r) PROVE Inv'
      <3>1. r[3] \subseteq OmPairs
        BY <2>0 DEF ReadOK
      <3>2. omList' \in {omList, r[3]} /\ UNCHANGED <<omChain, omCalls>>
        BY <2>14 DEF loadMaintainers
      <3>3. Pairs'
        BY <2>0, <3>1, <3>2
      <3>4. /\ omReads' = omReads \ {r} /\ UNCHANGED omCount
            /\ omAwaits' = IF r[1] = omAwaits THEN 0 ELSE omAwaits
        BY <2>14 DEF loadMaintainers, omFinally
      <3>5. Reads'
        BY <2>0, <3>4
      <3>6. Form'
        BY <2>1, <2>14 DEF loadMaintainers
      <3>7. QED
        BY <3>3, <3>5, <3>6
    <2>15. ASSUME NEW p \in OmPairs, Elsewhere(p) PROVE Inv'
      <3>1. Pairs'
        BY <2>0, <2>15 DEF Elsewhere
      <3>2. Form' /\ Reads'
        BY <2>1, <2>3, <2>15 DEF Elsewhere
      <3>3. QED
        BY <3>1, <3>2
    <2>16. CASE UNCHANGED omVars
      BY <2>1, <2>2, <2>3, <2>16 DEF omVars, omForm
    <2>17. QED
      BY <2>6, <2>7, <2>8, <2>9, <2>10, <2>11, <2>12, <2>13, <2>14, <2>15, <2>16 DEF OmNext
  <1>3. Inv => OmTypeOK
    <2> SUFFICES ASSUME Inv PROVE OmTypeOK
      OBVIOUS
    <2>1. omAwaits \in 0..OmLoads
      <3>0. 0 \in 0..OmLoads /\ \A n \in 1..OmLoads : n \in 0..OmLoads
        <4> HIDE DEF Form, Pairs, Reads, Inv
        <4>1. QED
          BY <1>0
      <3>1. CASE omAwaits = 0
        BY <3>0, <3>1
      <3>2. CASE omAwaits # 0
        <4>1. omAwaits \in 1..OmLoads
          BY <3>2
        <4>2. QED
          BY <3>0, <4>1
      <3>3. QED
        BY <3>1, <3>2
    <2>2. QED
      BY <2>1 DEF OmTypeOK
  <1>4. QED
    BY <1>1, <1>2, <1>3, PTL

CpSecOK(s) == DOMAIN s = CpSecFields /\ s.mounted \in BOOLEAN /\ s.rows \subseteq CpPending
CpDeleteOK(d) == DOMAIN d = {"issue", "reload", "live", "n"} /\ d.live \in BOOLEAN
CpViewOK(v) == DOMAIN v = {"state", "profile"} /\ v.state \in {"loading", "ready", "not-found", "error"}
CpShown == isOwnProfile(cpRoute) /\ profileShown(cpView)

\* The type invariant of the profile page, and more: a row is being withdrawn only
\* while the mounted section waits for an answer.
CpTyped == /\ cpRoute \in CpAddrs /\ CpViewOK(cpView)
           /\ CpSecOK(cpSec) /\ (cpSec.mounted <=> CpShown)
           /\ \A d \in cpDeletes : CpDeleteOK(d)
           /\ cpSec.busy # 0 => \E d \in cpDeletes : d.live

LEMMA CpNoSecTyped ==
  /\ CpSecOK(CpNoSec) /\ ~CpNoSec.mounted /\ CpNoSec.busy = 0
  /\ LET s == [CpNoSec EXCEPT !.mounted = TRUE, !.loading = TRUE] IN CpSecOK(s) /\ s.mounted /\ s.busy = 0
  BY DEF CpNoSec, CpSecFields, CpSecOK

LEMMA CpMountingTyped ==
    ASSUME CpTyped, NEW route \in CpAddrs, NEW view, CpViewOK(view), NEW sec, CpSecOK(sec),
           NEW deletes \in SUBSET cpDeletes,
           Mounting(route, view, sec, deletes),
           sec.busy # 0 => \E d \in deletes : d.live
    PROVE  CpTyped'
  <1> DEFINE on == isOwnProfile(route) /\ profileShown(view)
  <1>1. /\ cpView' = view /\ cpRoute' = route
        /\ ~on => cpSec' = CpNoSec
        /\ on /\ sec.mounted => cpSec' = sec
        /\ on /\ ~sec.mounted => cpSec' = [CpNoSec EXCEPT !.mounted = TRUE, !.loading = TRUE]
    BY DEF Mounting
  <1>2. cpDeletes' = {[d EXCEPT !.live = @ /\ on] : d \in deletes}
    BY DEF Mounting
  <1>3. CpShown' <=> on
    BY <1>1 DEF CpShown, isOwnProfile, profileShown
  <1> HIDE DEF on
  <1>4. \A d \in deletes : CpDeleteOK(d)
    BY DEF CpTyped
  <1>5. ASSUME NEW d \in deletes, NEW b, b = (d.live /\ on), NEW q, q = [d EXCEPT !.live = b]
        PROVE  q.live = b /\ DOMAIN q = {"issue", "reload", "live", "n"}
    BY <1>4, <1>5 DEF CpDeleteOK
  <1>6. \A q \in cpDeletes' : CpDeleteOK(q)
    <2> SUFFICES ASSUME NEW q \in cpDeletes' PROVE CpDeleteOK(q)
      OBVIOUS
    <2>1. PICK d \in deletes : q = [d EXCEPT !.live = d.live /\ on]
      BY <1>2
    <2>2. PICK b : b = (d.live /\ on)
      OBVIOUS
    <2>3. b \in BOOLEAN
      BY <2>2, Zenon
    <2>4. q.live = b /\ DOMAIN q = {"issue", "reload", "live", "n"}
      BY <1>5, <2>1, <2>2
    <2>5. QED
      BY <2>3, <2>4 DEF CpDeleteOK
  <1>7. ASSUME on, NEW d \in deletes, d.live PROVE \E q \in cpDeletes' : q.live
    <2>1. PICK b : b = (d.live /\ on)
      OBVIOUS
    <2>2. PICK q : q = [d EXCEPT !.live = b]
      OBVIOUS
    <2>3. q \in cpDeletes'
      BY <1>2, <2>1, <2>2
    <2>4. q.live = b
      BY <1>5, <2>1, <2>2
    <2>5. b
      BY <1>7, <2>1
    <2>6. QED
      BY <2>3, <2>4, <2>5
  <1> DEFINE Sec == /\ CpSecOK(cpSec) /\ (cpSec.mounted <=> CpShown)
                    /\ cpSec.busy # 0 => \E d \in cpDeletes : d.live
  <1>9. CASE ~on
    <2>1. cpSec' = CpNoSec
      BY <1>1, <1>9
    <2>2. Sec'
      BY <1>3, <1>9, <2>1, CpNoSecTyped
    <2> HIDE DEF Sec
    <2>3. QED
      BY <1>1, <1>6, <2>2 DEF CpTyped, Sec
  <1>10. CASE on /\ sec.mounted
    <2>1. cpSec' = sec
      BY <1>1, <1>10
    <2>2. sec.busy # 0 => \E q \in cpDeletes' : q.live
      BY <1>7, <1>10
    <2>4. Sec'
      BY <1>3, <1>10, <2>1, <2>2
    <2> HIDE DEF Sec
    <2>5. QED
      BY <1>1, <1>6, <2>4 DEF CpTyped, Sec
  <1>11. CASE on /\ ~sec.mounted
    <2>1. PICK s : s = [CpNoSec EXCEPT !.mounted = TRUE, !.loading = TRUE]
      OBVIOUS
    <2>2. cpSec' = s
      BY <1>1, <1>11, <2>1
    <2>3. CpSecOK(s) /\ s.mounted /\ s.busy = 0
      BY <2>1, CpNoSecTyped
    <2>5. Sec'
      BY <1>3, <1>11, <2>2, <2>3
    <2> HIDE DEF Sec
    <2>6. QED
      BY <1>1, <1>6, <2>5 DEF CpTyped, Sec
  <1>12. QED
    BY <1>9, <1>10, <1>11

LEMMA CpTypes == CpInit /\ [][CpNext]_cpVars => []CpTypeOK
  <1>1. CpInit => CpTyped
    <2> SUFFICES ASSUME CpInit PROVE CpTyped
      OBVIOUS
    <2>1. CpViewOK(cpView) /\ cpView.profile = {}
      BY DEF CpInit, CpViewOK
    <2>2. cpRoute \in CpAddrs /\ cpSec = CpNoSec /\ cpDeletes = {}
      BY DEF CpInit
    <2>3. ~CpShown
      BY <2>1 DEF CpShown, profileShown
    <2>4. QED
      BY <2>1, <2>2, <2>3, CpNoSecTyped DEF CpTyped
  <1>2. CpTyped /\ [CpNext]_cpVars => CpTyped'
    <2> SUFFICES ASSUME CpTyped, [CpNext]_cpVars PROVE CpTyped'
      OBVIOUS
    <2>0. /\ cpRoute \in CpAddrs /\ CpViewOK(cpView)
          /\ CpSecOK(cpSec) /\ (cpSec.mounted <=> CpShown)
          /\ \A d \in cpDeletes : CpDeleteOK(d)
          /\ cpSec.busy # 0 => \E d \in cpDeletes : d.live
      BY DEF CpTyped
    <2>1. ASSUME NEW route \in CpAddrs, NEW view, CpViewOK(view), showAt(route, view) PROVE CpTyped'
      <3>1. Mounting(route, view, cpSec, cpDeletes)
        BY <2>1 DEF showAt
      <3>2. QED
        BY <2>0, <2>1, <3>1, CpMountingTyped
    <2>2. ASSUME NEW t \in {"loading", "error"} PROVE CpViewOK([cpView EXCEPT !.state = t])
      BY <2>0, <2>2 DEF CpViewOK
    <2>3. ASSUME UNCHANGED <<cpRoute, cpView>>, CpSecOK(cpSec'), cpSec'.mounted = cpSec.mounted,
                 \A d \in cpDeletes' : CpDeleteOK(d),
                 cpSec'.busy # 0 => \E d \in cpDeletes' : d.live
          PROVE  CpTyped'
      <3>1. CpShown' <=> CpShown
        BY <2>3 DEF CpShown, isOwnProfile, profileShown
      <3>2. QED
        BY <2>0, <2>3, <3>1 DEF CpTyped
    <2>4. ASSUME NEW a \in CpAddrs, setAddress(a) PROVE CpTyped'
      BY <2>1, <2>2, <2>4 DEF setAddress
    <2>5. CASE refreshProfile
      BY <2>0, <2>1, <2>2, <2>5 DEF refreshProfile
    <2>6. ASSUME NEW l, NEW o, profileAnswered(l, o) PROVE CpTyped'
      <3>1. PICK v : v = CASE o = "ok" -> [state |-> "ready", profile |-> {l.addr}]
                       [] o = "404" -> [state |-> "not-found", profile |-> {}]
                       [] OTHER -> [cpView EXCEPT !.state = "error"]
        OBVIOUS
      <3>2. CpViewOK(v)
        BY <2>0, <3>1 DEF CpViewOK
      <3>3. showAt(cpRoute, v)
        BY <2>6, <3>1 DEF profileAnswered
      <3>4. QED
        BY <2>0, <2>1, <3>2, <3>3
    <2>8. ASSUME NEW f, NEW ok, fetchApps(f, ok) PROVE CpTyped'
      <3>1. UNCHANGED <<cpDeletes, cpView, cpRoute>>
        BY <2>8 DEF fetchApps, OnlySection
      <3>2. CpSecOK(cpSec') /\ cpSec'.mounted = cpSec.mounted /\ cpSec'.busy = cpSec.busy
        <4>1. CASE ok
          <5>1. PICK rows \in SUBSET CpPending :
                  cpSec' = [cpSec EXCEPT !.loading = FALSE, !.loaded = TRUE, !.rows = rows, !.read = rows, !.gone = {}]
            BY <2>8, <4>1 DEF fetchApps
          <5>2. PICK none : none = {}
            OBVIOUS
          <5>3. cpSec' = [cpSec EXCEPT !.loading = FALSE, !.loaded = TRUE, !.rows = rows, !.read = rows, !.gone = none]
            BY <5>1, <5>2
          <5>4. DOMAIN cpSec' = CpSecFields /\ cpSec'.mounted = cpSec.mounted /\ cpSec'.busy = cpSec.busy /\ cpSec'.rows = rows
            BY <2>0, <5>3 DEF CpSecFields, CpSecOK
          <5>5. QED
            BY <2>0, <5>4 DEF CpSecOK
        <4>2. CASE ~ok
          <5>1. cpSec' = [cpSec EXCEPT !.loading = FALSE, !.error = TRUE]
            BY <2>8, <4>2 DEF fetchApps
          <5>2. QED
            BY <2>0, <5>1 DEF CpSecFields, CpSecOK
        <4>3. QED
          BY <4>1, <4>2
      <3>3. QED
        BY <2>0, <2>3, <3>1, <3>2
    <2>9. CASE retryApps
      <3>1. cpSec' = [cpSec EXCEPT !.loading = TRUE, !.error = FALSE] /\ UNCHANGED <<cpDeletes, cpView, cpRoute>>
        BY <2>9 DEF retryApps, OnlySection
      <3>2. CpSecOK(cpSec') /\ cpSec'.mounted = cpSec.mounted /\ cpSec'.busy = cpSec.busy
        BY <2>0, <3>1 DEF CpSecFields, CpSecOK
      <3>3. QED
        BY <2>0, <2>3, <3>1, <3>2
    <2>10. ASSUME NEW x, handleWithdraw(x) PROVE CpTyped'
      <3>1. cpSec' = [cpSec EXCEPT !.busy = x[3]] /\ UNCHANGED <<cpView, cpRoute>>
        BY <2>10 DEF handleWithdraw, OnlySection
      <3>2. PICK k : k = freeIn(cpDeletes)
        OBVIOUS
      <3>3. PICK q : q = [issue |-> x[3], reload |-> cpRoute, live |-> TRUE, n |-> k]
        OBVIOUS
      <3>4. CpDeleteOK(q) /\ q.live
        BY <3>3 DEF CpDeleteOK
      <3>5. cpDeletes' = cpDeletes \cup {q}
        BY <2>10, <3>2, <3>3 DEF handleWithdraw
      <3>6. CpSecOK(cpSec') /\ cpSec'.mounted = cpSec.mounted
        BY <2>0, <3>1 DEF CpSecFields, CpSecOK
      <3>7. QED
        BY <2>0, <2>3, <3>1, <3>4, <3>5, <3>6
    <2>12. ASSUME NEW d \in cpDeletes, withdrawOk(d) PROVE CpTyped'
      <3>1. PICK v : v = [cpView EXCEPT !.state = "loading"]
        OBVIOUS
      <3>2. CpViewOK(v)
        BY <2>2, <3>1
      <3>3. PICK R : R = {r \in cpSec.rows : r[3] # d.issue}
        OBVIOUS
      <3>20. PICK G : G = cpSec.gone \cup {d.issue}
        OBVIOUS
      <3>4. PICK s : s = IF d.live THEN [cpSec EXCEPT !.rows = R, !.busy = 0, !.gone = G] ELSE cpSec
        OBVIOUS
      <3> DEFINE D == cpDeletes \ {d}
      <3>5. Mounting(cpRoute, v, s, D)
        BY <2>12, <3>1, <3>3, <3>4, <3>20 DEF withdrawOk, removeRow, busyAfter
      <3>6. CpSecOK(s)
        BY <2>0, <3>3, <3>4 DEF CpSecFields, CpSecOK
      <3>7. s.busy # 0 => \E x \in D : x.live
        <4>1. CASE d.live
          <5>1. s.busy = 0
            BY <2>0, <3>4, <4>1 DEF CpSecFields, CpSecOK
          <5>2. QED
            BY <5>1
        <4>2. CASE ~d.live
          BY <2>0, <3>4, <4>2
        <4>3. QED
          BY <4>1, <4>2
      <3>8. D \in SUBSET cpDeletes
        OBVIOUS
      <3> HIDE DEF D
      <3>9. QED
        BY <2>0, <3>2, <3>5, <3>6, <3>7, <3>8, CpMountingTyped
    <2>13. ASSUME NEW d \in cpDeletes, withdrawFailed(d) PROVE CpTyped'
      <3>1. cpDeletes' = cpDeletes \ {d} /\ UNCHANGED <<cpView, cpRoute>>
            /\ cpSec' = (IF d.live THEN [cpSec EXCEPT !.error = TRUE, !.busy = 0] ELSE cpSec)
        BY <2>13 DEF withdrawFailed, busyAfter, OnlySection
      <3>2. CASE d.live
        <4>1. CpSecOK(cpSec') /\ cpSec'.mounted = cpSec.mounted /\ cpSec'.busy = 0
          BY <2>0, <3>1, <3>2 DEF CpSecFields, CpSecOK
        <4>2. QED
          BY <2>0, <2>3, <3>1, <4>1
      <3>3. CASE ~d.live
        BY <2>0, <2>3, <3>1, <3>3
      <3>4. QED
        BY <3>2, <3>3
    <2>14. CASE UNCHANGED cpVars
      BY <2>0, <2>3, <2>14 DEF cpVars
    <2>15. QED
      BY <2>4, <2>5, <2>6, <2>8, <2>9, <2>10, <2>12, <2>13, <2>14 DEF CpNext
  <1>3. CpTyped => CpTypeOK
    <2> SUFFICES ASSUME CpTyped PROVE CpTypeOK
      OBVIOUS
    <2>1. cpSec.mounted = (isOwnProfile(cpRoute) /\ profileShown(cpView))
      <3>1. cpSec.mounted \in BOOLEAN /\ (cpSec.mounted <=> (isOwnProfile(cpRoute) /\ profileShown(cpView)))
        BY DEF CpTyped, CpSecOK, CpShown
      <3>2. QED
        BY <3>1, Zenon
    <2>2. /\ cpRoute \in CpAddrs /\ cpView.state \in {"loading", "ready", "not-found", "error"}
          /\ cpSec.rows \subseteq CpPending
          /\ cpSec.busy # 0 => cpDeletes # {}
      BY DEF CpTyped, CpViewOK, CpSecOK
    <2>3. QED
      BY <2>1, <2>2, Zenon DEF CpTypeOK
  <1>4. QED
    BY <1>1, <1>2, <1>3, PTL

OsOptions == ToSet(OsOrgs) \cup {AllOrgs}
OsTexts == OsQueries \cup ToSet(OsOrgs) \cup {""}
OsFound(list, q) == {o \in ToSet(list) : OsMatches(o, q)}
OsListing(list, q) == <<AllOrgs>> \o Keep(list, OsFound(list, q))

LEMMA OsListingIs == \A q : filtered(q) = OsListing(osOrgs, q)
  BY DEF filtered, OsListing, OsFound, Keep

\* The list holds "All Orgs" and at most all organisations, and all of them when
\* nothing is typed.
LEMMA OsFiltered ==
  ASSUME NEW list \in {<<>>, OsOrgs}
  PROVE  \A q : /\ OsListing(list, q) \in Seq(OsOptions)
                /\ Len(OsListing(list, q)) \in Nat /\ Len(OsListing(list, q)) >= 1
                /\ Len(OsListing(list, q)) <= Len(OsListing(list, ""))
  <1> DEFINE X == ToSet(OsOrgs)
             kept(p) == Keep(list, OsFound(list, p))
  <1>1. list \in Seq(X)
    <2>1. OsOrgs \in Seq(ToSet(OsOrgs))
      BY OsAssumption, Zenon
    <2> HIDE DEF X
    <2>2. <<>> \in Seq(X)
      OBVIOUS
    <2>3. QED
      BY <2>1, <2>2 DEF X
  <1>2. Values(list) = ToSet(list)
    BY DEF Values, ToSet
  <1>3. Values(list) \subseteq OsFound(list, "")
    <2>1. ToSet(list) \subseteq ToSet(OsOrgs)
      BY DEF ToSet
    <2>2. \A o \in ToSet(OsOrgs) : OsMatches(o, "")
      BY OsAssumption, Zenon
    <2>3. QED
      BY <1>2, <2>1, <2>2 DEF OsFound
  <1> HIDE DEF X
  <1>4. \A p : kept(p) \in Seq(X) /\ Len(kept(p)) <= Len(list)
    BY <1>1, KeepValues
  <1>5. Len(kept("")) = Len(list)
    BY <1>1, <1>3, KeepValues
  <1>6. \A p : OsListing(list, p) = <<AllOrgs>> \o kept(p)
    BY DEF OsListing
  <1> HIDE DEF kept
  <1>7. ASSUME NEW p
        PROVE  OsListing(list, p) \in Seq(OsOptions) /\ Len(OsListing(list, p)) = 1 + Len(kept(p)) /\ Len(kept(p)) \in Nat
    <2>1. PICK c : c = kept(p)
      OBVIOUS
    <2>2. c \in Seq(X)
      BY <1>4, <2>1
    <2>3. X \subseteq OsOptions /\ AllOrgs \in OsOptions
      BY DEF OsOptions, X
    <2> HIDE DEF OsOptions
    <2>4. c \in Seq(OsOptions) /\ Len(c) \in Nat
      BY <2>2, <2>3
    <2>5. <<AllOrgs>> \o c \in Seq(OsOptions) /\ Len(<<AllOrgs>> \o c) = 1 + Len(c)
      BY <2>3, <2>4
    <2>6. QED
      BY <1>6, <2>1, <2>4, <2>5
  <1>8. ASSUME NEW q
        PROVE  /\ Len(OsListing(list, q)) \in Nat /\ Len(OsListing(list, q)) >= 1
               /\ Len(OsListing(list, q)) <= Len(OsListing(list, ""))
    <2>1. PICK a, b, c : a = Len(kept(q)) /\ b = Len(kept("")) /\ c = Len(list)
      OBVIOUS
    <2>2. a \in Nat /\ b \in Nat /\ Len(OsListing(list, q)) = 1 + a /\ Len(OsListing(list, "")) = 1 + b
      BY <1>7, <2>1
    <2>3. a <= c /\ b = c
      BY <1>4, <1>5, <2>1
    <2>4. a \in Nat /\ b \in Nat /\ a <= b
      BY <2>2, <2>3
    <2>5. 1 + a \in Nat /\ 1 + a >= 1 /\ 1 + a <= 1 + b
      BY <2>4
    <2>6. QED
      BY <2>2, <2>5
  <1>9. QED
    BY <1>7, <1>8

\* The type invariant of the dropdown, with the list closed and nothing active until
\* the organisations are known, and the active option in the list also when closed.
OsTexted == osQuery \in OsTexts /\ osSelected \in OsOptions
OsListed == osOrgs \in {<<>>, OsOrgs} /\ (osLoading => ~osOpen /\ osActive = -1)
OsWithin(active, size) == active \in Int /\ active >= -1 /\ active < size
OsTyped == OsTexted /\ OsListed /\ OsWithin(osActive, Len(OsListing(osOrgs, osQuery)))

LEMMA OsTypes == OsInit /\ [][OsNext]_osVars => []OsTypeOK
  <1> DEFINE size(list, q) == Len(OsListing(list, q))
  <1>0. \A list \in {<<>>, OsOrgs} : \A q :
          /\ size(list, q) \in Nat /\ size(list, "") \in Nat /\ size(list, q) >= 1 /\ size(list, q) <= size(list, "")
    <2> SUFFICES ASSUME NEW list \in {<<>>, OsOrgs}, NEW q
                 PROVE  /\ size(list, q) \in Nat /\ size(list, "") \in Nat /\ size(list, q) >= 1 /\ size(list, q) <= size(list, "")
      OBVIOUS
    <2>1. QED
      BY OsFiltered
  <1>1. OsInit => OsTyped
    <2> SUFFICES ASSUME OsInit PROVE OsTyped
      OBVIOUS
    <2>1. OsTexted
      BY DEF OsInit, OsTexted, OsTexts, OsOptions
    <2>2. OsListed /\ osActive = -1
      BY DEF OsInit, OsListed
    <2>3. PICK n : n = size(osOrgs, osQuery)
      OBVIOUS
    <2>4. n \in Nat /\ n >= 1
      BY <1>0, <2>2, <2>3 DEF OsListed
    <2>5. OsWithin(osActive, n)
      BY <2>2, <2>4 DEF OsWithin
    <2>6. QED
      BY <2>1, <2>2, <2>3, <2>5 DEF OsTyped
  <1>2. OsTyped /\ [OsNext]_osVars => OsTyped'
    <2> SUFFICES ASSUME OsTyped, [OsNext]_osVars PROVE OsTyped'
      OBVIOUS
    <2>0. OsTexted /\ OsListed
      BY DEF OsTyped
    <2>1. PICK n : n = size(osOrgs, osQuery)
      OBVIOUS
    <2>2. n \in Nat /\ n >= 1 /\ OsWithin(osActive, n)
      BY <1>0, <2>0, <2>1 DEF OsListed, OsTyped
    <2>3. PICK all : all = size(osOrgs, "")
      OBVIOUS
    <2>4. \A q : size(osOrgs, q) \in Nat /\ all \in Nat /\ size(osOrgs, q) >= 1 /\ size(osOrgs, q) <= all
      BY <1>0, <2>0, <2>3 DEF OsListed
    <2>5. \A q : filtered(q) = OsListing(osOrgs, q)
      BY OsListingIs
    <2>6. AllOrgs \in OsTexts /\ AllOrgs \in OsOptions /\ OsOptions \subseteq OsTexts
      BY DEF OsTexts, OsOptions, AllOrgs
    <2> HIDE DEF size
    <2>7. ASSUME OnlyList, osQuery' \in OsTexts, osOpen' => ~osLoading, osLoading => osActive' = -1,
                 OsWithin(osActive', size(osOrgs, osQuery'))
          PROVE  OsTyped'
      <3>1. OsTexted'
        BY <2>0, <2>7 DEF OsTexted, OnlyList
      <3>2. OsListed'
        BY <2>0, <2>7 DEF OsListed, OnlyList
      <3>3. OsWithin(osActive, Len(OsListing(osOrgs, osQuery)))'
        <4>1. osOrgs' = osOrgs
          BY <2>7 DEF OnlyList
        <4>2. OsWithin(osActive', Len(OsListing(osOrgs', osQuery')))
          BY <2>7, <4>1 DEF size
        <4>3. QED
          BY <4>2
      <3>4. QED
        BY <3>1, <3>2, <3>3 DEF OsTyped
    <2>8. \A q : OsWithin(-1, size(osOrgs, q)) /\ OsWithin(0, size(osOrgs, q))
      <3> SUFFICES ASSUME NEW q PROVE OsWithin(-1, size(osOrgs, q)) /\ OsWithin(0, size(osOrgs, q))
        OBVIOUS
      <3>1. PICK m : m = size(osOrgs, q)
        OBVIOUS
      <3>2. m \in Nat /\ m >= 1
        BY <2>4, <3>1
      <3>3. QED
        BY <3>1, <3>2 DEF OsWithin
    <2>9. ASSUME NEW org \in OsOptions, selectOrg(org), osOpen PROVE OsTyped'
      <3>1. OsTexted'
        BY <2>6, <2>9 DEF OsTexted, selectOrg
      <3>2. OsListed' /\ osOrgs' = osOrgs /\ osActive' = -1
        BY <2>0, <2>9 DEF OsListed, selectOrg
      <3>3. OsWithin(osActive', Len(OsListing(osOrgs', osQuery')))
        BY <2>8, <3>2 DEF size
      <3>4. QED
        BY <3>1, <3>2, <3>3 DEF OsTyped
    <2>10. ASSUME NEW i \in 1..n, osOpen, selectOrg(filtered(osQuery)[i]) PROVE OsTyped'
      <3>1. PICK s : s = OsListing(osOrgs, osQuery)
        OBVIOUS
      <3>2. s \in Seq(OsOptions) /\ Len(s) = n
        BY <2>0, <2>1, <3>1, OsFiltered DEF OsListed, size
      <3>3. s[i] \in OsOptions
        BY <2>2, <2>10, <3>2
      <3>4. selectOrg(s[i])
        BY <2>5, <2>10, <3>1
      <3>5. QED
        BY <2>9, <2>10, <3>3, <3>4
    <2>11. CASE fetchOrgs
      <3>1. PICK list \in {OsOrgs, <<>>} : osOrgs' = list /\ (IF osUrl # AllOrgs /\ Contains(list, osUrl)
                       THEN osSelected' = osUrl /\ osQuery' = osUrl
                       ELSE UNCHANGED <<osSelected, osQuery>>)
        BY <2>11 DEF fetchOrgs
      <3>2. osLoading /\ ~osLoading' /\ UNCHANGED osActive
        BY <2>11 DEF fetchOrgs
      <3>3. OsListed' /\ osActive' = -1
        BY <2>0, <3>1, <3>2 DEF OsListed
      <3>4. Contains(list, osUrl) => osUrl \in ToSet(OsOrgs)
        <4>1. OsOrgs \in Seq(ToSet(OsOrgs))
          BY OsAssumption, Zenon
        <4>2. PICK L : L = ToSet(OsOrgs)
          OBVIOUS
        <4>3. list = <<>> \/ (list = OsOrgs /\ list \in Seq(L))
          BY <3>1, <4>1, <4>2
        <4>4. Contains(list, osUrl) => osUrl \in L
          BY <4>3 DEF Contains
        <4>5. QED
          BY <4>2, <4>4
      <3>5. OsTexted'
        BY <2>0, <3>1, <3>4 DEF OsTexted, OsTexts, OsOptions
      <3>6. PICK m : m = size(list, osQuery')
        OBVIOUS
      <3>7. m \in Nat /\ m >= 1
        BY <1>0, <3>6
      <3>8. OsWithin(osActive', m)
        BY <3>3, <3>7 DEF OsWithin
      <3>9. QED
        BY <3>1, <3>3, <3>5, <3>6, <3>8 DEF OsTyped, size
    <2>12. CASE onFocus
      <3>1. OnlyList /\ osQuery' = "" /\ ~osLoading /\ osActive' = osActive
        BY <2>12 DEF onFocus
      <3>2. n <= all /\ all \in Nat
        BY <2>1, <2>4
      <3>3. OsWithin(osActive, all)
        BY <2>2, <3>2 DEF OsWithin
      <3>4. "" \in OsTexts
        BY DEF OsTexts
      <3>5. OsWithin(osActive', size(osOrgs, osQuery'))
        BY <2>3, <3>1, <3>3
      <3>6. QED
        BY <2>7, <3>1, <3>4, <3>5
    <2>13. ASSUME NEW q \in OsQueries, onType(q) PROVE OsTyped'
      <3>1. OnlyList /\ osQuery' = q /\ ~osLoading /\ osActive' = 0
        BY <2>13 DEF onType, activeAfterTyping
      <3>2. q \in OsTexts
        BY DEF OsTexts
      <3>3. OsWithin(osActive', size(osOrgs, osQuery'))
        BY <2>8, <3>1
      <3>4. QED
        BY <2>7, <3>1, <3>2, <3>3
    <2>14. ASSUME OnlyList, UNCHANGED osQuery, osOpen' => ~osLoading, osLoading => osActive' = -1,
                  OsWithin(osActive', n)
           PROVE  OsTyped'
      BY <2>0, <2>1, <2>7, <2>14 DEF OsTexted
    <2>15. CASE ArrowDown
      <3>1. /\ ~osLoading /\ OnlyList /\ UNCHANGED osQuery
            /\ osActive' = IF ~osOpen THEN 0 ELSE IF osActive + 1 < n THEN osActive + 1 ELSE n - 1
        BY <2>1, <2>5, <2>15 DEF ArrowDown, size
      <3>2. osActive' \in {0, osActive + 1, n - 1} /\ (osActive' = osActive + 1 => osActive' < n \/ osActive' \in {0, n - 1})
        BY <3>1
      <3>3. OsWithin(osActive', n)
        BY <2>2, <3>2 DEF OsWithin
      <3>4. QED
        BY <2>14, <3>1, <3>3
    <2>16. CASE ArrowUp
      <3>1. /\ ~osLoading /\ OnlyList /\ UNCHANGED osQuery
            /\ osActive' = IF osActive > 0 THEN osActive - 1 ELSE 0
        BY <2>16 DEF ArrowUp
      <3>2. OsWithin(osActive', n)
        BY <2>2, <3>1 DEF OsWithin
      <3>3. QED
        BY <2>14, <3>1, <3>2
    <2>17. ASSUME NEW i \in Nat, hover(i) PROVE OsTyped'
      <3>1. osOpen /\ i < n /\ osActive' = i /\ OnlyList /\ UNCHANGED <<osQuery, osOpen>>
        BY <2>1, <2>5, <2>17 DEF hover, size
      <3>2. OsWithin(osActive', n)
        BY <2>2, <3>1 DEF OsWithin
      <3>3. ~osLoading
        BY <2>0, <3>1 DEF OsListed
      <3>4. QED
        BY <2>14, <3>1, <3>2, <3>3
    <2>18. CASE Enter
      <3>1. CASE osOpen /\ osActive >= 0 /\ osActive < Len(filtered(osQuery))
        <4>1. selectOrg(filtered(osQuery)[osActive + 1])
          BY <2>18, <3>1 DEF Enter
        <4>2. osActive >= 0 /\ osActive < n /\ osActive \in Int
          BY <2>1, <2>2, <2>5, <3>1 DEF size, OsWithin
        <4>3. osActive + 1 \in 1..n
          BY <2>2, <4>2
        <4>4. QED
          BY <2>10, <3>1, <4>1, <4>3
      <3>2. CASE ~(osOpen /\ osActive >= 0 /\ osActive < Len(filtered(osQuery)))
        <4>1. ~osLoading /\ UNCHANGED <<osQuery, osActive>> /\ OnlyList
          BY <2>18, <3>2 DEF Enter
        <4>2. QED
          BY <2>2, <2>14, <4>1
      <3>3. QED
        BY <3>1, <3>2
    <2>19. CASE clickOption
      <3>1. PICK s : s = OsListing(osOrgs, osQuery)
        OBVIOUS
      <3>2. s \in Seq(OsOptions) /\ Len(s) = n
        BY <2>0, <2>1, <3>1, OsFiltered DEF OsListed, size
      <3>3. DOMAIN s = 1..n
        BY <3>2
      <3>4. osOpen /\ \E i \in DOMAIN s : selectOrg(filtered(osQuery)[i])
        BY <2>5, <2>19, <3>1 DEF clickOption
      <3>5. QED
        BY <2>10, <3>3, <3>4
    <2>20. CASE Escape \/ handleClickOutside
      <3>1. OnlyList /\ osActive' = -1 /\ ~osOpen' /\ osQuery' = osSelected
        BY <2>20 DEF Escape, handleClickOutside, closeList
      <3>2. osQuery' \in OsTexts
        BY <2>0, <2>6, <3>1 DEF OsTexted
      <3>3. OsWithin(osActive', size(osOrgs, osQuery'))
        BY <2>8, <3>1
      <3>4. QED
        BY <2>7, <3>1, <3>2, <3>3
    <2>21. CASE Tab
      <3>1. OnlyList /\ UNCHANGED <<osQuery, osActive>> /\ ~osOpen'
        BY <2>21 DEF Tab
      <3>2. osLoading => osActive' = -1
        BY <2>0, <3>1 DEF OsListed
      <3>3. QED
        BY <2>2, <2>14, <3>1, <3>2
    <2>22. CASE UNCHANGED osVars
      <3>1. OnlyList /\ UNCHANGED <<osQuery, osActive, osOpen>>
        BY <2>22 DEF osVars, OnlyList
      <3>2. (osLoading => osActive' = -1) /\ (osOpen' => ~osLoading)
        BY <2>0, <3>1 DEF OsListed
      <3>3. QED
        BY <2>2, <2>14, <3>1, <3>2
    <2>23. \A i \in 0..Len(OsOrgs) : i \in Nat
      OBVIOUS
    <2>24. QED
      BY <2>11, <2>12, <2>13, <2>15, <2>16, <2>17, <2>18, <2>19, <2>20, <2>21, <2>22, <2>23 DEF OsNext
  <1>3. OsTyped => OsTypeOK
    <2> SUFFICES ASSUME OsTyped PROVE OsTypeOK
      OBVIOUS
    <2>1. OsWithin(osActive, Len(filtered(osQuery)))
      BY OsListingIs DEF OsTyped
    <2>2. osActive < Len(filtered(osQuery)) /\ osActive >= -1
      BY <2>1 DEF OsWithin
    <2>3. QED
      BY <2>2 DEF OsTypeOK, OsTyped, OsTexted, OsTexts, OsOptions
  <1>4. QED
    BY <1>1, <1>2, <1>3, PTL

\* The list of an organisation: at most two items.
MbRows == [org : MbOrgs, id : {1, 2}, type : {"application", "assignment"}]
MbShort(s) == s \in Seq(MbRows) /\ Len(s) <= 2

LEMMA MbApplied == ASSUME NEW list, MbShort(list), NEW item, NEW op PROVE MbShort(applied(list, item, op))
  <1>0. list \in Seq(MbRows) /\ Len(list) <= 2
    BY DEF MbShort
  <1>1. CASE op = "assign"
    <2> DEFINE new(i) == IF list[i].id = item.id THEN [list[i] EXCEPT !.type = "assignment"] ELSE list[i]
    <2>1. applied(list, item, op) = [i \in DOMAIN list |-> new(i)]
      BY <1>1 DEF applied
    <2>2. \A i \in DOMAIN list : list[i] \in MbRows
      BY <1>0
    <2>3. \A r \in MbRows : [r EXCEPT !.type = "assignment"] \in MbRows
      BY DEF MbRows
    <2>4. \A i \in DOMAIN list : new(i) \in MbRows
      BY <2>2, <2>3
    <2> HIDE DEF new
    <2>5. PICK s : s = [i \in DOMAIN list |-> new(i)]
      OBVIOUS
    <2>6. DOMAIN list = 1..Len(list) /\ Len(list) \in Nat
      BY <1>0
    <2>7. s \in [1..Len(list) -> MbRows]
      BY <2>4, <2>5, <2>6
    <2>8. s \in Seq(MbRows) /\ Len(s) = Len(list)
      BY <2>6, <2>7
    <2>9. QED
      BY <1>0, <2>1, <2>5, <2>8 DEF MbShort
  <1>2. CASE op # "assign"
    <2> DEFINE others == {x \in ToSet(list) : x.id # item.id}
    <2>1. applied(list, item, op) = Keep(list, others)
      BY <1>2 DEF applied, Keep
    <2> HIDE DEF others
    <2>2. Keep(list, others) \in Seq(MbRows) /\ Len(Keep(list, others)) <= Len(list)
      BY <1>0, KeepValues
    <2>3. PICK s : s = Keep(list, others)
      OBVIOUS
    <2>4. Len(s) \in Nat /\ Len(list) \in Nat
      BY <1>0, <2>2, <2>3
    <2>5. Len(s) <= 2
      BY <1>0, <2>2, <2>3, <2>4
    <2>6. QED
      BY <2>1, <2>2, <2>3, <2>5 DEF MbShort
  <1>3. QED
    BY <1>1, <1>2

LEMMA MbListings == ASSUME NEW o \in MbOrgs, NEW list \in listings(o) PROVE MbShort(list)
  <1>1. PICK a, b : a = workItem(o, 1, "application") /\ b = workItem(o, 2, "assignment")
    OBVIOUS
  <1>2. a \in MbRows /\ b \in MbRows
    BY <1>1 DEF workItem, MbRows
  <1>3. list \in {<<>>, <<b>>, <<a, b>>}
    BY <1>1 DEF listings
  <1>4. MbShort(<<>>) /\ MbShort(<<b>>) /\ MbShort(<<a, b>>)
    BY <1>2 DEF MbShort
  <1>5. QED
    BY <1>3, <1>4

\* Two items make at most two pages.
LEMMA MbLastPage == ASSUME MbShort(mbItems) PROVE lastPage \in Nat /\ lastPage <= 2
  <1>1. PICK n, p : n = Len(mbItems) /\ p = MbPageSize
    OBVIOUS
  <1>2. n \in Nat /\ n <= 2
    BY <1>1 DEF MbShort
  <1>3. p \in Nat /\ p > 0
    BY <1>1, MbAssumption
  <1>4. lastPage = (n + p - 1) \div p
    BY <1>1 DEF lastPage
  <1>5. (n + p - 1) \div p \in Nat /\ (n + p - 1) \div p <= 2
    BY <1>2, <1>3
  <1>6. QED
    BY <1>4, <1>5

MbExecOK(x) == MbShort(x.prev)
MbTyped == /\ mbOrg \in MbOrgs /\ mbCheck \in MbOrgs \cup {""} /\ mbAuth \in {"loading", "authorized", "forbidden"}
           /\ mbFetches \in [MbOrgs -> 0..MbMaxFetches]
           /\ DOMAIN mbView = {"loading", "failed", "page"} /\ mbView.page \in 1..2
           /\ MbShort(mbItems)
           /\ mbExec = <<>> \/ (mbAsked # <<>> /\ \E x : MbExecOK(x) /\ mbExec = <<x>>)

LEMMA MbTypes == MbInit /\ [][MbNext]_mbVars => []MbTypeOK
  <1> DEFINE Auth == mbOrg \in MbOrgs /\ mbCheck \in MbOrgs \cup {""} /\ mbAuth \in {"loading", "authorized", "forbidden"}
             Fetches == mbFetches \in [MbOrgs -> 0..MbMaxFetches]
             View == DOMAIN mbView = {"loading", "failed", "page"} /\ mbView.page \in 1..2
             Lists == MbShort(mbItems)
             Exec == mbExec = <<>> \/ (mbAsked # <<>> /\ \E x : MbExecOK(x) /\ mbExec = <<x>>)
  <1>0. /\ MbTyped <=> Auth /\ Fetches /\ View /\ Lists /\ Exec
        /\ MbTyped' <=> Auth' /\ Fetches' /\ View' /\ Lists' /\ Exec'
    BY Zenon DEF MbTyped
  <1>1. MbInit => MbTyped
    <2> SUFFICES ASSUME MbInit PROVE MbTyped
      OBVIOUS
    <2>1. Auth
      BY DEF MbInit
    <2>2. Fetches
      <3>1. 0 \in 0..MbMaxFetches
        BY MbAssumption
      <3>2. QED
        BY <3>1 DEF MbInit
    <2>3. View
      BY DEF MbInit
    <2>5. MbShort(<<>>)
      BY DEF MbShort
    <2>6. Lists
      BY <2>5 DEF MbInit
    <2>7. Exec
      BY DEF MbInit
    <2>8. QED
      BY <1>0, <2>1, <2>2, <2>3, <2>6, <2>7, Zenon
  <1>2. MbTyped /\ [MbNext]_mbVars => MbTyped'
    <2> SUFFICES ASSUME MbTyped, [MbNext]_mbVars PROVE MbTyped'
      OBVIOUS
    <2>0. Auth /\ Fetches /\ View /\ Lists /\ Exec
      BY <1>0, Zenon
    <2>1. UNCHANGED <<mbOrg, mbCheck, mbAuth>> => Auth'
      BY <2>0
    <2>2. UNCHANGED mbFetches => Fetches'
      BY <2>0
    <2>3. UNCHANGED mbView => View'
      BY <2>0
    <2>4. UNCHANGED mbItems => Lists'
      BY <2>0
    <2>5. UNCHANGED <<mbExec, mbAsked>> => Exec'
      BY <2>0
    <2>6. ASSUME NEW o \in MbOrgs, mbFetches[o] < MbMaxFetches, StartFetch(o) PROVE Fetches' /\ View'
      <3>1. mbFetches' = [mbFetches EXCEPT ![o] = mbFetches[o] + 1] /\ mbView' = [mbView EXCEPT !.loading = TRUE, !.failed = FALSE]
        BY <2>6 DEF StartFetch
      <3>2. PICK m, k : m = mbFetches[o] /\ k = MbMaxFetches
        OBVIOUS
      <3>3. m \in 0..k /\ m < k /\ k \in Nat
        BY <2>0, <2>6, <3>2, MbAssumption
      <3>4. m + 1 \in 0..k
        BY <3>3
      <3>5. Fetches'
        BY <2>0, <3>1, <3>2, <3>4
      <3>6. View'
        BY <2>0, <3>1
      <3>7. QED
        BY <3>5, <3>6
    <2>7. ASSUME NEW o \in MbOrgs, setOrgId(o) PROVE MbTyped'
      <3>1. Auth'
        BY <2>7 DEF setOrgId, cancelled
      <3>2. Fetches' /\ View'
        BY <2>2, <2>3, <2>6, <2>7 DEF setOrgId
      <3>3. Lists' /\ Exec'
        BY <2>4, <2>5, <2>7 DEF setOrgId
      <3>4. QED
        BY <1>0, <3>1, <3>2, <3>3, Zenon
    <2>8. CASE checkMaintainerRole
      <3>1. Auth'
        BY <2>0, <2>8 DEF checkMaintainerRole
      <3>2. Fetches' /\ View'
        BY <2>0, <2>2, <2>3, <2>6, <2>8 DEF checkMaintainerRole
      <3>3. Lists' /\ Exec'
        BY <2>4, <2>5, <2>8 DEF checkMaintainerRole
      <3>4. QED
        BY <1>0, <3>1, <3>2, <3>3, Zenon
    <2>9. ASSUME NEW o \in MbOrgs, NEW ok \in BOOLEAN, fetchEnds(o, ok) PROVE MbTyped'
      <3>1. Auth' /\ Exec'
        BY <2>1, <2>5, <2>9 DEF fetchEnds
      <3>2. mbFetches[o] > 0 /\ mbFetches' = [mbFetches EXCEPT ![o] = mbFetches[o] - 1]
        BY <2>9 DEF fetchEnds
      <3>3. PICK m, k : m = mbFetches[o] /\ k = MbMaxFetches
        OBVIOUS
      <3>4. m \in 0..k /\ m > 0 /\ k \in Nat
        BY <2>0, <3>2, <3>3, MbAssumption
      <3>5. m - 1 \in 0..k
        BY <3>4
      <3>6. Fetches'
        BY <2>0, <3>2, <3>3, <3>5
      <3>7. mbItems' \in listings(o) \/ UNCHANGED mbItems
        BY <2>9 DEF fetchEnds
      <3>8. Lists'
        BY <2>0, <3>7, MbListings
      <3>9. PICK b : b = (mbView.failed \/ ~ok)
        OBVIOUS
      <3>10. mbView' = [mbView EXCEPT !.loading = FALSE, !.failed = b]
        BY <2>9, <3>9 DEF fetchEnds
      <3>11. View'
        BY <2>0, <3>10
      <3>12. QED
        BY <1>0, <3>1, <3>6, <3>8, <3>11, Zenon
    <2>10. CASE retryFetch
      <3>1. Auth' /\ Lists' /\ Exec'
        BY <2>1, <2>4, <2>5, <2>10 DEF retryFetch
      <3>2. Fetches' /\ View'
        BY <2>0, <2>6, <2>10 DEF retryFetch
      <3>3. QED
        BY <1>0, <3>1, <3>2, Zenon
    <2>11. CASE Pagination
      <3>1. Auth' /\ Fetches' /\ Lists' /\ Exec'
        BY <2>1, <2>2, <2>4, <2>5, <2>11 DEF Pagination
      <3>2. lastPage \in Nat /\ lastPage <= 2 /\ lastPage > 1
        <4>1. lastPage > 1
          BY <2>11 DEF Pagination
        <4>2. MbShort(mbItems)
          BY <2>0
        <4>3. lastPage \in Nat /\ lastPage <= 2
          BY <4>2, MbLastPage
        <4>4. QED
          BY <4>1, <4>3
      <3>3. PICK p, l : p = mbView.page /\ l = lastPage
        OBVIOUS
      <3>4. p \in 1..2 /\ l = 2
        <4>1. p \in 1..2
          BY <2>0, <3>3
        <4>2. l \in Nat /\ l <= 2 /\ l > 1
          BY <3>2, <3>3, Zenon
        <4>3. l = 2
          BY <4>2
        <4>4. QED
          BY <4>1, <4>3
      <3>5. \/ p # 1 /\ mbView' = [mbView EXCEPT !.page = p - 1]
            \/ p # l /\ mbView' = [mbView EXCEPT !.page = p + 1]
        BY <2>11, <3>3 DEF Pagination, nextEnabled
      <3>6. \E m \in 1..2 : mbView' = [mbView EXCEPT !.page = m]
        <4>1. CASE p # 1 /\ mbView' = [mbView EXCEPT !.page = p - 1]
          <5>1. p - 1 \in 1..2
            BY <3>4, <4>1
          <5>2. QED
            BY <4>1, <5>1
        <4>2. CASE p # l /\ mbView' = [mbView EXCEPT !.page = p + 1]
          <5>1. p + 1 \in 1..2
            BY <3>4, <4>2
          <5>2. QED
            BY <4>2, <5>1
        <4>3. QED
          BY <3>5, <4>1, <4>2
      <3>7. View'
        BY <2>0, <3>6
      <3>8. QED
        BY <1>0, <3>1, <3>7, Zenon
    <2>12. CASE requestAction
      <3>1. Auth' /\ Fetches' /\ View' /\ Lists'
        BY <2>1, <2>2, <2>3, <2>4, <2>12 DEF requestAction
      <3>2. Exec'
        BY <2>12 DEF requestAction
      <3>3. QED
        BY <1>0, <3>1, <3>2, Zenon
    <2>13. CASE cancelAction
      <3>1. Auth' /\ Fetches' /\ View' /\ Lists'
        BY <2>1, <2>2, <2>3, <2>4, <2>13 DEF cancelAction
      <3>2. Exec'
        BY <2>13 DEF cancelAction
      <3>3. QED
        BY <1>0, <3>1, <3>2, Zenon
    <2>14. CASE executeAction
      <3>1. Auth' /\ Fetches' /\ View'
        BY <2>1, <2>2, <2>3, <2>14 DEF executeAction
      <3>2. PICK a : a = mbAsked[1]
        OBVIOUS
      <3>3. PICK x : x = [item |-> a.item, op |-> a.op, org |-> mbOrg, prev |-> mbItems]
        OBVIOUS
      <3>4. /\ mbExec' = <<x>> /\ mbItems' = applied(mbItems, a.item, a.op)
            /\ UNCHANGED mbAsked /\ mbAsked # <<>>
        BY <2>14, <3>2, <3>3 DEF executeAction
      <3>5. x.prev = mbItems
        BY <3>3
      <3>6. MbShort(mbItems) /\ MbShort(applied(mbItems, a.item, a.op))
        BY <2>0, MbApplied
      <3>7. MbExecOK(x)
        BY <3>5, <3>6 DEF MbExecOK
      <3>8. Lists'
        BY <2>0, <3>4, <3>6
      <3>9. Exec'
        BY <3>4, <3>7
      <3>10. QED
        BY <1>0, <3>1, <3>8, <3>9, Zenon
    <2>15. ASSUME NEW ok \in BOOLEAN, actionEnds(ok) PROVE MbTyped'
      <3>1. Auth' /\ Fetches' /\ View'
        BY <2>1, <2>2, <2>3, <2>15 DEF actionEnds
      <3>2. Exec'
        BY <2>15 DEF actionEnds
      <3>3. PICK e : MbExecOK(e) /\ mbExec = <<e>>
        BY <2>0, <2>15 DEF actionEnds
      <3>4. mbExec[1] = e
        BY <3>3
      <3>5. mbItems' = (IF ok THEN mbItems ELSE e.prev)
        BY <2>15, <3>4 DEF actionEnds, revert
      <3>6. Lists'
        BY <2>0, <3>3, <3>5 DEF MbExecOK
      <3>7. QED
        BY <1>0, <3>1, <3>2, <3>6, Zenon
    <2>16. CASE UNCHANGED mbVars
      <3>1. Auth' /\ Fetches' /\ View' /\ Lists' /\ Exec'
        BY <2>1, <2>2, <2>3, <2>4, <2>5, <2>16 DEF mbVars
      <3>2. QED
        BY <1>0, <3>1, Zenon
    <2>17. QED
      BY <2>7, <2>8, <2>9, <2>10, <2>11, <2>12, <2>13, <2>14, <2>15, <2>16 DEF MbNext
  <1>3. MbTyped => MbTypeOK
    BY DEF MbTyped, MbTypeOK
  <1>4. QED
    BY <1>1, <1>2, <1>3, PTL

SePinSets == {P \in SUBSET OrgSet : Cardinality(P) <= SeMaxPins}
SeOrders == Seq(OrgSet)

LEMMA SeOrgsAre == /\ SeOrgs \in Seq(OrgSet) /\ Len(SeOrgs) \in Nat /\ DOMAIN SeOrgs = 1..Len(SeOrgs)
                   /\ SeMaxPins \in Nat /\ IsFiniteSet(OrgSet)
  <1>1. SeOrgs \in Seq(OrgSet) /\ SeMaxPins \in Nat
    BY SeAssumption, Zenon DEF OrgSet
  <1> DEFINE n == Len(SeOrgs)
  <1>2. n \in Nat /\ DOMAIN SeOrgs = 1..n /\ SeOrgs \in [1..n -> OrgSet]
    BY <1>1
  <1> HIDE DEF n
  <1>3. SeOrgs \in Surjection(1..n, OrgSet)
    BY <1>2 DEF Surjection, OrgSet, ToSet
  <1>4. IsFiniteSet(1..n)
    <2>1. 1 \in Int /\ n \in Int
      BY <1>2
    <2>2. QED
      BY <2>1, FS_Interval
  <1>5. IsFiniteSet(OrgSet)
    BY <1>3, <1>4, FS_Surjection
  <1>6. QED
    BY <1>1, <1>2, <1>5 DEF n

LEMMA SeRanks == ASSUME NEW order \in SeOrders, NEW org \in OrgSet PROVE rankIn(org, order) \in Int
  <1>1. CASE Contains(order, org)
    <2>1. \E i \in DOMAIN order : order[i] = org
      <3>1. DOMAIN order = 1..Len(order)
        BY DEF SeOrders
      <3>2. QED
        BY <1>1, <3>1 DEF Contains
    <2>2. (CHOOSE i \in DOMAIN order : order[i] = org) \in DOMAIN order
      BY <2>1, Zenon
    <2>3. \A i \in DOMAIN order : i \in Int
      BY DEF SeOrders
    <2>4. rankIn(org, order) = CHOOSE i \in DOMAIN order : order[i] = org
      BY <1>1, Zenon DEF rankIn
    <2>5. QED
      BY <2>2, <2>3, <2>4, Zenon
  <1>2. CASE ~Contains(order, org)
    <2>1. \E i \in DOMAIN SeOrgs : SeOrgs[i] = org
      BY DEF OrgSet, ToSet
    <2>2. (CHOOSE i \in DOMAIN SeOrgs : SeOrgs[i] = org) \in DOMAIN SeOrgs
      BY <2>1, Zenon
    <2>3. \A i \in DOMAIN SeOrgs : i \in Int
      BY SeOrgsAre
    <2>4. rankIn(org, order) = CHOOSE i \in DOMAIN SeOrgs : SeOrgs[i] = org
      BY <1>2, Zenon DEF rankIn
    <2>5. QED
      BY <2>2, <2>3, <2>4, Zenon
  <1>3. QED
    BY <1>1, <1>2

\* The list on screen is the organisations, each once, whatever is pinned.
LEMMA SeSorted ==
  ASSUME seOrder \in SeOrders
  PROVE  /\ sortedOrgs \in Seq(OrgSet)
         /\ Len(sortedOrgs) = Len(SeOrgs) /\ ToSet(sortedOrgs) = OrgSet
  <1> DEFINE N == Len(SeOrgs)
             D == 1..N
             r == [k \in D |-> rankIn(SeOrgs[k], seOrder)]
             P == {k \in D : SeOrgs[k] \in sePins}
             B == {p \in D \X D : floatPinned(p[1], p[2], seOrder, sePins)}
             Count(k) == Cardinality({j \in D : floatPinned(j, k, seOrder, sePins)})
  <1>1. N \in Nat /\ DOMAIN SeOrgs = D /\ \A k \in D : SeOrgs[k] \in OrgSet
    BY SeOrgsAre
  <1> HIDE DEF N
  <1>2. \A k \in D : r[k] \in Int /\ k \in Int /\ r[k] = rankIn(SeOrgs[k], seOrder)
    BY <1>1, SeRanks
  <1>3. \A j, k \in D : <<j, k>> \in B <=> IF (j \in P) <=> (k \in P) THEN r[j] < r[k] \/ (r[j] = r[k] /\ j < k) ELSE j \in P
    BY <1>2 DEF floatPinned, applyOrder
  <1>4. \A k \in D : Cardinality(Predecessors(B, N, k)) = Count(k)
    <2>1. \A k \in D : Predecessors(B, N, k) = {j \in D : floatPinned(j, k, seOrder, sePins)}
      BY DEF Predecessors
    <2>2. QED
      BY <2>1
  <1> HIDE DEF r, P, B, Count
  <1>5. \A k \in D : <<k, k>> \notin B
    BY <1>2, <1>3
  <1>6. \A i, j, k \in D : <<i, j>> \in B /\ <<j, k>> \in B => <<i, k>> \in B
    <2> HIDE DEF D
    <2> SUFFICES ASSUME NEW i \in D, NEW j \in D, NEW k \in D, <<i, j>> \in B, <<j, k>> \in B PROVE <<i, k>> \in B
      OBVIOUS
    <2>1. PICK a, b, c : a = r[i] /\ b = r[j] /\ c = r[k] /\ a \in Int /\ b \in Int /\ c \in Int /\ i \in Int /\ j \in Int /\ k \in Int
      BY <1>2
    <2>2. /\ IF (i \in P) <=> (j \in P) THEN a < b \/ (a = b /\ i < j) ELSE i \in P
          /\ IF (j \in P) <=> (k \in P) THEN b < c \/ (b = c /\ j < k) ELSE j \in P
      BY <1>3, <2>1
    <2>3. IF (i \in P) <=> (k \in P) THEN a < c \/ (a = c /\ i < k) ELSE i \in P
      BY <2>1, <2>2
    <2>4. QED
      BY <1>3, <2>1, <2>3
  <1>7. \A j, k \in D : j # k => <<j, k>> \in B \/ <<k, j>> \in B
    <2> HIDE DEF D
    <2> SUFFICES ASSUME NEW j \in D, NEW k \in D, j # k PROVE <<j, k>> \in B \/ <<k, j>> \in B
      OBVIOUS
    <2>1. PICK b, c : b = r[j] /\ c = r[k] /\ b \in Int /\ c \in Int /\ j \in Int /\ k \in Int
      BY <1>2
    <2>2. \/ IF (j \in P) <=> (k \in P) THEN b < c \/ (b = c /\ j < k) ELSE j \in P
          \/ IF (k \in P) <=> (j \in P) THEN c < b \/ (c = b /\ k < j) ELSE k \in P
      BY <2>1
    <2>3. QED
      BY <1>3, <2>1, <2>2
  <1>8. /\ \A k \in D : Count(k) \in 0..(N - 1)
        /\ \A m \in 0..(N - 1) : \E k \in D : Count(k) = m
        /\ \A j, k \in D : Count(j) = Count(k) => j = k
    <2> DEFINE C(k) == Cardinality(Predecessors(B, N, k))
    <2>1. /\ \A k \in D : C(k) \in 0..(N - 1)
          /\ \A m \in 0..(N - 1) : \E k \in D : C(k) = m
          /\ \A j, k \in D : C(j) = C(k) => j = k
      BY <1>1, <1>5, <1>6, <1>7, RanksCover
    <2> HIDE DEF Count, D
    <2>2. \A k \in D : C(k) = Count(k)
      BY <1>4
    <2> HIDE DEF C
    <2>3. QED
      BY <2>1, <2>2
  <1> USE DEF Count
  <1> DEFINE at(n) == CHOOSE k \in D : Count(k) = n - 1
  <1>9. sortedOrgs = [n \in D |-> SeOrgs[at(n)]]
    BY <1>1 DEF sortedOrgs
  <1>10. \A n \in D : n - 1 \in 0..(N - 1)
    BY <1>1
  <1>11. \A m \in 0..(N - 1) : m + 1 \in D /\ (m + 1) - 1 = m
    BY <1>1
  <1> HIDE DEF D, Count
  <1>12. \A n \in D : at(n) \in D /\ Count(at(n)) = n - 1
    BY <1>8, <1>10
  <1>13. \A k \in D : \E n \in D : at(n) = k
    <2> SUFFICES ASSUME NEW k \in D PROVE \E n \in D : at(n) = k
      OBVIOUS
    <2>1. Count(k) \in 0..(N - 1)
      BY <1>8
    <2>2. PICK n \in D : n - 1 = Count(k)
      BY <1>11, <2>1
    <2>3. at(n) \in D /\ Count(at(n)) = Count(k)
      BY <1>12, <2>2
    <2> HIDE DEF at
    <2>4. QED
      BY <1>8, <2>3
  <1> HIDE DEF at
  <1>14. sortedOrgs \in [D -> OrgSet] /\ DOMAIN sortedOrgs = D
    BY <1>1, <1>9, <1>12
  <1>15. sortedOrgs \in Seq(OrgSet) /\ Len(sortedOrgs) = N
    <2>1. PICK s : s = sortedOrgs
      OBVIOUS
    <2>2. s \in [1..N -> OrgSet]
      BY <1>14, <2>1 DEF D
    <2>3. s \in Seq(OrgSet) /\ Len(s) = N
      BY <1>1, <2>2
    <2>4. QED
      BY <2>1, <2>3
  <1>16. ToSet(sortedOrgs) = OrgSet
    <2>1. OrgSet = {SeOrgs[k] : k \in D}
      BY <1>1 DEF OrgSet, ToSet
    <2>2. ToSet(sortedOrgs) = {sortedOrgs[n] : n \in D}
      BY <1>14 DEF ToSet
    <2>3. \A n \in D : sortedOrgs[n] = SeOrgs[at(n)]
      BY <1>9
    <2>4. QED
      BY <1>12, <1>13, <2>1, <2>2, <2>3
  <1>17. QED
    BY <1>15, <1>16 DEF N

LEMMA SeMoved == ASSUME NEW s \in Seq(OrgSet), NEW i \in DOMAIN s, NEW j \in DOMAIN s PROVE moved(s, i, j) \in SeOrders
  <1>1. i \in 1..Len(s) /\ j \in 1..Len(s) /\ s[i] \in OrgSet /\ Len(s) \in Nat
    OBVIOUS
  <1>2. PICK q : q = RemoveAt(s, i)
    OBVIOUS
  <1>3. q \in Seq(OrgSet) /\ Len(q) = Len(s) - 1
    <2>1. PICK a, b : a = SubSeq(s, 1, i - 1) /\ b = SubSeq(s, i + 1, Len(s))
      OBVIOUS
    <2>2. /\ 1 \in Int /\ i - 1 \in Int /\ i + 1 \in Int /\ Len(s) \in Int
          /\ \A k \in 1..(i - 1) : s[k] \in OrgSet
          /\ \A k \in (i + 1)..Len(s) : s[k] \in OrgSet
      BY <1>1
    <2>3. a \in Seq(OrgSet) /\ Len(a) = IF 1 <= i - 1 THEN (i - 1) - 1 + 1 ELSE 0
      BY <2>1, <2>2, SubSeqProperties
    <2>4. b \in Seq(OrgSet) /\ Len(b) = IF i + 1 <= Len(s) THEN Len(s) - (i + 1) + 1 ELSE 0
      BY <2>1, <2>2, SubSeqProperties
    <2>5. a \o b \in Seq(OrgSet) /\ Len(a \o b) = Len(a) + Len(b)
      BY <2>3, <2>4, ConcatProperties
    <2>6. PICK la, lb, n : la = Len(a) /\ lb = Len(b) /\ n = Len(s)
      OBVIOUS
    <2>7. la + lb = n - 1
      <3>1. /\ n \in Nat /\ i \in 1..n
            /\ la = (IF 1 <= i - 1 THEN (i - 1) - 1 + 1 ELSE 0)
            /\ lb = (IF i + 1 <= n THEN n - (i + 1) + 1 ELSE 0)
        BY <1>1, <2>3, <2>4, <2>6
      <3>2. QED
        BY <3>1
    <2>8. q = a \o b
      BY <1>2, <2>1 DEF RemoveAt
    <2>9. QED
      BY <2>5, <2>6, <2>7, <2>8
  <1>4. PICK x : x = s[i]
    OBVIOUS
  <1>5. InsertAt(q, j, x) \in Seq(OrgSet)
    BY <1>1, <1>3, <1>4 DEF InsertAt
  <1>6. QED
    BY <1>2, <1>4, <1>5 DEF moved, SeOrders

LEMMA SeToggled == ASSUME sePins \in SePinSets, NEW org \in OrgSet PROVE togglePin(org) \in SePinSets
  <1>1. sePins \in SUBSET OrgSet /\ Cardinality(sePins) <= SeMaxPins
    BY DEF SePinSets
  <1>2. IsFiniteSet(sePins)
    BY <1>1, SeOrgsAre, FS_Subset
  <1>3. CASE org \in sePins
    <2>1. togglePin(org) = sePins \ {org}
      BY <1>3 DEF togglePin
    <2>2. Cardinality(sePins \ {org}) <= Cardinality(sePins) /\ Cardinality(sePins) \in Nat /\ Cardinality(sePins \ {org}) \in Nat
      <3>1. sePins \ {org} \in SUBSET sePins
        OBVIOUS
      <3>2. QED
        BY <1>2, <3>1, FS_Subset, FS_CardinalityType
    <2>3. Cardinality(sePins \ {org}) <= SeMaxPins
      BY <1>1, <2>2, SeOrgsAre
    <2>4. QED
      BY <1>1, <2>1, <2>3 DEF SePinSets
  <1>4. CASE org \notin sePins /\ Cardinality(sePins) < SeMaxPins
    <2>1. togglePin(org) = sePins \cup {org}
      BY <1>4 DEF togglePin
    <2>2. Cardinality(sePins \cup {org}) = Cardinality(sePins) + 1 /\ Cardinality(sePins) \in Nat
      BY <1>2, <1>4, FS_AddElement, FS_CardinalityType
    <2>3. PICK m, n : m = Cardinality(sePins) /\ n = Cardinality(sePins \cup {org})
      OBVIOUS
    <2>4. m \in Nat /\ n = m + 1 /\ m < SeMaxPins /\ SeMaxPins \in Nat
      BY <1>4, <2>2, <2>3, SeOrgsAre
    <2>5. n <= SeMaxPins
      BY <2>4
    <2>6. QED
      BY <1>1, <2>1, <2>3, <2>5 DEF SePinSets
  <1>5. CASE org \notin sePins /\ ~(Cardinality(sePins) < SeMaxPins)
    BY <1>5 DEF togglePin
  <1>6. QED
    BY <1>3, <1>4, <1>5

\* What the type invariant of the session needs besides SeInv: every stored order is
\* a list of organisations, and every stored set of pins keeps the limit.
SeFlagged == DOMAIN seFlags = {"connecting", "mismatch", "install"} /\ (seFlags.connecting => \E c \in seCalls : c.who = "bar")
SeBooks == /\ seOrder \in SeOrders /\ sePins \in SePinSets
           /\ seStore.order \in [SeScopes -> SeOrders] /\ seStore.pins \in [SeScopes -> SePinSets]
SeChosen == seMeant \in [SeScopes -> SeThemes]

\* Writing bookmarks into a store.
LEMMA SeWritten ==
  ASSUME NEW st, DOMAIN st = {"wallet", "settings", "order", "pins"},
         st.order \in [SeScopes -> SeOrders], st.pins \in [SeScopes -> SePinSets],
         NEW s \in SeScopes, NEW o \in SeOrders, NEW p \in SePinSets
  PROVE  LET r == [st EXCEPT !.order[s] = o, !.pins[s] = p]
         IN r.order \in [SeScopes -> SeOrders] /\ r.pins \in [SeScopes -> SePinSets]
  <1>1. PICK a, b : a = [st.order EXCEPT ![s] = o] /\ b = [st.pins EXCEPT ![s] = p]
    OBVIOUS
  <1>2. a \in [SeScopes -> SeOrders] /\ b \in [SeScopes -> SePinSets]
    BY <1>1
  <1>3. PICK r : r = [st EXCEPT !.order[s] = o, !.pins[s] = p]
    OBVIOUS
  <1>4. r.order = a /\ r.pins = b
    BY <1>1, <1>3
  <1>5. QED
    BY <1>2, <1>3, <1>4

LEMMA SeTypes == SeInit /\ [][SeNext]_seVars => []SeTypeOK
  <1> DEFINE Keys == {{}} \cup {{a} : a \in SeAddrs}
             Inv == SeFlagged /\ SeBooks /\ SeChosen
  <1>1. SeInit => Inv
    <2> SUFFICES ASSUME SeInit PROVE Inv
      OBVIOUS
    <2>1. SeFlagged
      BY DEF SeInit, SeFlagged
    <2>2. <<>> \in SeOrders
      BY DEF SeOrders
    <2>3. {} \in SePinSets
      <3>1. Cardinality({}) = 0 /\ SeMaxPins \in Nat
        BY SeOrgsAre, FS_EmptySet
      <3>2. Cardinality({}) <= SeMaxPins
        BY <3>1
      <3>3. QED
        BY <3>2 DEF SePinSets
    <2>4. PICK f, g, h : f = [s \in SeScopes |-> DEFAULT_SETTINGS] /\ g = [s \in SeScopes |-> <<>>] /\ h = [s \in SeScopes |-> {}]
      OBVIOUS
    <2>5. f \in [SeScopes -> SeThemes] /\ g \in [SeScopes -> SeOrders] /\ h \in [SeScopes -> SePinSets]
      <3>1. DEFAULT_SETTINGS \in SeThemes
        BY DEF DEFAULT_SETTINGS, SeThemes
      <3>2. QED
        BY <2>2, <2>3, <2>4, <3>1
    <2>6. seStore = [wallet |-> seKey, settings |-> f, order |-> g, pins |-> h] /\ seMeant = f
      BY <2>4 DEF SeInit
    <2>7. SeChosen
      BY <2>5, <2>6 DEF SeChosen
    <2>8. seStore.order = g /\ seStore.pins = h /\ seOrder = <<>> /\ sePins = {}
      BY <2>6 DEF SeInit
    <2>9. SeBooks
      BY <2>2, <2>3, <2>5, <2>8 DEF SeBooks
    <2>10. QED
      BY <2>1, <2>7, <2>9
  <1>2. SeInv /\ Inv /\ [SeNext]_seVars => Inv'
    <2> SUFFICES ASSUME SeInv, Inv, [SeNext]_seVars PROVE Inv'
      OBVIOUS
    <2>0. SeFlagged /\ SeBooks /\ SeChosen
      OBVIOUS
    <2> HIDE DEF Inv
    <2>00. (SeFlagged' /\ SeBooks' /\ SeChosen') => Inv'
      BY DEF Inv
    <2>1. UNCHANGED <<seFlags, seCalls>> => SeFlagged'
      BY <2>0 DEF SeFlagged
    <2>2. UNCHANGED <<seStore, seOrder, sePins>> => SeBooks'
      BY <2>0 DEF SeBooks
    <2>3. UNCHANGED seMeant => SeChosen'
      BY <2>0 DEF SeChosen
    <2>4. /\ seKey \in Keys /\ DOMAIN seStore = {"wallet", "settings", "order", "pins"} /\ seStore.wallet \in Keys
          /\ \A c \in seCalls : DOMAIN c = {"n", "who", "stage", "addr"}
          /\ \A c \in seCalls : c.stage = "network" => c.addr \in Keys
      BY DEF SeInv, SeKeyIsStored
    <2>5. \A key \in Keys : scopeOf(key) \in SeScopes
      BY ScopeIs
    <2> HIDE DEF Keys
    <2>6. ASSUME NEW st, DOMAIN st = DOMAIN seStore, st.order = seStore.order, st.pins = seStore.pins,
                 NEW key \in Keys, setPublicKey(key, st)
          PROVE  SeBooks' /\ SeChosen'
      <3>1. UNCHANGED <<seOrder, sePins, seMeant>>
        BY <2>6 DEF setPublicKey
      <3>2. PICK s : s = scopeOf(key)
        OBVIOUS
      <3>3. seStore' = st \/ seStore' = [st EXCEPT !.order[s] = seOrder, !.pins[s] = sePins]
        BY <2>6, <3>2 DEF setPublicKey, persistBookmarks
      <3>4. s \in SeScopes
        BY <2>5, <3>2
      <3>5. st.order \in [SeScopes -> SeOrders] /\ st.pins \in [SeScopes -> SePinSets] /\ seOrder \in SeOrders /\ sePins \in SePinSets
        BY <2>0, <2>6 DEF SeBooks
      <3>6. LET w == [st EXCEPT !.order[s] = seOrder, !.pins[s] = sePins]
            IN w.order \in [SeScopes -> SeOrders] /\ w.pins \in [SeScopes -> SePinSets]
        BY <2>4, <2>6, <3>4, <3>5, SeWritten
      <3>7. seStore'.order \in [SeScopes -> SeOrders] /\ seStore'.pins \in [SeScopes -> SePinSets]
        BY <3>3, <3>5, <3>6
      <3>8. SeBooks'
        BY <3>1, <3>5, <3>7 DEF SeBooks
      <3>9. QED
        BY <2>3, <3>1, <3>8
    <2>7. ASSUME NEW who, connect(who)
          PROVE  /\ SeBooks' /\ SeChosen' /\ seCalls \subseteq seCalls'
                 /\ \E c \in seCalls' : c.who = who
      <3>1. SeBooks' /\ SeChosen'
        BY <2>2, <2>3, <2>7 DEF connect, NoPrefs
      <3>2. PICK n : n = IF \E c \in seCalls : c.n = 1 THEN 2 ELSE 1
        OBVIOUS
      <3>3. PICK q : q = [n |-> n, who |-> who, stage |-> "installed", addr |-> {}]
        OBVIOUS
      <3>4. q.who = who
        BY <3>3
      <3>5. seCalls' = seCalls \cup {q}
        BY <2>7, <3>2, <3>3 DEF connect
      <3>6. QED
        BY <3>1, <3>4, <3>5
    <2>24. CASE connectWalletClick
      <3>1. connect("bar") /\ DOMAIN seFlags' = {"connecting", "mismatch", "install"}
        BY <2>24 DEF connectWalletClick
      <3>2. SeFlagged'
        BY <2>7, <3>1 DEF SeFlagged
      <3>3. QED
        BY <2>00, <2>7, <3>1, <3>2
    <2>25. CASE pageConnectClick
      <3>1. connect("page") /\ UNCHANGED seFlags
        BY <2>25 DEF pageConnectClick
      <3>2. seCalls \subseteq seCalls'
        BY <2>7, <3>1
      <3>3. SeFlagged'
        BY <2>0, <3>1, <3>2 DEF SeFlagged
      <3>4. QED
        BY <2>00, <2>7, <3>1, <3>3
    <2>26. ASSUME NEW c \in seCalls, pageConnectEnds(c) PROVE Inv'
      <3>1. PICK k : k = c.addr
        OBVIOUS
      <3>2. seStore' = [seStore EXCEPT !.wallet = k] /\ UNCHANGED <<seFlags, seOrder, sePins, seMeant>>
        BY <2>26, <3>1 DEF pageConnectEnds, NoPrefs
      <3>3. seStore'.order = seStore.order /\ seStore'.pins = seStore.pins
        BY <2>4, <3>2
      <3>4. SeBooks'
        BY <2>0, <3>2, <3>3 DEF SeBooks
      <3>5. c.who # "bar" /\ seCalls' = seCalls \ {c}
        BY <2>26 DEF pageConnectEnds
      <3>6. SeFlagged'
        BY <2>0, <3>2, <3>5 DEF SeFlagged
      <3>7. QED
        BY <2>00, <2>3, <3>2, <3>4, <3>6
    <2>27. CASE pageMounts
      <3>1. SeBooks' /\ SeChosen'
        BY <2>2, <2>3, <2>27 DEF pageMounts, NoPrefs
      <3>2. ASSUME NEW c \in seCalls, c.who = "bar" PROVE \E d \in seCalls' : d.who = "bar"
        <4>1. PICK w : w = IF c.who = "page" THEN "gone" ELSE c.who
          OBVIOUS
        <4>2. PICK d : d = [c EXCEPT !.who = w]
          OBVIOUS
        <4>3. d \in seCalls'
          BY <2>27, <4>1, <4>2 DEF pageMounts
        <4>4. d.who = "bar"
          BY <2>4, <3>2, <4>1, <4>2
        <4>5. QED
          BY <4>3, <4>4
      <3>3. UNCHANGED seFlags
        BY <2>27 DEF pageMounts
      <3>4. SeFlagged'
        BY <2>0, <3>2, <3>3 DEF SeFlagged
      <3>5. QED
        BY <2>00, <3>1, <3>4
    <2>8. ASSUME NEW c \in seCalls, connectFails(c) PROVE Inv'
      <3>1. SeBooks' /\ SeChosen'
        BY <2>2, <2>3, <2>8 DEF connectFails, NoPrefs
      <3>2. PICK b : b = (seFlags.install \/ c.stage = "installed")
        OBVIOUS
      <3>3. /\ seCalls' = seCalls \ {c}
            /\ IF c.who = "bar" THEN seFlags' = [seFlags EXCEPT !.connecting = FALSE, !.install = b]
               ELSE UNCHANGED seFlags
        BY <2>8, <3>2 DEF connectFails
      <3>4. SeFlagged'
        <4>1. CASE c.who = "bar"
          BY <2>0, <3>3, <4>1 DEF SeFlagged
        <4>2. CASE c.who # "bar"
          BY <2>0, <3>3, <4>2 DEF SeFlagged
        <4>3. QED
          BY <4>1, <4>2
      <3>5. QED
        BY <2>00, <3>1, <3>4
    <2>9. ASSUME NEW c \in seCalls, connectStep(c) PROVE Inv'
      <3>1. SeBooks' /\ SeChosen'
        BY <2>2, <2>3, <2>9 DEF connectStep, NoPrefs
      <3>2. (\E d \in seCalls : d.who = "bar") => \E d \in seCalls' : d.who = "bar"
        <4>1. PICK a \in SeAddrs : seCalls' = (seCalls \ {c}) \cup {[c EXCEPT !.stage = seStages[@],
                                                  !.addr = IF c.stage = "address" THEN {a} ELSE {}]}
          BY <2>9 DEF connectStep
        <4>2. PICK g, t : g = (IF c.stage = "address" THEN {a} ELSE {}) /\ t = seStages[c.stage]
          OBVIOUS
        <4>3. PICK q : q = [c EXCEPT !.stage = t, !.addr = g]
          OBVIOUS
        <4>4. q.who = c.who
          BY <2>4, <4>3
        <4>5. seCalls' = (seCalls \ {c}) \cup {q}
          BY <4>1, <4>2, <4>3
        <4>6. QED
          BY <4>4, <4>5
      <3>3. UNCHANGED seFlags
        BY <2>9 DEF connectStep
      <3>5. SeFlagged'
        BY <2>0, <3>2, <3>3 DEF SeFlagged
      <3>4. QED
        BY <2>00, <3>1, <3>5
    <2>10. ASSUME NEW c \in seCalls, NEW w, connectEnds(c, w) PROVE Inv'
      <3>1. PICK k : k = c.addr
        OBVIOUS
      <3>2. PICK st : st = [seStore EXCEPT !.wallet = k]
        OBVIOUS
      <3>3. DOMAIN st = DOMAIN seStore /\ st.order = seStore.order /\ st.pins = seStore.pins
        BY <2>4, <3>2
      <3>4. k \in Keys
        BY <2>4, <2>10, <3>1 DEF connectEnds
      <3>5. setPublicKey(k, st)
        BY <2>10, <3>1, <3>2 DEF connectEnds
      <3>6. SeBooks' /\ SeChosen'
        BY <2>6, <3>3, <3>4, <3>5
      <3>7. PICK b : b = (seFlags.mismatch \/ w)
        OBVIOUS
      <3>8. seFlags' = [seFlags EXCEPT !.connecting = FALSE, !.mismatch = b]
        BY <2>10, <3>7 DEF connectEnds
      <3>9. SeFlagged'
        BY <2>0, <3>8 DEF SeFlagged
      <3>10. QED
        BY <2>00, <3>6, <3>9
    <2>11. CASE disconnect
      <3>1. PICK st : st = [seStore EXCEPT !.wallet = {}]
        OBVIOUS
      <3>2. DOMAIN st = DOMAIN seStore /\ st.order = seStore.order /\ st.pins = seStore.pins
        BY <2>4, <3>1
      <3>3. {} \in Keys
        BY DEF Keys
      <3>4. setPublicKey({}, st)
        BY <2>11, <3>1 DEF disconnect, clearWallet
      <3>5. SeBooks' /\ SeChosen'
        BY <2>6, <3>2, <3>3, <3>4
      <3>6. seFlags' = [seFlags EXCEPT !.mismatch = FALSE, !.install = FALSE] /\ UNCHANGED seCalls
        BY <2>11 DEF disconnect
      <3>7. SeFlagged'
        BY <2>0, <3>6 DEF SeFlagged
      <3>8. QED
        BY <2>00, <3>5, <3>7
    <2>12. CASE reload
      <3>1. SeFlagged' /\ SeChosen'
        BY <2>3, <2>12 DEF reload, SeFlagged
      <3>2. PICK s : s = scopeOf(seStore.wallet)
        OBVIOUS
      <3>3. s \in SeScopes
        BY <2>4, <2>5, <3>2
      <3>4. seOrder' = seStore.order[s] /\ sePins' = seStore.pins[s] /\ UNCHANGED seStore
        BY <2>12, <3>2 DEF reload
      <3>5. SeBooks'
        BY <2>0, <3>3, <3>4 DEF SeBooks
      <3>6. QED
        BY <2>00, <3>1, <3>5
    <2>13. ASSUME NEW v \in SeThemes, updateSetting(v) PROVE Inv'
      <3>1. PICK s : s = scopeOf(seKey)
        OBVIOUS
      <3>2. s \in SeScopes
        BY <2>4, <2>5, <3>1
      <3>3. /\ seStore' = [seStore EXCEPT !.settings[s] = v] /\ seMeant' = [seMeant EXCEPT ![s] = v]
            /\ UNCHANGED <<seFlags, seCalls, seOrder, sePins>>
        BY <2>13, <3>1 DEF updateSetting
      <3>4. seStore'.order = seStore.order /\ seStore'.pins = seStore.pins
        BY <2>4, <3>3
      <3>5. SeBooks'
        BY <2>0, <3>3, <3>4 DEF SeBooks
      <3>6. SeChosen'
        BY <2>0, <3>2, <3>3 DEF SeChosen
      <3>7. QED
        BY <2>00, <2>1, <3>3, <3>5, <3>6
    <2>14. ASSUME PersistLists, UNCHANGED <<seFlags, seCalls, seMeant>>, seOrder' \in SeOrders, sePins' \in SePinSets
           PROVE  Inv'
      <3>1. PICK s : s = scopeOf(seKey)
        OBVIOUS
      <3>2. s \in SeScopes
        BY <2>4, <2>5, <3>1
      <3>3. PICK o, p : o = seOrder' /\ p = sePins'
        OBVIOUS
      <3>4. seStore' = [seStore EXCEPT !.order[s] = o, !.pins[s] = p]
        BY <2>14, <3>1, <3>3 DEF PersistLists
      <3>5. seStore.order \in [SeScopes -> SeOrders] /\ seStore.pins \in [SeScopes -> SePinSets]
        BY <2>0 DEF SeBooks
      <3>6. seStore'.order \in [SeScopes -> SeOrders] /\ seStore'.pins \in [SeScopes -> SePinSets]
        <4>1. o \in SeOrders /\ p \in SePinSets
          BY <2>14, <3>3
        <4>2. LET w == [seStore EXCEPT !.order[s] = o, !.pins[s] = p]
              IN w.order \in [SeScopes -> SeOrders] /\ w.pins \in [SeScopes -> SePinSets]
          BY <2>4, <3>2, <3>5, <4>1, SeWritten
        <4>3. QED
          BY <3>4, <4>2
      <3>7. SeBooks'
        BY <2>14, <3>6 DEF SeBooks
      <3>8. QED
        BY <2>00, <2>1, <2>3, <2>14, <3>7
    <2>15. seOrder \in SeOrders /\ sePins \in SePinSets
      BY <2>0 DEF SeBooks
    <2>16. ASSUME NEW i \in DOMAIN SeOrgs, NEW j \in DOMAIN SeOrgs, handleDrop(i, j) PROVE Inv'
      <3>1. PICK s : s = sortedOrgs
        OBVIOUS
      <3>2. s \in Seq(OrgSet) /\ Len(s) = Len(SeOrgs)
        BY <2>15, <3>1, SeSorted
      <3>3. DOMAIN s = DOMAIN SeOrgs
        BY <3>2, SeOrgsAre
      <3>4. moved(s, i, j) \in SeOrders
        BY <3>2, <3>3, SeMoved
      <3>5. seOrder' = moved(s, i, j) /\ sePins' = sePins /\ PersistLists /\ UNCHANGED <<seFlags, seCalls, seMeant>>
        BY <2>16, <3>1 DEF handleDrop
      <3>6. QED
        BY <2>14, <2>15, <3>4, <3>5
    <2>17. ASSUME NEW i \in DOMAIN SeOrgs, handleHandleKeyDown(i) PROVE Inv'
      <3>1. PICK j \in DOMAIN SeOrgs : handleDrop(i, j)
        BY <2>17 DEF handleHandleKeyDown
      <3>2. QED
        BY <2>16, <3>1
    <2>18. ASSUME NEW p \in SePinSets, NEW o \in SeOrders, setPins(p, o) PROVE Inv'
      BY <2>14, <2>18 DEF setPins
    <2>19. ASSUME NEW org \in OrgSet, pinOrg(org) PROVE Inv'
      <3>1. togglePin(org) \in SePinSets
        BY <2>15, SeToggled
      <3>2. QED
        BY <2>15, <2>18, <2>19, <3>1 DEF pinOrg
    <2>20. CASE resetOrder
      <3>1. <<>> \in SeOrders
        BY DEF SeOrders
      <3>2. {} \in SePinSets
        <4>1. Cardinality({}) = 0 /\ SeMaxPins \in Nat
          BY SeOrgsAre, FS_EmptySet
        <4>2. Cardinality({}) <= SeMaxPins
          BY <4>1
        <4>3. QED
          BY <4>2 DEF SePinSets
      <3>3. QED
        BY <2>18, <2>20, <3>1, <3>2 DEF resetOrder
    <2>21. CASE UNCHANGED seVars
      BY <2>00, <2>1, <2>2, <2>3, <2>21 DEF seVars
    <2>22. CASE resetSettings
      <3>1. DEFAULT_SETTINGS \in SeThemes
        BY DEF DEFAULT_SETTINGS, SeThemes
      <3>2. QED
        BY <2>13, <2>22, <3>1 DEF resetSettings
    <2>23. QED
      BY <2>8, <2>9, <2>10, <2>11, <2>12, <2>13, <2>16, <2>17, <2>19, <2>20, <2>21, <2>22, <2>24, <2>25, <2>26, <2>27
         DEF SeNext
  <1>3. SeInv /\ Inv => SeTypeOK
    <2> SUFFICES ASSUME SeInv, Inv PROVE SeTypeOK
      OBVIOUS
    <2>1. seKey \in Keys /\ seSettings = seMeant[scopeOf(seKey)]
      BY DEF SeInv, SeSettingsScoped
    <2>2. seSettings \in SeThemes
      BY <2>1, ScopeIs DEF SeChosen
    <2>3. seFlags.connecting => \E c \in seCalls : c.who = "bar"
      BY DEF SeFlagged
    <2>4. Cardinality(sePins) <= SeMaxPins /\ seOrder \in SeOrders
      BY DEF SeBooks, SePinSets
    <2>5. Len(sortedOrgs) = Len(SeOrgs) /\ ToSet(sortedOrgs) = OrgSet
      BY <2>4, SeSorted
    <2>6. QED
      BY <2>1, <2>2, <2>3, <2>4, <2>5, Zenon DEF SeTypeOK
  <1>4. QED
    BY <1>1, <1>2, <1>3, SeInductive, PTL

-----------------------------------------------------------------------------
(* The run: every behaviour of Spec is, for each component, a behaviour of that
   component. *)

LEMMA Parts ==
  Spec => /\ RegInit /\ [][RegNext]_regVars
          /\ RoInit /\ [][RoNext]_roVars
          /\ MpInit /\ [][MpNext]_mpVars
          /\ MbInit /\ [][MbNext]_mbVars
          /\ IdInit /\ [][IdNext]_idVars
          /\ DaInit /\ [][DaNext]_daVars
          /\ CpInit /\ [][CpNext]_cpVars
          /\ TfInit /\ [][TfNext]_tfVars
          /\ TcInit /\ [][TcNext]_tcVars
          /\ SeInit /\ [][SeNext]_seVars
          /\ OsInit /\ [][OsNext]_osVars
          /\ KsInit /\ [][KsNext]_ksVars
          /\ OmInit /\ [][OmNext]_omVars
          /\ CaInit /\ [][CaNext]_caVars
          /\ VtInit /\ [][VtNext]_vtVars
  <1>1. Init => /\ RegInit /\ RoInit /\ MpInit /\ MbInit /\ IdInit /\ DaInit /\ CpInit /\ TfInit
                /\ TcInit /\ SeInit /\ OsInit /\ KsInit /\ OmInit /\ CaInit /\ VtInit
    BY DEF Init
  <1>2. [Next]_allVars => [RegNext]_regVars
    BY DEF Next, allVars, regVars
  <1>3. [Next]_allVars => [RoNext]_roVars
    BY DEF Next, allVars, roVars
  <1>4. [Next]_allVars => [MpNext]_mpVars
    BY DEF Next, allVars, mpVars
  <1>5. [Next]_allVars => [MbNext]_mbVars
    BY DEF Next, allVars, mbVars
  <1>6. [Next]_allVars => [IdNext]_idVars
    BY DEF Next, allVars, idVars
  <1>7. [Next]_allVars => [DaNext]_daVars
    BY DEF Next, allVars, daVars
  <1>8. [Next]_allVars => [CpNext]_cpVars
    BY DEF Next, allVars, cpVars
  <1>9. [Next]_allVars => [TfNext]_tfVars
    BY DEF Next, allVars, tfVars
  <1>10. [Next]_allVars => [TcNext]_tcVars
    BY DEF Next, allVars, tcVars
  <1>11. [Next]_allVars => [SeNext]_seVars
    BY DEF Next, allVars, seVars
  <1>12. [Next]_allVars => [OsNext]_osVars
    BY DEF Next, allVars, osVars
  <1>13. [Next]_allVars => [KsNext]_ksVars
    BY DEF Next, allVars, ksVars
  <1>14. [Next]_allVars => [OmNext]_omVars
    BY DEF Next, allVars, omVars
  <1>15. [Next]_allVars => [CaNext]_caVars
    BY DEF Next, allVars, caVars
  <1>16. [Next]_allVars => [VtNext]_vtVars
    BY DEF Next, allVars, vtVars
  <1>17. QED
    BY <1>1, <1>2, <1>3, <1>4, <1>5, <1>6, <1>7, <1>8, <1>9, <1>10, <1>11, <1>12, <1>13, <1>14, <1>15, <1>16, PTL DEF Spec

\* Registration of an organisation (admin.ts): the row behind a 201 stays although
\* other requests for the name fail and roll back, and a row without its
\* maintainers is left only where the process died or a rollback failed; for any
\* number of administrators, organisations and maintainers.
THEOREM RegistrationIsKept == Spec => []RegistrationStands
  <1>1. RegInv => RegistrationStands
    BY RegResult DEF RegistrationStands
  <1>2. QED
    BY <1>1, Parts, RegInductive, PTL

\* The registration wizard (RegisterOrgPage.tsx), the transaction forms
\* (TransactionForms.tsx), the withdraw button (useWithdrawApplication.ts), the
\* administrator's form (OrgManagementPage.tsx) and the issue card (IssueCard.tsx)
\* never have a second request out, and the card applies for nothing twice.
THEOREM OneRequestAtATime == Spec => []OneAtATime
  <1>1. RoSending /\ TfInv /\ TcInv /\ OmSending /\ CaInv => OneAtATime
    BY RoResult, OmResult, CaResult DEF OneAtATime, TcInv, TfInv
  <1>2. QED
    BY <1>1, Parts, RoInductive, TfInductive, TcInductive, OmInductive, CaInductive, PTL

\* An answer about what was shown before opens no panel (useMaintainerPanel.ts),
\* sends no request (MaintainerDashboard.tsx), shows no other issue
\* and is never taken for the result of a later Apply (IssueDetailPage.tsx).
THEOREM LateAnswersChangeNothing == Spec => []LateAnswersIgnored
  <1>1. MpGated /\ MbGated /\ IdInv => LateAnswersIgnored
    BY MbResult, IdResult DEF LateAnswersIgnored, MpGated
  <1>2. QED
    BY <1>1, Parts, MpGateInductive, MbInductive, IdInductive, PTL

\* The buttons of the dialog settle the call whose details they show, so that only
\* callers overtaken by another confirm() or left by close() wait for ever
\* (useTxModal.ts); an extension is sent in time (TTLExtensionButton.tsx), a pending G has its own second
\* (useKeyboardShortcuts.ts), and a transition is released and, unless two of them
\* overlapped, ends with the view asked for last (useViewTransition.ts).
THEOREM TimersAreHonoured == Spec => []TimersHonoured
  <1>1. TcInv /\ KsInv /\ VtInv => TimersHonoured
    BY VtResult DEF TimersHonoured, TcInv, KsInv
  <1>2. QED
    BY <1>1, Parts, TcInductive, KsInductive, VtInductive, PTL

\* Every useWallet() holds a key of its own: the one that acted last, or was mounted
\* since, equals localStorage, and the settings in effect are those last chosen under
\* the address of the bar, through connecting, switching, disconnecting and reloading
\* (useWallet.ts, useSettings.ts); the organisation selected is the one in the URL
\* and the one the page was told (OrgSelector.tsx).
THEOREM SessionIsConsistent == Spec => []SessionAgrees
  <1>1. SeInv /\ OsInv => SessionAgrees
    BY DEF SessionAgrees, SeInv, OsInv
  <1>2. QED
    BY <1>1, Parts, SeInductive, OsInductive, PTL

\* Lists at rest say what was read last, less what was acknowledged since, after
\* optimistic updates, refusals, rollbacks and reloads (useMaintainerPanel.ts,
\* MaintainerDashboard.tsx, DashboardPage.tsx, ContributorProfilePage.tsx,
\* OrgManagementPage.tsx).  Dashboard and profile remove rows by their issue number
\* alone, and the parts say so.
THEOREM ListsAtRest == Spec => []RestIsExact
  <1>1. MpRest /\ MbRest /\ DaRest /\ CpRest /\ OmRest => RestIsExact
    BY MpResult, MbRestResult, DaRestResult, CpRestResult, OmRestResult DEF RestIsExact
  <1>2. QED
    BY <1>1, Parts, MpRestInductive, MbRestInductive, DaRestInductive, CpRestInductive, OmRestInductive, PTL

\* Every registration under way keeps the wizard's rules, whatever was typed, removed
\* and gone back over before: it has maintainers, none twice, and a cap in its range
\* (RegisterOrgPage.tsx).
THEOREM OnlyValidIsSent == Spec => []RoBodyValid
  <1>1. RoValid => RoBodyValid
    BY RoValidResult
  <1>2. QED
    BY <1>1, Parts, RoValidInductive, PTL
=============================================================================
