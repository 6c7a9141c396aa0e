------------------------- MODULE BuildPipelineProofs -------------------------
(***************************************************************************)
(* Proofs about BuildPipeline for every number of builds, requests and     *)
(* places in the gate: the type invariant, the two safety properties of    *)
(* the gate, and the refinement of DeployControl.                          *)
(***************************************************************************)
EXTENDS BuildPipeline, TLAPS

\* The requests that exist are numbered 1..issued and have a status.
Numbered == \A r \in Request : r <= issued <=> status[r] # "none"

\* Runs and requests name each other: no two runs share a request, and no
\* request belongs to a run that did not make it.
Paired ==
  /\ \A a \in Artefact : reqOf[a] # 0 => /\ reqOf[a] <= issued
                                         /\ artefactOf[reqOf[a]] = a
  /\ \A r \in Request : r <= issued => /\ artefactOf[r] \in Artefact
                                       /\ reqOf[artefactOf[r]] = r

\* What a run has behind it at each stage.
Progress ==
  \A a \in Artefact :
    /\ run[a] \in {"idle", "prepare", "build", "sign", "submit"} => reqOf[a] = 0
    /\ run[a] \in {"submit", "look", "deploy"} => a \in signed
    /\ run[a] \in {"look", "deploy"} => reqOf[a] # 0
    /\ run[a] = "deploy" => status[reqOf[a]] = "approved"
    /\ outcome[a] = "deployed" => run[a] = "done"

\* The inductive invariant.
IInv == TypeOK /\ TokenIffApproved /\ Numbered /\ Paired /\ Progress
          /\ DeployedOnlyIfApproved

\* The initial state satisfies it.
LEMMA InitInv == Init => IInv
  BY GateAssumption DEF Init, GateInit, IInv, TypeOK, GateTypeOK, TokenIffApproved,
     Numbered, Paired, Progress, DeployedOnlyIfApproved, Request

-----------------------------------------------------------------------------

\* A step of a run that leaves the gate alone.
LEMMA QuietRunStep ==
  ASSUME IInv, UNCHANGED gateVars, UNCHANGED reqOf, TypeOK', Progress',
         NEW a \in Artefact,
         \A b \in Artefact \ {a} : outcome'[b] = outcome[b],
         signed \subseteq signed',
         outcome'[a] = "deployed" => a \in signed /\ reqOf[a] # 0
                                     /\ status[reqOf[a]] = "approved"
  PROVE  IInv'
<1>1. TokenIffApproved' /\ Numbered'
  BY DEF IInv, TokenIffApproved, Numbered, gateVars
<1>2. Paired'
  BY DEF IInv, Paired, gateVars
<1>3. DeployedOnlyIfApproved'
  BY DEF IInv, DeployedOnlyIfApproved, Paired, gateVars
<1> QED BY <1>1, <1>2, <1>3 DEF IInv

\* Submit gives the run a request of its own.
LEMMA SubmitInv == ASSUME IInv, NEW a \in Artefact, Submit(a) PROVE IInv'
<1> USE GateAssumption DEF Request
<1>0. /\ issued \in Nat /\ issued' = issued + 1 /\ issued' \in Request
      /\ aged \in 0..issued /\ status[issued'] = "none"
      /\ issued' \notin token
  BY DEF IInv, TypeOK, GateTypeOK, Submit, MakeRequest, Numbered, TokenIffApproved
<1>1. TypeOK'
  <2>1. GateTypeOK'
    BY <1>0 DEF IInv, TypeOK, GateTypeOK, Submit, MakeRequest, Decided
  <2>2. run' \in [Artefact -> {"idle", "prepare", "build", "sign", "submit",
                               "look", "deploy", "done"}]
    BY DEF IInv, TypeOK, Submit, Goto
  <2>3. reqOf' \in [Artefact -> 0..MaxRequests]
    BY <1>0 DEF IInv, TypeOK, Submit
  <2> QED BY <2>1, <2>2, <2>3 DEF IInv, TypeOK, Submit
<1>2. TokenIffApproved'
  BY <1>0 DEF IInv, TokenIffApproved, TypeOK, GateTypeOK, Submit, MakeRequest
<1>3. Numbered'
  BY <1>0 DEF IInv, Numbered, TypeOK, GateTypeOK, Submit, MakeRequest
<1>4. reqOf[a] = 0 /\ a \in signed
  BY DEF IInv, Progress, Submit, Goto
<1>5. Paired'
  BY <1>0, <1>4 DEF IInv, Paired, TypeOK, GateTypeOK, Submit, MakeRequest
<1>6. \A b \in Artefact \ {a} : reqOf[b] # issued'
  BY <1>0 DEF IInv, Paired, TypeOK
<1>7. Progress'
  BY <1>0, <1>4, <1>6 DEF IInv, Progress, TypeOK, GateTypeOK, Submit, MakeRequest, Goto
<1>8. DeployedOnlyIfApproved'
  <2> SUFFICES ASSUME NEW b \in Artefact, outcome'[b] = "deployed"
               PROVE  /\ b \in signed' /\ reqOf'[b] # 0
                      /\ artefactOf'[reqOf'[b]] = b /\ status'[reqOf'[b]] = "approved"
    BY DEF DeployedOnlyIfApproved
  <2>1. outcome[b] = "deployed" /\ b # a
    BY DEF IInv, Progress, Submit, Goto
  <2>2. reqOf'[b] = reqOf[b] /\ reqOf[b] # issued' /\ reqOf[b] \in Request
    BY <2>1, <1>6 DEF IInv, DeployedOnlyIfApproved, TypeOK, Submit
  <2> QED BY <2>1, <2>2 DEF IInv, DeployedOnlyIfApproved, TypeOK, GateTypeOK,
                             Submit, MakeRequest
<1> QED BY <1>1, <1>2, <1>3, <1>5, <1>7, <1>8 DEF IInv

\* Whatever operators and time do, an approved request stays approved and no
\* request changes hands.
LEMMA GateInv == ASSUME IInv, GateOperation, UNCHANGED runVars PROVE IInv'
<1> USE GateAssumption DEF Request
<1>1. /\ auto' = auto /\ issued' = issued /\ artefactOf' = artefactOf /\ aged' \in 0..issued
      /\ status' \in [Request -> {"none", "pending"} \cup Decided]
      /\ \A r \in Request : /\ status'[r] = "none" <=> status[r] = "none"
                            /\ status[r] = "approved" => status'[r] = "approved"
      /\ token' \subseteq Request
      /\ \A r \in Request : r \in token' <=> status'[r] = "approved"
  <2>1. CASE \E r \in Request : Approve(r)
    BY <2>1 DEF IInv, TypeOK, GateTypeOK, Approve, Decided, TokenIffApproved, Pending
  <2>2. CASE \E r \in Request : Reject(r)
    BY <2>2 DEF IInv, TypeOK, GateTypeOK, Reject, Decided, TokenIffApproved, Pending
  <2>3. CASE \E r \in Request : Get(r)
    BY <2>3 DEF IInv, TypeOK, GateTypeOK, Get, Decided, TokenIffApproved, Pending
  <2>4. CASE ListRequests
    BY <2>4 DEF IInv, TypeOK, GateTypeOK, ListRequests, Decided, TokenIffApproved, Pending
  <2>5. CASE Age
    BY <2>5 DEF IInv, TypeOK, GateTypeOK, Age, Decided, TokenIffApproved
  <2> QED BY <2>1, <2>2, <2>3, <2>4, <2>5 DEF GateOperation
<1>2. TypeOK'
  BY <1>1 DEF IInv, TypeOK, GateTypeOK, runVars
<1>3. TokenIffApproved' /\ Numbered' /\ Paired'
  BY <1>1 DEF IInv, TokenIffApproved, Numbered, Paired, runVars
<1>4. \A a \in Artefact : reqOf[a] # 0 => reqOf[a] \in Request
  BY DEF IInv, TypeOK
<1>5. Progress'
  BY <1>1, <1>4 DEF IInv, Progress, runVars
<1>6. DeployedOnlyIfApproved'
  BY <1>1, <1>4 DEF IInv, DeployedOnlyIfApproved, runVars
<1> QED BY <1>2, <1>3, <1>5, <1>6 DEF IInv

\* Every step of a run other than Submit.
LEMMA RunInv ==
  ASSUME IInv, NEW a \in Artefact,
         \/ Begin(a) \/ Prepare(a) \/ Build(a) \/ Sign(a) \/ StageFails(a)
         \/ SubmitFails(a) \/ Look(a) \/ Deploy(a)
  PROVE  IInv'
<1>0. UNCHANGED gateVars /\ UNCHANGED reqOf
  BY DEF Begin, Prepare, Build, Sign, StageFails, Fail, SubmitFails, Look, Deploy, Goto
<1>1. GateTypeOK'
  BY <1>0 DEF IInv, TypeOK, GateTypeOK, gateVars, Request
<1>2. CASE Begin(a)
  <2>1. TypeOK' BY <1>0, <1>1, <1>2 DEF IInv, TypeOK, Begin, Goto
  <2>2. Progress' BY <1>0, <1>2 DEF IInv, TypeOK, Progress, Begin, Goto, gateVars
  <2> QED BY <1>0, <1>2, <2>1, <2>2, QuietRunStep DEF Begin, IInv, TypeOK
<1>3. CASE StageFails(a) \/ SubmitFails(a)
  <2>1. TypeOK' BY <1>0, <1>1, <1>3 DEF IInv, TypeOK, StageFails, SubmitFails, Fail, Goto
  <2>2. Progress'
    BY <1>0, <1>3 DEF IInv, TypeOK, Progress, StageFails, SubmitFails, Fail, Goto, gateVars
  <2> QED BY <1>0, <1>3, <2>1, <2>2, QuietRunStep
          DEF StageFails, SubmitFails, Fail, IInv, TypeOK
<1>4. CASE Prepare(a) \/ Build(a)
  <2>1. TypeOK' BY <1>0, <1>1, <1>4 DEF IInv, TypeOK, Prepare, Build, Goto
  <2>2. Progress' BY <1>0, <1>4 DEF IInv, TypeOK, Progress, Prepare, Build, Goto, gateVars
  <2>3. run[a] # "done" BY <1>4 DEF Prepare, Build, Goto
  <2> QED BY <1>0, <1>4, <2>1, <2>2, <2>3, QuietRunStep
          DEF Prepare, Build, IInv, TypeOK, Progress
<1>5. CASE Sign(a)
  <2>1. TypeOK' BY <1>0, <1>1, <1>5 DEF IInv, TypeOK, Sign, Goto
  <2>2. Progress' BY <1>0, <1>5 DEF IInv, TypeOK, Progress, Sign, Goto, gateVars
  <2>3. run[a] # "done" BY <1>5 DEF Sign, Goto
  <2> QED BY <1>0, <1>5, <2>1, <2>2, <2>3, QuietRunStep
          DEF Sign, IInv, TypeOK, Progress
<1>6. CASE Look(a)
  <2>0. outcome'[a] # "deployed" /\ \A b \in Artefact \ {a} : outcome'[b] = outcome[b]
    BY <1>6 DEF Look, Goto, IInv, TypeOK, Progress
  <2>1. TypeOK' BY <1>0, <1>1, <1>6 DEF IInv, TypeOK, Look, Goto
  <2>2. Progress' BY <1>0, <1>6 DEF IInv, TypeOK, Progress, Look, Goto, gateVars
  <2> QED BY <1>0, <1>6, <2>0, <2>1, <2>2, QuietRunStep DEF Look
<1>7. CASE Deploy(a)
  <2>1. TypeOK' BY <1>0, <1>1, <1>7 DEF IInv, TypeOK, Deploy, Goto
  <2>2. Progress' BY <1>0, <1>7 DEF IInv, TypeOK, Progress, Deploy, Goto, gateVars
  <2>3. a \in signed /\ reqOf[a] # 0 /\ status[reqOf[a]] = "approved"
    BY <1>7 DEF Deploy, Goto, IInv, Progress
  <2> QED BY <1>0, <1>7, <2>1, <2>2, <2>3, QuietRunStep DEF Deploy, IInv, TypeOK
<1> QED BY <1>2, <1>3, <1>4, <1>5, <1>6, <1>7

\* The invariant is inductive.
LEMMA StepInv == IInv /\ [Next]_vars => IInv'
<1> SUFFICES ASSUME IInv, [Next]_vars PROVE IInv'
  OBVIOUS
<1>1. CASE \E a \in Artefact : Submit(a)
  BY <1>1, SubmitInv
<1>2. CASE \E a \in Artefact : Begin(a) \/ (RunStep(a) /\ ~Submit(a))
  BY <1>2, RunInv DEF RunStep
<1>3. CASE GateOperation /\ UNCHANGED runVars
  BY <1>3, GateInv
<1>4. CASE UNCHANGED vars
  BY <1>4 DEF vars, runVars, gateVars, IInv, TypeOK, GateTypeOK, TokenIffApproved,
     Numbered, Paired, Progress, DeployedOnlyIfApproved, Request
<1> QED BY <1>1, <1>2, <1>3, <1>4 DEF Next

LEMMA Invariance == Spec => []IInv
  BY InitInv, StepInv, PTL DEF Spec

-----------------------------------------------------------------------------

\* Every reachable state of the pipeline and the gate is well typed.
THEOREM TypeCorrect == Spec => []TypeOK
<1>1. IInv => TypeOK BY DEF IInv
<1> QED BY <1>1, Invariance, PTL

\* approval.py: "No artefact may be deployed while its request is PENDING or
\* REJECTED", whatever the operators and the other runs do.
THEOREM OnlyApprovedDeploys == Spec => []DeployedOnlyIfApproved
<1>1. IInv => DeployedOnlyIfApproved BY DEF IInv
<1> QED BY <1>1, Invariance, PTL

\* A deploy token exists for the approved requests and for no other.
THEOREM TokensAreApprovals == Spec => []TokenIffApproved
<1>1. IInv => TokenIffApproved BY DEF IInv
<1> QED BY <1>1, Invariance, PTL

-----------------------------------------------------------------------------
(* The refinement: what each step of the code is for ROOT's control. *)

Dec == [a \in Artefact |-> Decision(a)]
Dep == {a \in Artefact : outcome[a] = "deployed"}

\* A step that keeps every request, and the status of those of other runs,
\* changes the decision about one artefact at most.
LEMMA OneDecision ==
  ASSUME IInv, NEW a \in Artefact, \A b \in Artefact \ {a} : reqOf'[b] = reqOf[b],
         \A r \in Request : r <= issued /\ artefactOf[r] # a => status'[r] = status[r]
  PROVE  Dec' = [Dec EXCEPT ![a] = Decision(a)']
<1> SUFFICES ASSUME NEW b \in Artefact \ {a} PROVE Decision(b)' = Decision(b)
  BY DEF Dec
<1>1. CASE reqOf[b] = 0
  BY <1>1 DEF Decision, Verdict
<1>2. CASE reqOf[b] # 0
  <2>1. reqOf[b] \in Request /\ reqOf[b] <= issued /\ artefactOf[reqOf[b]] = b
    BY <1>2 DEF IInv, TypeOK, Paired, Request
  <2> QED BY <2>1, <1>2 DEF Decision, Verdict
<1> QED BY <1>1, <1>2

\* A submission opens the decision, or grants it at once in CI mode.
LEMMA SubmitMaps ==
  ASSUME IInv, NEW a \in Artefact, Submit(a)
  PROVE  Control!Open(a) \/ Control!Grant(a)
<1> USE GateAssumption DEF Request
<1>1. /\ issued' \in Request /\ issued' = issued + 1 /\ issued \in Nat /\ reqOf[a] = 0
      /\ status'[issued'] \in {"pending", "approved"}
  BY DEF IInv, TypeOK, GateTypeOK, Progress, Submit, Goto, MakeRequest
<1>2. Decision(a) = "none" /\ Decision(a)' \in {"open", "granted"}
  BY <1>1 DEF Decision, Verdict, Submit, IInv, TypeOK
<1>3. Dec' = [Dec EXCEPT ![a] = Decision(a)']
  <2>1. \A b \in Artefact \ {a} : reqOf'[b] = reqOf[b]
    BY DEF Submit, IInv, TypeOK
  <2>2. \A r \in Request : r <= issued => status'[r] = status[r]
    BY <1>1 DEF Submit, MakeRequest, IInv, TypeOK, GateTypeOK
  <2> QED BY <2>1, <2>2, OneDecision
<1>4. Dep' = Dep
  BY DEF Dep, Submit
<1> QED BY <1>2, <1>3, <1>4 DEF Control!Open, Control!Grant, Control!Decide, Dec, Dep

\* An operator's verdict on a request decides about the artefact that made it.
LEMMA VerdictMaps ==
  ASSUME IInv, NEW r \in Request, Approve(r) \/ Reject(r) \/ Get(r), UNCHANGED runVars
  PROVE  \E a \in Artefact : Control!Grant(a) \/ Control!Deny(a)
<1> USE GateAssumption DEF Request
<1> DEFINE a == artefactOf[r]
<1>1. status[r] = "pending" /\ r <= issued /\ a \in Artefact /\ reqOf[a] = r
  BY DEF Approve, Reject, Get, Pending, IInv, Numbered, Paired
<1>2. \A q \in Request \ {r} : status'[q] = status[q]
  BY DEF Approve, Reject, Get, IInv, TypeOK, GateTypeOK
<1>3. status'[r] \in {"approved", "rejected", "expired"}
  BY DEF Approve, Reject, Get, IInv, TypeOK, GateTypeOK
<1>4. Decision(a) = "open"
  BY <1>1 DEF Decision, Verdict
<1>5. reqOf'[a] = r /\ reqOf' = reqOf /\ outcome' = outcome
  BY <1>1 DEF runVars
<1>6. Dec' = [Dec EXCEPT ![a] = IF status'[r] = "approved" THEN "granted" ELSE "denied"]
  <2>1. \A b \in Artefact \ {a} : Decision(b)' = Decision(b)
    <3> SUFFICES ASSUME NEW b \in Artefact \ {a} PROVE Decision(b)' = Decision(b)
      OBVIOUS
    <3>1. reqOf[b] # r /\ reqOf'[b] = reqOf[b] /\ reqOf[b] \in {0} \cup Request
      BY <1>1, <1>5 DEF IInv, Paired, TypeOK
    <3> QED BY <3>1, <1>2 DEF Decision, Verdict
  <2>2. (reqOf'[a] # 0 /\ status'[reqOf'[a]] = status'[r])
    BY <1>5
  <2>3. CASE status'[r] = "approved"
    <3>1. Dec'[a] = "granted" BY <1>1, <2>2, <2>3 DEF Decision, Verdict, Dec
    <3> QED BY <3>1, <2>1, <2>3, <1>1 DEF Dec
  <2>4. CASE status'[r] # "approved"
    <3>1. Dec'[a] = "denied" BY <1>1, <1>3, <2>2, <2>4 DEF Decision, Verdict, Dec
    <3> QED BY <3>1, <2>1, <2>4, <1>1 DEF Dec
  <2> QED BY <2>3, <2>4
<1>7. Dep' = Dep
  BY <1>5 DEF Dep
<1> QED BY <1>1, <1>4, <1>6, <1>7
        DEF Control!Grant, Control!Deny, Control!Decide, Dec, Dep

\* Listing the requests lapses the stale ones.
LEMMA ListMaps ==
  ASSUME IInv, ListRequests, UNCHANGED runVars
  PROVE  Control!Lapse
<1> USE DEF Request
<1> DEFINE S == {a \in Artefact : Decision(a) = "open" /\ Stale(reqOf[a])}
<1>1. Dec' = [a \in Artefact |-> IF a \in S THEN "denied" ELSE Dec[a]]
  <2> SUFFICES ASSUME NEW a \in Artefact
               PROVE  Decision(a)' = IF a \in S THEN "denied" ELSE Decision(a)
    BY DEF Dec
  <2>1. CASE reqOf[a] = 0
    BY <2>1 DEF Decision, Verdict, runVars
  <2>2. CASE reqOf[a] # 0
    <3>1. reqOf[a] \in Request /\ reqOf'[a] = reqOf[a]
      BY <2>2 DEF IInv, TypeOK, runVars
    <3>2. status'[reqOf[a]] = IF status[reqOf[a]] = "pending" /\ Stale(reqOf[a])
                              THEN "expired" ELSE status[reqOf[a]]
      BY <3>1 DEF ListRequests, Pending
    <3> QED BY <2>2, <3>1, <3>2 DEF Decision, Verdict
  <2> QED BY <2>1, <2>2
<1>2. S \in SUBSET {a \in Artefact : Dec[a] = "open"}
  BY DEF Dec
<1>3. Dep' = Dep
  BY DEF Dep, runVars
<1> QED BY <1>1, <1>2, <1>3 DEF Control!Lapse, Dec, Dep

\* Only the deploy stage adds to the deployed artefacts, and a step of a run
\* other than Submit decides nothing.
LEMMA RunMaps ==
  ASSUME IInv, NEW a \in Artefact,
         \/ Begin(a) \/ Prepare(a) \/ Build(a) \/ Sign(a) \/ StageFails(a)
         \/ SubmitFails(a) \/ Look(a) \/ Deploy(a)
  PROVE  Control!Deploy(a) \/ UNCHANGED <<Dec, Dep>>
<1>1. Dec' = Dec
  BY DEF Dec, Decision, Verdict, Begin, Prepare, Build, Sign, StageFails, Fail, SubmitFails,
         Look, Deploy, Goto, gateVars
<1>2. CASE Deploy(a)
  <2>1. reqOf[a] # 0 /\ status[reqOf[a]] = "approved"
    BY <1>2 DEF Deploy, Goto, IInv, Progress
  <2>2. Decision(a) = "granted"
    BY <2>1 DEF Decision, Verdict
  <2>3. Dep' = Dep \cup {a}
    BY <1>2 DEF Dep, Deploy, IInv, TypeOK
  <2> QED BY <1>1, <2>2, <2>3 DEF Control!Deploy, Dec, Dep
<1>3. CASE ~Deploy(a)
  <2>1. outcome[a] # "deployed"
    BY <1>3 DEF IInv, Progress, Begin, Prepare, Build, Sign, StageFails, Fail,
                SubmitFails, Look, Goto
  <2>2. outcome'[a] # "deployed" /\ \A b \in Artefact \ {a} : outcome'[b] = outcome[b]
    BY <1>3, <2>1 DEF IInv, TypeOK, Begin, Prepare, Build, Sign, StageFails, Fail,
                SubmitFails, Look, Goto
  <2>3. Dep' = Dep
    BY <2>1, <2>2 DEF Dep
  <2> QED BY <1>1, <2>3
<1> QED BY <1>2, <1>3

LEMMA StepMaps == IInv /\ [Next]_vars => [Control!Next]_(Control!vars)
<1> SUFFICES ASSUME IInv, [Next]_vars PROVE Control!Next \/ UNCHANGED <<Dec, Dep>>
  BY DEF Control!vars, Dec, Dep
<1>1. CASE \E a \in Artefact : Submit(a)
  BY <1>1, SubmitMaps DEF Control!Next
<1>2. CASE \E a \in Artefact : Begin(a) \/ (RunStep(a) /\ ~Submit(a))
  BY <1>2, RunMaps DEF RunStep, Control!Next
<1>3. CASE GateOperation /\ UNCHANGED runVars
  <2>1. CASE \E r \in Request : Approve(r) \/ Reject(r) \/ Get(r)
    BY <1>3, <2>1, VerdictMaps DEF Control!Next
  <2>2. CASE ListRequests
    BY <1>3, <2>2, ListMaps DEF Control!Next
  <2>3. CASE Age
    BY <1>3, <2>3 DEF Age, runVars, Dec, Dep, Decision, Verdict
  <2> QED BY <1>3, <2>1, <2>2, <2>3 DEF GateOperation
<1>4. CASE UNCHANGED vars
  BY <1>4 DEF vars, runVars, gateVars, Dec, Dep, Decision, Verdict
<1> QED BY <1>1, <1>2, <1>3, <1>4 DEF Next

\* The pipeline and the gate, with any number of concurrent runs and
\* operators, implement ROOT's deployment control.
THEOREM PipelineImplementsControl == Spec => ImplementsControl
<1>1. Init => Control!Init
  BY DEF Init, GateInit, Control!Init, Decision, Verdict
<1> QED BY <1>1, Invariance, StepMaps, PTL DEF Spec, ImplementsControl, Control!Spec
=============================================================================
