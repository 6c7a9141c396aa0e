---------------------------- MODULE BuildPipeline ----------------------------
(***************************************************************************)
(* The build pipeline of aura/build/pipeline.py together with the approval *)
(* gate it submits to.  Each build run is executed by the thread that      *)
(* called run(); several runs and the operators of the gate interleave.    *)
(* A run builds one artefact under a fresh id, so artefacts name the runs. *)
(***************************************************************************)
EXTENDS ApprovalGate

CONSTANTS Unnamed     \* the runs called with an empty name

ASSUME UnnamedAssumption == Unnamed \subseteq Artefact

VARIABLES
  run,        \* where each run is in BuildPipeline.run
  outcome,    \* BuildRun.status
  signed,     \* the artefacts whose signature is set
  reqOf       \* BuildRun.approval_request_id, 0 if none

runVars == <<run, outcome, signed, reqOf>>
vars    == <<gateVars, runVars>>

Init == /\ GateInit
        /\ run = [a \in Artefact |-> "idle"]
        /\ outcome = [a \in Artefact |-> "none"]
        /\ signed = {}
        /\ reqOf = [a \in Artefact |-> 0]

Goto(a, from, to) == run[a] = from /\ run' = [run EXCEPT ![a] = to]

\* run() registers a RUNNING BuildRun.
Begin(a) ==
  /\ Goto(a, "idle", "prepare")
  /\ outcome' = [outcome EXCEPT ![a] = "running"]
  /\ UNCHANGED <<gateVars, signed, reqOf>>

\* Any stage that raises ends the run as FAILED; later stages are skipped.
Fail(a, stage) ==
  /\ Goto(a, stage, "done")
  /\ outcome' = [outcome EXCEPT ![a] = "failed"]
  /\ UNCHANGED <<gateVars, signed, reqOf>>

Prepare(a) ==
  /\ a \notin Unnamed
  /\ Goto(a, "prepare", "build")
  /\ UNCHANGED <<gateVars, outcome, signed, reqOf>>

Build(a) ==
  /\ Goto(a, "build", "sign")
  /\ UNCHANGED <<gateVars, outcome, signed, reqOf>>

Sign(a) ==
  /\ Goto(a, "sign", "submit")
  /\ signed' = signed \cup {a}
  /\ UNCHANGED <<gateVars, outcome, reqOf>>

\* An empty name fails stage 1, an I/O error stages 1 and 2.
StageFails(a) == Fail(a, "prepare") \/ Fail(a, "build")

\* _approve, first half: gate.request returns or raises RuntimeError.
Submit(a) ==
  /\ Goto(a, "submit", "look")
  /\ MakeRequest(a)
  /\ reqOf' = [reqOf EXCEPT ![a] = issued']
  /\ UNCHANGED <<outcome, signed>>

\* Mutant of SubmitFails: nobody catches the RuntimeError of a full gate.
SubmitFailsUncaught(a) ==
  /\ Full
  /\ Goto(a, "submit", "done")
  /\ UNCHANGED <<gateVars, outcome, signed, reqOf>>

SubmitFails(a) == Full /\ Fail(a, "submit")

\* Mutants of Look: whatever is no longer pending is deployed; the run takes
\* over the status of its request.
LookDecided(a) ==
  /\ run[a] = "look"
  /\ IF status[reqOf[a]] # "pending"
     THEN Goto(a, "look", "deploy") /\ UNCHANGED outcome
     ELSE /\ Goto(a, "look", "done")
          /\ outcome' = [outcome EXCEPT ![a] = "pending_approval"]
  /\ UNCHANGED <<gateVars, signed, reqOf>>
LookCopiesStatus(a) ==
  /\ run[a] = "look"
  /\ IF status[reqOf[a]] = "approved"
     THEN Goto(a, "look", "deploy") /\ UNCHANGED outcome
     ELSE /\ Goto(a, "look", "done")
          /\ outcome' = [outcome EXCEPT ![a] = status[reqOf[a]]]
  /\ UNCHANGED <<gateVars, signed, reqOf>>

\* _approve, second half: the status is read after the gate's lock has been
\* released, when an operator may have decided already.
Look(a) ==
  /\ run[a] = "look"
  /\ IF status[reqOf[a]] = "approved"
     THEN Goto(a, "look", "deploy") /\ UNCHANGED outcome
     ELSE /\ Goto(a, "look", "done")
          /\ outcome' = [outcome EXCEPT ![a] = "pending_approval"]
  /\ UNCHANGED <<gateVars, signed, reqOf>>

Deploy(a) ==
  /\ Goto(a, "deploy", "done")
  /\ outcome' = [outcome EXCEPT ![a] = "deployed"]
  /\ UNCHANGED <<gateVars, signed, reqOf>>

RunStep(a) == \/ Prepare(a) \/ Build(a) \/ Sign(a) \/ StageFails(a)
              \/ Submit(a) \/ SubmitFails(a) \/ Look(a) \/ Deploy(a)

Next == \/ \E a \in Artefact : Begin(a) \/ RunStep(a)
        \/ GateOperation /\ UNCHANGED runVars

Spec     == Init /\ [][Next]_vars
FairSpec == Spec /\ \A a \in Artefact : WF_vars(RunStep(a))

-----------------------------------------------------------------------------
(* Properties. *)

TypeOK ==
  /\ GateTypeOK
  /\ run \in [Artefact -> {"idle", "prepare", "build", "sign", "submit",
                           "look", "deploy", "done"}]
  /\ outcome \in [Artefact -> {"none", "running", "failed",
                               "pending_approval", "deployed"}]
  /\ signed \subseteq Artefact
  /\ reqOf \in [Artefact -> 0..MaxRequests]

\* "No artefact may be deployed while its request is PENDING or REJECTED":
\* a deployed artefact was signed, and its own request is APPROVED, whatever
\* operators and other runs did between the request and the deployment.
DeployedOnlyIfApproved ==
  \A a \in Artefact : outcome[a] = "deployed" =>
    /\ a \in signed
    /\ reqOf[a] # 0 /\ artefactOf[reqOf[a]] = a /\ status[reqOf[a]] = "approved"

Verdict(s) == CASE s = "pending"  -> "open"
                [] s = "approved" -> "granted"
                [] OTHER          -> "denied"

Decision(a) == IF reqOf[a] = 0 THEN "none" ELSE Verdict(status[reqOf[a]])

Control == INSTANCE DeployControl
  WITH decision <- [a \in Artefact |-> Decision(a)],
       deployed <- {a \in Artefact : outcome[a] = "deployed"}

\* The pipeline and the gate together implement ROOT's deployment control.
ImplementsControl == Control!Spec

\* A full gate, an I/O error or a slow operator never leaves a run RUNNING.
RunSettles == \A a \in Artefact : outcome[a] = "running" ~> outcome[a] # "running"

\* CI mode: with auto_approve every run that reaches the gate is deployed.
AutoApprovedDeploys ==
  \A a \in Artefact : auto /\ run[a] = "submit" ~> outcome[a] = "deployed"

\* Stage 5 as documented: an artefact is marked deployed after gate approval.
ApprovedIsDeployed ==
  \A a \in Artefact : Decision(a) = "granted" ~> outcome[a] = "deployed"

\* Every run comes to an end, and in CI mode the one that passes the gate deploys.
RunsEnd == RunSettles /\ AutoApprovedDeploys
=============================================================================
