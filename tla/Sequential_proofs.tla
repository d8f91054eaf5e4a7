-------------------------- MODULE Sequential_proofs ---------------------------
(***************************************************************************)
(* The programs that work alone (see MCSequential): what a run of one      *)
(* agent says of itself is so, for every configuration of the agent; a     *)
(* plan the launcher lets through runs, for every command line, profile    *)
(* file and set of tasks; the selection of tasks does what it documents,   *)
(* for all public results and sample sizes; the totals of a trial are the  *)
(* whole of what it used, for every workflow; and the usage report of a    *)
(* job adds up, for every job.                                             *)
(***************************************************************************)
EXTENDS MCSequential, GitWorkspace_proofs,
        FiniteSetTheorems, WellFoundedInduction

-----------------------------------------------------------------------------
(* One agent alone (SingleEngine).                                          *)

\* Where an attempt of the agent's has not begun, or has been taken back.
AtBase == pc \in {"start", "admit", "running", "clean"}

\* Where the attempt's work is being judged, or was accepted.
InJudgement == pc \in {"reset", "inspect", "stage", "decide"}
Committing == pc \in {"commit", "mark"}
Over == pc \in {"finalize", "done"}

\* What may be in the tree without any attempt's being responsible.
Leftover == loose \union {BaseFile}

\* The types the argument needs; the bounds are of no account.
Types ==
    /\ repo \in Repository
    /\ attempt \in Nat
    /\ violations \subseteq Nat /\ loose \subseteq Nat

\* The base is known while the loop runs, and it is the root.
BaseInv ==
    /\ baseCommit \in {NoCommit, RootCommit}
    /\ pc = "start" => baseCommit = NoCommit
    /\ pc \notin {"start", "finalize", "done"} => baseCommit = RootCommit

\* Until an attempt is accepted, its work is nowhere but in the attempt itself: HEAD and
\* the index are the base's whenever the next one may start, and none is on record for an
\* attempt still to come.
CleanInv ==
    /\ AtBase \/ (pc = "record" /\ accepted = {}) =>
         repo.head = RootCommit /\ repo.index = {}
    /\ pc \in {"start", "admit", "running"} => repo.work \subseteq Leftover
    /\ InJudgement \/ Committing =>
         /\ repo.head.tree \union repo.index \union repo.work \subseteq Leftover \union {attempt}
         /\ repo.head = RootCommit \/ repo.head.by # "modifier" \/ repo.head.turn = attempt
    /\ pc \in {"start", "admit", "running", "inspect"} => \A v \in violations : v < attempt
    /\ pc \in {"reset", "clean"} => \A v \in violations : v < attempt
    /\ pc \in {"stage", "decide"} => \A v \in violations : v <= attempt
    /\ pc = "decide" => repo.work \subseteq repo.index \union Leftover

\* Nothing is accepted before it was judged, and what was accepted is what HEAD holds.
AcceptedInv ==
    /\ AtBase \/ InJudgement => accepted = {}
    /\ Committing => accepted = {attempt}
    /\ pc \in {"stage", "decide", "commit"} /\ repo.head # RootCommit => attempt \in violations
    /\ pc = "mark" /\ repo.head.by = "modifier" => repo.head.turn \in violations
    /\ pc = "record" /\ accepted # {} =>
         /\ repo.head = lastCheckpoint
         /\ repo.head.tree \subseteq accepted \union Leftover
         /\ repo.head.by = "modifier" => repo.head.turn \in violations

\* What the end says.
EndInv ==
    /\ failure \in Failures
    /\ failure = "timeout" => terminalTimeoutKind # "none"
    /\ Over \/ outcome = "none"
    /\ pc = "finalize" /\ outcome = "completed" =>
         /\ repo.head = lastCheckpoint
         /\ repo.head.tree \subseteq accepted \union Leftover
         /\ repo.head.by = "modifier" => repo.head.turn \in violations
    /\ pc = "finalize" /\ outcome \in Failures =>
         repo.head = RootCommit /\ baseCommit = RootCommit
    /\ pc = "finalize" /\ outcome = "completed" => baseCommit = RootCommit
    /\ pc = "finalize" /\ outcome \in Failures \union {"completed"} =>
         (metadata # {"none"} <=> outcome = "timeout")

SingleInv == Types /\ BaseInv /\ CleanInv /\ AcceptedInv /\ EndInv /\ SingleRunIsHonest


-----------------------------------------------------------------------------

LEMMA InitSingle == Init => SingleInv
<1> SUFFICES ASSUME Init PROVE SingleInv
  OBVIOUS
<1>1. /\ repo.head = RootCommit /\ repo.index = {} /\ repo.work \subseteq {BaseFile}
      /\ repo \in Repository
  BY CleanCheckoutsType DEF Init, CleanCheckouts
<1>2. Types /\ BaseInv /\ CleanInv /\ AcceptedInv
  BY <1>1 DEF Init, Types, BaseInv, CleanInv, AcceptedInv, AtBase, InJudgement, Committing, Leftover
<1>3. EndInv /\ SingleRunIsHonest
  BY DEF Init, EndInv, Failures, Over, Done, SingleRunIsHonest, DeliveryIsAccepted,
         FailureExposesNothing, TimeoutOfTheEnd
<1> QED
  BY <1>2, <1>3 DEF SingleInv

LEMMA TypesStep == Types /\ BaseInv /\ [Next]_vars => Types'
<1> SUFFICES ASSUME Types, BaseInv, [Next]_vars PROVE Types'
  OBVIOUS
<1> USE DEF Types
<1>1. CASE Start \/ Admit \/ Record \/ InfrastructureFailure \/ Finalize \/ FinalizeFails \/ Elapse
           \/ MarkCheckpoint \/ UNCHANGED vars
  BY <1>1 DEF Start, Admit, Record, InfrastructureFailure, Finalize, FinalizeFails, Elapse,
              MarkCheckpoint, vars, trust, clock, final
<1>2. ASSUME NEW e, NEW p, NEW r \in AgentEffects(repo, attempt), EndTurn(e, r, p)
      PROVE  Types'
  <2>1. r \in Repository
    BY AgentEffectsType
  <2> QED
    BY <1>2, <2>1 DEF EndTurn, trust
<1>3. CASE Reset
  <2>1. ResetCommit \in Commit
    BY <1>3, RootCommitType DEF Reset, ResetCommit, BaseInv
  <2> QED
    BY <1>3, <2>1, WorkspaceTypes DEF Reset, trust, clock
<1>4. CASE Clean \/ StageChanges
  <2>1. RemoveFresh(repo) \in Repository /\ StageAllExcept(repo) \in Repository
    BY WorkspaceTypes, RootCommitType
  <2>2. UNCHANGED <<violations, loose>> /\ attempt' \in {attempt, attempt + 1}
    BY <1>4 DEF Clean, StageChanges, trust, clock
  <2>3. repo' \in {RemoveFresh(repo), StageAllExcept(repo)}
    BY <1>4 DEF Clean, StageChanges
  <2> QED
    BY <2>1, <2>2, <2>3
<1>5. CASE InspectHead
  BY <1>5 DEF InspectHead, clock
<1>6. CASE Decide
  BY <1>6 DEF Decide
<1>7. CASE CommitCheckpoint
  BY <1>7, WorkspaceTypes, RootCommitType DEF CommitCheckpoint, trust, clock
<1>8. CASE Stray
  <2>1. PICK t \in loose : repo' = StrayWrite(repo, t)
    BY <1>8 DEF Stray
  <2>2. StrayWrite(repo, t) \in Repository
    BY WorkspaceTypes, RootCommitType DEF Types
  <2> QED
    BY <1>8, <2>1, <2>2 DEF Stray, trust, clock
<1> QED
  BY <1>1, <1>2, <1>3, <1>4, <1>5, <1>6, <1>7, <1>8 DEF Next


LEMMA BaseStep == BaseInv /\ CleanInv /\ [Next]_vars => BaseInv'
<1> SUFFICES ASSUME BaseInv, CleanInv, [Next]_vars PROVE BaseInv'
  OBVIOUS
<1> USE DEF BaseInv
<1>1. CASE Start
  BY <1>1 DEF Start, CleanInv, AtBase
<1>2. CASE Admit \/ Reset \/ Clean \/ InspectHead \/ StageChanges \/ Decide \/ CommitCheckpoint
           \/ MarkCheckpoint \/ Record
  BY <1>2 DEF Admit, Reset, Clean, InspectHead, StageChanges, Decide, CommitCheckpoint,
              MarkCheckpoint, Record, trust
<1>3. ASSUME NEW e, NEW r, NEW p, EndTurn(e, r, p) PROVE BaseInv'
  BY <1>3 DEF EndTurn, trust
<1>4. CASE InfrastructureFailure \/ Finalize \/ FinalizeFails
  BY <1>4 DEF InfrastructureFailure, Finalize, FinalizeFails, trust
<1>5. CASE Elapse \/ Stray \/ UNCHANGED vars
  BY <1>5 DEF Elapse, Stray, vars, trust
<1> QED
  BY <1>1, <1>2, <1>3, <1>4, <1>5 DEF Next

LEMMA CleanStep == Types /\ BaseInv /\ CleanInv /\ AcceptedInv /\ [Next]_vars => CleanInv'
<1> SUFFICES ASSUME Types, BaseInv, CleanInv, AcceptedInv, [Next]_vars PROVE CleanInv'
  OBVIOUS
<1> USE DEF CleanInv, AtBase, InJudgement, Committing, Leftover
<1>1. CASE Start
  BY <1>1 DEF Start, AcceptedInv
<1>2. CASE Admit
  BY <1>2 DEF Admit, trust
<1>3. ASSUME NEW e, NEW p \in BOOLEAN, NEW r \in AgentEffects(repo, attempt), EndTurn(e, r, p)
      PROVE  CleanInv'
  <2>1. /\ r.head \in {repo.head, RootCommit} \/ (r.head.by = "modifier" /\ r.head.turn = attempt)
        /\ r.head.tree \union r.index \union r.work
             \subseteq repo.head.tree \union repo.index \union repo.work \union {attempt}
    BY AgentTouches DEF Types
  <2>2. repo.head = RootCommit /\ repo.index = {} /\ repo.work \subseteq Leftover
    BY <1>3 DEF EndTurn
  <2>3. r.head.tree \union r.index \union r.work \subseteq Leftover \union {attempt}
    BY <2>1, <2>2 DEF RootCommit
  <2> QED
    BY <1>3, <2>1, <2>2, <2>3 DEF EndTurn, trust
<1>4. CASE Reset
  BY <1>4 DEF Reset, HardReset, ResetCommit, BaseInv, RootCommit, trust, clock
<1>5. CASE Clean
  BY <1>5 DEF Clean, RemoveFresh, Types, Repository, trust
<1>6. CASE InspectHead
  BY <1>6 DEF InspectHead, Types, clock
<1>7. CASE StageChanges
  BY <1>7 DEF StageChanges, StageAllExcept, Types, Repository, trust, clock
<1>8. CASE Decide
  <2>1. CASE pc' = "admit"
    <3>1. repo.index = repo.head.tree /\ attempt \notin violations /\ attempt' = attempt + 1
      BY <1>8, <2>1 DEF Decide, HasStagedChanges
    <3>2. repo.head = RootCommit /\ repo.index = {} /\ repo.work \subseteq Leftover
      BY <1>8, <3>1 DEF Decide, AcceptedInv, RootCommit
    <3> QED
      BY <1>8, <2>1, <3>1, <3>2 DEF Decide, Types
  <2>2. CASE pc' # "admit"
    BY <1>8, <2>2 DEF Decide
  <2> QED
    BY <2>1, <2>2
<1>9. CASE CommitCheckpoint
  BY <1>9 DEF CommitCheckpoint, CommitIndex, Types, Repository, trust, clock
<1>10. CASE MarkCheckpoint
  BY <1>10 DEF MarkCheckpoint, AcceptedInv, clock
<1>11. CASE Record \/ InfrastructureFailure \/ Finalize \/ FinalizeFails
  BY <1>11 DEF Record, InfrastructureFailure, Finalize, FinalizeFails, trust, clock
<1>12. CASE Elapse \/ UNCHANGED vars
  BY <1>12 DEF Elapse, vars, trust, clock
<1>13. CASE Stray
  BY <1>13 DEF Stray, StrayWrite, Types, Repository, trust, clock
<1> QED
  BY <1>1, <1>2, <1>3, <1>4, <1>5, <1>6, <1>7, <1>8, <1>9, <1>10, <1>11, <1>12, <1>13 DEF Next

LEMMA AcceptedStep == Types /\ BaseInv /\ CleanInv /\ AcceptedInv /\ [Next]_vars => AcceptedInv'
<1> SUFFICES ASSUME Types, BaseInv, CleanInv, AcceptedInv, [Next]_vars PROVE AcceptedInv'
  OBVIOUS
<1> USE DEF AcceptedInv, AtBase, InJudgement, Committing, Leftover
<1>1. CASE Start \/ Admit \/ Reset \/ Clean
  BY <1>1 DEF Start, Admit, Reset, Clean, trust, clock
<1>2. ASSUME NEW e, NEW r, NEW p, EndTurn(e, r, p) PROVE AcceptedInv'
  BY <1>2 DEF EndTurn, trust
<1>3. CASE InspectHead
  BY <1>3 DEF InspectHead, HeadMoved, BaseInv, clock
<1>4. CASE StageChanges
  BY <1>4 DEF StageChanges, StageAllExcept, Types, Repository, trust, clock
<1>5. CASE Decide
  BY <1>5 DEF Decide
<1>6. CASE CommitCheckpoint
  <2>1. repo.head.by = "modifier" => repo.head.turn \in violations
    BY <1>6 DEF CommitCheckpoint, CleanInv, RootCommit
  <2>2. CASE HasStagedChanges(repo)
    <3>1. repo'.head.by = "harness"
      BY <1>6, <2>2 DEF CommitCheckpoint, CommitIndex, Types, Repository
    <3> QED
      BY <1>6, <3>1 DEF CommitCheckpoint, trust, clock
  <2>3. CASE ~HasStagedChanges(repo)
    BY <1>6, <2>1, <2>3 DEF CommitCheckpoint, trust, clock
  <2> QED
    BY <2>2, <2>3
<1>7. CASE MarkCheckpoint
  BY <1>7 DEF MarkCheckpoint, CleanInv, clock
<1>8. CASE Record \/ InfrastructureFailure \/ Finalize \/ FinalizeFails
  BY <1>8 DEF Record, InfrastructureFailure, Finalize, FinalizeFails, trust, clock
<1>9. CASE Elapse \/ UNCHANGED vars
  BY <1>9 DEF Elapse, vars, trust, clock
<1>10. CASE Stray
  BY <1>10 DEF Stray, StrayWrite, Types, Repository, trust, clock
<1> QED
  BY <1>1, <1>2, <1>3, <1>4, <1>5, <1>6, <1>7, <1>8, <1>9, <1>10 DEF Next


LEMMA EndStep ==
    Types /\ BaseInv /\ CleanInv /\ AcceptedInv /\ EndInv /\ [Next]_vars => EndInv'
<1> SUFFICES ASSUME Types, BaseInv, CleanInv, AcceptedInv, EndInv, [Next]_vars PROVE EndInv'
  OBVIOUS
<1> USE DEF EndInv, Over, Leftover, Failures
<1>1. CASE Start \/ Admit \/ Reset \/ Clean \/ InspectHead \/ StageChanges \/ Decide
           \/ CommitCheckpoint \/ MarkCheckpoint
  BY <1>1 DEF Start, Admit, Reset, Clean, InspectHead, StageChanges, Decide, CommitCheckpoint,
              MarkCheckpoint, clock, final
<1>2. ASSUME NEW e \in TurnEndings, NEW r, NEW p, EndTurn(e, r, p) PROVE EndInv'
  BY <1>2 DEF EndTurn, final
<1>3. CASE Record
  <2>1. /\ outcome' = IF Succeeded THEN "completed" ELSE failure
        /\ metadata' = {IF ~Succeeded /\ failure = "timeout" THEN terminalTimeoutKind ELSE "none"}
        /\ pc = "record" /\ pc' = "finalize"
        /\ UNCHANGED <<repo, lastCheckpoint, baseCommit, accepted, violations, loose,
                       failure, terminalTimeoutKind>>
    BY <1>3 DEF Record, trust, clock
  <2>2. CASE Succeeded
    BY <2>1, <2>2 DEF Succeeded, AcceptedInv, BaseInv
  <2>3. CASE ~Succeeded
    BY <2>1, <2>3 DEF Succeeded, CleanInv, BaseInv
  <2> QED
    BY <2>2, <2>3
<1>4. CASE InfrastructureFailure
  BY <1>4 DEF InfrastructureFailure, clock
<1>5. CASE Finalize \/ FinalizeFails
  BY <1>5 DEF Finalize, FinalizeFails, clock
<1>6. CASE Elapse \/ UNCHANGED vars
  BY <1>6 DEF Elapse, vars, trust, clock, final
<1>7. CASE Stray
  BY <1>7 DEF Stray, StrayWrite, Types, Repository, trust, clock, final
<1> QED
  BY <1>1, <1>2, <1>3, <1>4, <1>5, <1>6, <1>7 DEF Next

LEMMA HonestStep == SingleInv /\ [Next]_vars => SingleRunIsHonest'
<1> SUFFICES ASSUME SingleInv, [Next]_vars PROVE SingleRunIsHonest'
  OBVIOUS
<1> USE DEF SingleRunIsHonest, DeliveryIsAccepted, FailureExposesNothing, TimeoutOfTheEnd, Done
<1>1. CASE Finalize
  <2>1. /\ pc = "finalize" /\ deliverable' = (outcome' = "completed")
        /\ finalCommit' = IF baseCommit = NoCommit THEN NoCommit ELSE repo.head
        /\ outcome' = IF outcome = "completed" /\ repo.head.tree = baseCommit.tree
                        THEN "empty_patch" ELSE outcome
        /\ UNCHANGED <<repo, lastCheckpoint, baseCommit, accepted, violations, loose, metadata>>
    BY <1>1 DEF Finalize, trust
  <2>2. RootCommit # NoCommit
    BY DEF RootCommit, NoCommit
  <2>3. CASE outcome = "completed"
    BY <2>1, <2>2, <2>3 DEF SingleInv, EndInv, Leftover, Failures
  <2>4. CASE outcome # "completed"
    BY <2>1, <2>2, <2>4 DEF SingleInv, EndInv, Failures
  <2> QED
    BY <2>3, <2>4
<1>2. CASE FinalizeFails
  BY <1>2 DEF FinalizeFails, Failures
<1>3. CASE UNCHANGED vars
  BY <1>3 DEF SingleInv, vars, trust, final, Failures
<1>4. CASE ~(Finalize \/ FinalizeFails \/ UNCHANGED vars)
  <2>1. pc' # "done"
    BY <1>4 DEF Next, Start, Admit, EndTurn, Reset, Clean, InspectHead, StageChanges, Decide,
                CommitCheckpoint, MarkCheckpoint, Record, InfrastructureFailure, Elapse, Stray
  <2> QED
    BY <2>1
<1> QED
  BY <1>1, <1>2, <1>3, <1>4

\* The inductive invariant holds in every configuration of the agent alone.
THEOREM SingleInvariance == Spec => []SingleInv
<1>1. SingleInv /\ [Next]_vars => SingleInv'
  BY TypesStep, BaseStep, CleanStep, AcceptedStep, EndStep, HonestStep DEF SingleInv
<1> QED
  BY <1>1, InitSingle, PTL DEF Spec

\* What a single run says of itself is so: what is delivered is the accepted attempt's work
\* and on record, a failed run exposes nothing however its attempts came to nothing, and
\* the metadata names a timer just when the run ended by one (execute, finalize).
THEOREM SingleRunIsHonestHolds == Spec => []SingleRunIsHonest
<1>1. SingleInv => SingleRunIsHonest
  BY DEF SingleInv
<1> QED
  BY <1>1, SingleInvariance, PTL

\* The bounds too, while an attempt is under way.
Attempting == pc \in {"running", "reset", "clean", "inspect", "stage", "decide", "commit", "mark"}
BoundInv == TypeOK /\ (Attempting => attempt \in 1..MaxAgentAttempts)

\* The run begins within its bounds.
LEMMA InitBounds == Init => BoundInv
<1> SUFFICES ASSUME Init PROVE BoundInv
  OBVIOUS
<1>1. repo \in Repository
  BY CleanCheckoutsType DEF Init
<1>2. /\ left \in 0..TotalTimeout /\ attempt \in 1..(MaxAgentAttempts + 1)
  BY SingleAssumption DEF Init
<1> QED
  BY <1>1, <1>2 DEF Init, BoundInv, TypeOK, Attempting, ExecutePoints, Failures, TimeoutKinds

\* Every step keeps the types and the bounds: an attempt is begun only up to the last.
LEMMA BoundStep == BaseInv /\ BoundInv /\ [Next]_vars => BoundInv'
<1> SUFFICES ASSUME BaseInv, BoundInv, [Next]_vars PROVE BoundInv'
  OBVIOUS
<1> USE SingleAssumption DEF BoundInv, TypeOK, Attempting, ExecutePoints, Failures, TimeoutKinds
<1>0. attempt \in Nat /\ repo \in Repository /\ repo.head \in Commit
  BY DEF Repository
<1>1. CASE Start
  BY <1>0, <1>1 DEF Start, final
<1>2. CASE Admit
  BY <1>2 DEF Admit, trust, final
<1>3. ASSUME NEW e \in TurnEndings, NEW p \in BOOLEAN, NEW r \in AgentEffects(repo, attempt),
             EndTurn(e, r, p)
      PROVE  BoundInv'
  <2>1. r \in Repository
    BY <1>0, AgentEffectsType
  <2>2. e[2] \in TimeoutKinds
    BY DEF TurnEndings
  <2> QED
    BY <1>3, <2>1, <2>2 DEF EndTurn, trust, final
<1>4. CASE Reset
  <2>1. HardReset(repo, ResetCommit) \in Repository
    BY <1>0, <1>4, RootCommitType, WorkspaceTypes DEF Reset, ResetCommit, BaseInv
  <2> QED
    BY <1>4, <2>1 DEF Reset, trust, clock, final
<1>5. CASE Clean
  <2>1. RemoveFresh(repo) \in Repository
    BY <1>0, RootCommitType, WorkspaceTypes
  <2> QED
    BY <1>5, <2>1 DEF Clean, trust, final
<1>6. CASE InspectHead
  BY <1>6 DEF InspectHead, clock, final
<1>7. CASE StageChanges
  <2>1. StageAllExcept(repo) \in Repository
    BY <1>0, RootCommitType, WorkspaceTypes
  <2> QED
    BY <1>7, <2>1 DEF StageChanges, trust, clock, final
<1>8. CASE Decide
  BY <1>8 DEF Decide, final
<1>9. CASE CommitCheckpoint
  <2>1. CommitIndex(repo, attempt) \in Repository
    BY <1>0, RootCommitType, WorkspaceTypes
  <2> QED
    BY <1>9, <2>1 DEF CommitCheckpoint, trust, clock, final
<1>10. CASE MarkCheckpoint
  BY <1>0, <1>10 DEF MarkCheckpoint, clock, final
<1>11. CASE Record
  BY <1>11 DEF Record, trust, clock
<1>12. CASE InfrastructureFailure
  BY <1>12 DEF InfrastructureFailure, trust, clock
<1>13. CASE Finalize
  BY <1>0, <1>13 DEF Finalize, trust, clock
<1>14. CASE FinalizeFails
  BY <1>0, <1>14 DEF FinalizeFails, trust, clock
<1>15. CASE Elapse
  BY <1>15 DEF Elapse, trust, final
<1>16. CASE Stray
  <2>1. PICK t \in loose : repo' = StrayWrite(repo, t)
    BY <1>16 DEF Stray
  <2>2. StrayWrite(repo, t) \in Repository
    BY <1>0, RootCommitType, WorkspaceTypes
  <2> QED
    BY <1>16, <2>1, <2>2 DEF Stray, trust, clock, final
<1>17. CASE UNCHANGED vars
  BY <1>17 DEF vars, trust, clock, final
<1> QED
  BY <1>1, <1>2, <1>3, <1>4, <1>5, <1>6, <1>7, <1>8, <1>9, <1>10, <1>11, <1>12, <1>13, <1>14,
     <1>15, <1>16, <1>17 DEF Next

\* The types and bounds of the agent alone: every attempt in the record is one of those it
\* was allowed, and the deadline's clock stays within the timeout.
THEOREM SingleTypes == Spec => []TypeOK
<1>1. BoundInv => TypeOK
  BY DEF BoundInv
<1>2. SingleInv => BaseInv
  BY DEF SingleInv
<1> QED
  BY <1>1, <1>2, InitBounds, BoundStep, SingleInvariance, PTL DEF Spec

-----------------------------------------------------------------------------
(* The plan of an evaluation (EvalPlan).  An argument about checks that     *)
(* follow one another: what each has established, and that nothing it was   *)
(* established of changes.                                                  *)


(* What a duration is. *)

LEMMA FiniteIsInteger ==
  ASSUME NEW x \in Number, Finite(x)
  PROVE  x \in Int
BY DEF Number, Finite

LEMMA IntegersAreFinite == \A x \in Int : x \in Number /\ Finite(x) /\ x # None
BY ConstantsAssumption DEF NumberAssumption, Number, Finite

LEMMA ComparisonOfIntegers ==
  ASSUME NEW x \in Int, NEW y \in Int
  PROVE  /\ Less(x, y) <=> x < y
         /\ AtMost(x, y) <=> x <= y
<1>1. Finite(x) /\ Finite(y) /\ NaN \notin {x, y} /\ x # Inf
  BY IntegersAreFinite DEF Finite
<1>2. Less(x, y) <=> x < y
  BY <1>1 DEF Less
<1> QED
  BY <1>1, <1>2 DEF AtMost

LEMMA ArithmeticType ==
  ASSUME NEW x \in Number, NEW y \in Number
  PROVE  /\ Minus(x, y) \in Number
         /\ x \in Int => Times(x, y) \in Number
<1>1. CASE NaN \in {x, y}
  BY <1>1 DEF Times, Minus, Number
<1>2. CASE NaN \notin {x, y} /\ Inf \in {x, y}
  BY <1>2, ConstantsAssumption DEF Times, Minus, Number, NumberAssumption
<1>3. CASE {x, y} \intersect {NaN, Inf} = {}
  <2>1. x \in Int /\ y \in Int
    BY <1>3 DEF Number
  <2>2. x - y \in Int /\ x * y \in Int
    BY <2>1
  <2> QED
    BY <1>3, <2>1, <2>2 DEF Times, Minus, Number
<1> QED
  BY <1>1, <1>2, <1>3

(* Tasks. *)

LEMMA OneTimeout ==
  ASSUME request \in Requests, TasksExist(request.tasks), HaveOneTimeout(request.tasks)
  PROVE  \E t \in Int :
           /\ Timeouts(request.tasks) = {t} /\ t > 0
           /\ \A n \in request.tasks : TaskTable[n].timeout = t
<1>1. IsFiniteSet(request.tasks) /\ request.tasks \subseteq DOMAIN TaskTable
  BY ConstantsAssumption DEF InputAssumption
<1> DEFINE Of(n) == TaskTable[n].timeout
<1>2. IsFiniteSet({Of(n) : n \in request.tasks})
  <2>1. [n \in request.tasks |-> Of(n)] \in
          Surjection(request.tasks, {Of(n) : n \in request.tasks})
    BY DEF Surjection
  <2> QED
    BY <1>1, <2>1, FS_Surjection
<1>3. PICK t : Timeouts(request.tasks) = {t}
  BY <1>2, FS_Singleton DEF HaveOneTimeout, Timeouts
<1>4. \A n \in request.tasks : TaskTable[n].timeout = t
  BY <1>3 DEF Timeouts
<1>5. PICK n \in request.tasks : TRUE
  BY DEF TasksExist
<1>6. t \in Int
  BY <1>1, <1>4, <1>5, ConstantsAssumption DEF InputAssumption
<1> QED
  BY <1>3, <1>4, <1>6 DEF HaveOneTimeout

(* Roles. *)

LEMMA ResolvedRole ==
  ASSUME registry \in Registries, NEW name, NEW model, NEW effort,
         Resolvable(name, model, effort), ProfileSound(registry[name]),
         NEW p, p = Resolved(name, model, effort)
  PROVE  /\ name \in DOMAIN registry
         /\ p.adapter = registry[name].adapter /\ p.adapter \in Agent!Adapters
         /\ p.config = registry[name].config /\ (p.adapter = "kimi" <=> p.config # "none")
         /\ p.status = registry[name].status
         /\ p.status = "unverified" => request.allowUnverified
         /\ p.model \in {model, registry[name].model}
         /\ p.adapter = "kimi" => p.model = registry[name].model
<1> DEFINE g == registry[name]
<1>1. name \in DOMAIN registry /\ g = [f \in ProfileFields |-> g[f]]
  BY ConstantsAssumption DEF InputAssumption, Resolvable
<1>2. p = [g EXCEPT !.model = IF model = None THEN @ ELSE model,
                    !.effort = IF effort = None THEN @ ELSE effort]
  BY DEF Resolved, WithOverrides
<1>3. /\ p.adapter = g.adapter /\ p.config = g.config /\ p.status = g.status
      /\ p.model = IF model = None THEN g.model ELSE model
  BY <1>1, <1>2 DEF ProfileFields
<1>4. p.adapter = "kimi" => p.model = g.model
  BY <1>3 DEF Resolvable, OverridesFit
<1>5. /\ p.adapter \in Agent!Adapters /\ (p.adapter = "kimi" <=> p.config # "none")
  BY <1>3 DEF ProfileSound
<1>6. p.status = "unverified" => request.allowUnverified
  BY <1>3 DEF Resolvable
<1> QED
  BY <1>1, <1>3, <1>4, <1>5, <1>6

(* The invariant. *)

\* What a check has established stays so, because the command line, the profile file and
\* the tasks do not change.
TasksChecked == TasksExist(request.tasks) /\ HaveOneTimeout(request.tasks)
                  /\ timeout \in Timeouts(request.tasks)
ProfilesChecked == \A n \in DOMAIN registry : ProfileSound(registry[n])
RolesChecked == OptionsFit /\ RolesResolvable /\ roles = ResolvedRoles
Refused == gate = "refused"

PlanInv ==
  /\ request \in Requests /\ registry \in Registries /\ login \in BOOLEAN
  /\ gate \in {"tasks", "profiles", "roles", "budget"} \/ Planned \/ Refused
  /\ timeout = 0 \/ TasksChecked
  /\ gate \in {"profiles", "roles", "budget"} \/ Planned => TasksChecked
  /\ gate \in {"roles", "budget"} \/ Planned => ProfilesChecked
  /\ roles = NoRoles \/ (ProfilesChecked /\ RolesChecked)
  /\ gate = "budget" \/ Planned => RolesChecked
  /\ Planned => BudgetFits /\ plan = NewPlan
  /\ Planned \/ Refused \/ plan = None

\* The two failures of a trial are explained.
FailureInv ==
  /\ gate = "failed" => ~(RegistryAgrees /\ FiniteDurations)
  /\ gate = "running" => FiniteDurations

LEMMA PlanInvInit == PlanInit => PlanInv
BY DEF PlanInit, PlanInv, Planned

LEMMA PlanInvStep == PlanInv /\ [PlanNext]_planVars => PlanInv'
<1> SUFFICES ASSUME PlanInv, [PlanNext]_planVars PROVE PlanInv'
  OBVIOUS
<1> USE DEF Planned, Refused, Continue
<1>u. ASSUME UNCHANGED <<request, registry, login>>
      PROVE  /\ (TasksExist(request.tasks) /\ HaveOneTimeout(request.tasks))'
                  <=> TasksExist(request.tasks) /\ HaveOneTimeout(request.tasks)
             /\ Timeouts(request.tasks)' = Timeouts(request.tasks)
             /\ UNCHANGED <<ProfilesChecked, OptionsFit, RolesResolvable, ResolvedRoles>>
             /\ request' \in Requests /\ registry' \in Registries /\ login' \in BOOLEAN
  BY <1>u DEF PlanInv, TasksExist, HaveOneTimeout, Timeouts, ProfilesChecked, OptionsFit,
       RolesResolvable, ResolvedRoles, Collab, RoleOverrides, Resolvable, Resolved
<1>1. CASE SelectTasks
  <2> DEFINE fits == TasksExist(request.tasks) /\ HaveOneTimeout(request.tasks)
  <2>1. fits => \E t : t \in Timeouts(request.tasks)
    BY OneTimeout DEF PlanInv
  <2>2. fits => timeout' \in Timeouts(request.tasks)
    BY <1>1, <2>1 DEF SelectTasks
  <2>3. UNCHANGED <<request, registry, login, roles, plan>>
    BY <1>1 DEF SelectTasks
  <2>4. roles = NoRoles \/ (ProfilesChecked /\ RolesChecked)
    BY DEF PlanInv
  <2> QED
    BY <1>1, <1>u, <2>2, <2>3, <2>4 DEF SelectTasks, PlanInv, TasksChecked, RolesChecked
<1>2. CASE LoadProfiles
  <2>1. UNCHANGED <<request, registry, login, timeout, roles, plan>>
    BY <1>2 DEF LoadProfiles
  <2>2. gate' = "roles" => ProfilesChecked
    BY <1>2 DEF LoadProfiles, ProfilesChecked
  <2> QED
    BY <1>2, <1>u, <2>1, <2>2 DEF LoadProfiles, PlanInv, TasksChecked, RolesChecked
<1>3. CASE ResolveRoles
  <2>1. UNCHANGED <<request, registry, login, timeout, plan>>
    BY <1>3 DEF ResolveRoles
  <2> QED
    BY <1>3, <1>u, <2>1 DEF ResolveRoles, PlanInv, TasksChecked, RolesChecked
<1>4. CASE BuildPlan
  <2>1. UNCHANGED <<request, registry, login, timeout, roles>>
    BY <1>4 DEF BuildPlan
  <2>2. UNCHANGED <<BudgetFits, NewPlan>>
    BY <2>1 DEF BudgetFits, NewPlan, Collab, PhaseTimeouts, SoftDeadline, HardTimeout,
         MaxReviews, PhaseTimeoutsFit, Topology
  <2> QED
    BY <1>4, <1>u, <2>1, <2>2 DEF BuildPlan, PlanInv, TasksChecked, RolesChecked
<1>5. CASE Launch \/ ConstructAgent \/ ParseConfig \/ PlanDone \/ UNCHANGED planVars
  <2>1. /\ UNCHANGED <<request, registry, login, timeout, roles, plan>>
        /\ (Planned /\ (Planned \/ Refused)') \/ UNCHANGED gate
    BY <1>5 DEF Launch, ConstructAgent, ParseConfig, PlanDone, planVars
  <2>2. UNCHANGED <<BudgetFits, NewPlan>>
    BY <2>1 DEF BudgetFits, NewPlan, Collab, PhaseTimeouts, SoftDeadline, HardTimeout,
         MaxReviews, PhaseTimeoutsFit, Topology
  <2> QED
    BY <1>u, <2>1, <2>2 DEF PlanInv, TasksChecked, RolesChecked
<1> QED
  BY <1>1, <1>2, <1>3, <1>4, <1>5 DEF PlanNext

(* What the checks say of a plan. *)

\* The profile a role was asked to be, and the model it was asked to have.
AskedName(role) ==
  IF ~Collab THEN request.agent
  ELSE IF role = "modifier" THEN request.modifier ELSE request.reviewer
AskedModel(role) ==
  IF ~Collab THEN request.model
  ELSE IF role = "modifier" THEN request.modifierModel ELSE request.reviewerModel

RoleFits(p, name, model) ==
  /\ name \in DOMAIN registry
  /\ p.adapter = registry[name].adapter /\ p.adapter \in Agent!Adapters
  /\ p.config = registry[name].config /\ (p.adapter = "kimi" <=> p.config # "none")
  /\ p.status = "unverified" => request.allowUnverified
  /\ p.model \in {model, registry[name].model}
  /\ p.adapter = "kimi" => p.model = registry[name].model

LEMMA RolesFit ==
  ASSUME PlanInv, ProfilesChecked, RolesChecked
  PROVE  /\ RoleFits(roles.modifier, AskedName("modifier"), AskedModel("modifier"))
         /\ Collab => RoleFits(roles.reviewer, AskedName("reviewer"), AskedModel("reviewer"))
         /\ ~Collab => roles.reviewer = NoProfile
<1> registry \in Registries
  BY DEF PlanInv
<1>1. ASSUME NEW name, NEW model, NEW effort, Resolvable(name, model, effort)
      PROVE  RoleFits(Resolved(name, model, effort), name, model)
  <2>1. name \in DOMAIN registry
    BY <1>1 DEF Resolvable
  <2>2. ProfileSound(registry[name])
    BY <2>1 DEF ProfilesChecked
  <2> QED
    BY <1>1, <2>2, ResolvedRole DEF RoleFits
<1>2. CASE Collab
  <2>1. /\ roles.modifier = Resolved(request.modifier, request.modifierModel, request.modifierEffort)
        /\ roles.reviewer = Resolved(request.reviewer, request.reviewerModel, request.reviewerEffort)
    BY <1>2 DEF RolesChecked, ResolvedRoles
  <2>2. /\ Resolvable(request.modifier, request.modifierModel, request.modifierEffort)
        /\ Resolvable(request.reviewer, request.reviewerModel, request.reviewerEffort)
    BY <1>2 DEF RolesChecked, RolesResolvable
  <2>3. /\ AskedName("modifier") = request.modifier
        /\ AskedModel("modifier") = request.modifierModel
        /\ AskedName("reviewer") = request.reviewer
        /\ AskedModel("reviewer") = request.reviewerModel
    BY <1>2 DEF AskedName, AskedModel
  <2> QED
    BY <1>1, <1>2, <2>1, <2>2, <2>3
<1>3. CASE ~Collab
  <2>1. /\ roles.modifier = Resolved(request.agent, request.model, request.effort)
        /\ roles.reviewer = NoProfile
    BY <1>3 DEF RolesChecked, ResolvedRoles
  <2>2. Resolvable(request.agent, request.model, request.effort)
    BY <1>3 DEF RolesChecked, RolesResolvable
  <2>3. AskedName("modifier") = request.agent /\ AskedModel("modifier") = request.model
    BY <1>3 DEF AskedName, AskedModel
  <2> QED
    BY <1>1, <1>3, <2>1, <2>2, <2>3
<1> QED
  BY <1>2, <1>3

LEMMA NoRoleFits ==
  ASSUME NEW p, NEW name, NEW model, RoleFits(p, name, model)
  PROVE  p # NoProfile /\ AgentRole(p) # Agent!NoRole
BY DEF RoleFits, NoProfile, AgentRole, Agent!NoRole, Agent!Adapters

LEMMA PlanIsItsParts ==
  ASSUME PlanInv, Planned
  PROVE  /\ plan.topology = Topology
         /\ plan.workflow = IF Collab THEN "review-loop" ELSE "single"
         /\ plan.modifier = roles.modifier /\ plan.reviewer = roles.reviewer
         /\ plan.taskTimeout = timeout /\ plan.multiplier = request.multiplier
         /\ plan.hard = HardTimeout /\ plan.reserve = request.reserve
         /\ plan.soft = SoftDeadline
         /\ plan.maxReviews = (IF Collab THEN MaxReviews ELSE 0)
         /\ plan.maxAttempts = request.maxAttempts
         /\ plan.reviewerTimeout = request.reviewerTimeout
         /\ plan.revisionTimeout = request.revisionTimeout
         /\ plan.silence = request.silence /\ plan.minTurn = request.minTurn
BY DEF PlanInv, NewPlan

LEMMA PlanIsAccepted ==
  ASSUME PlanInv, Planned, RegistryAgrees
  PROVE  Agent!PlanAccepted(AgentPlan(plan))
<1> DEFINE p == AgentPlan(plan)
           m == AgentRole(roles.modifier)
           r == AgentRole(roles.reviewer)
<1>1. /\ p.sound /\ p.topology = Topology
      /\ p.workflow = IF Collab THEN "review-loop" ELSE "single"
      /\ p.modifier = m /\ p.reviewer = r
  BY PlanIsItsParts DEF AgentPlan
<1>2. ProfilesChecked /\ RolesChecked
  BY DEF PlanInv
<1>3. /\ RoleFits(roles.modifier, AskedName("modifier"), AskedModel("modifier"))
      /\ Collab => RoleFits(roles.reviewer, AskedName("reviewer"), AskedModel("reviewer"))
      /\ ~Collab => roles.reviewer = NoProfile
  BY <1>2, RolesFit
<1>4. m # Agent!NoRole /\ (Collab <=> r # Agent!NoRole)
  <2>1. ~Collab => r = Agent!NoRole
    BY <1>3 DEF AgentRole, NoProfile, Agent!NoRole
  <2> QED
    BY <1>3, <2>1, NoRoleFits
<1>5. \A x \in Agent!RolesOf(p) :
        /\ x.adapter \in Agent!Adapters /\ Agent!ConfigFits(x)
        /\ \E name \in DOMAIN registry :
             /\ x.adapter = registry[name].adapter /\ x.config = registry[name].config
             /\ x.adapter = "kimi" => x.model = registry[name].model
  <2> SUFFICES ASSUME NEW x \in Agent!RolesOf(p)
               PROVE  /\ x.adapter \in Agent!Adapters /\ Agent!ConfigFits(x)
                      /\ \E name \in DOMAIN registry :
                           /\ x.adapter = registry[name].adapter
                           /\ x.config = registry[name].config
                           /\ x.adapter = "kimi" => x.model = registry[name].model
    OBVIOUS
  <2>1. \/ x = m
        \/ x = r /\ Collab
    BY <1>1, <1>4 DEF Agent!RolesOf
  <2>2. ASSUME NEW q, NEW name, NEW model, RoleFits(q, name, model), x = AgentRole(q)
        PROVE  /\ x.adapter \in Agent!Adapters /\ Agent!ConfigFits(x)
               /\ name \in DOMAIN registry
               /\ x.adapter = registry[name].adapter /\ x.config = registry[name].config
               /\ x.adapter = "kimi" => x.model = registry[name].model
    <3>1. x.adapter = q.adapter /\ x.config = q.config /\ x.model = q.model
      BY <2>2 DEF AgentRole
    <3> QED
      BY <2>2, <3>1 DEF RoleFits, Agent!ConfigFits
  <2> QED
    BY <1>3, <2>1, <2>2
<1>6. Agent!AdaptersIn(p) \subseteq Agent!Adapters /\ \A x \in Agent!RolesOf(p) : Agent!ConfigFits(x)
  BY <1>5 DEF Agent!AdaptersIn
<1>7. Agent!NoConflict(p)
  <2> SUFFICES ASSUME NEW x \in Agent!RolesOf(p), NEW y \in Agent!RolesOf(p),
                      x.adapter = "kimi", y.adapter = "kimi", x.model = y.model
               PROVE  x.config = y.config
    BY DEF Agent!NoConflict, Agent!KimiRoles
  <2>1. PICK a \in DOMAIN registry :
          /\ x.adapter = registry[a].adapter /\ x.config = registry[a].config
          /\ x.adapter = "kimi" => x.model = registry[a].model
    BY <1>5
  <2>2. PICK b \in DOMAIN registry :
          /\ y.adapter = registry[b].adapter /\ y.config = registry[b].config
          /\ y.adapter = "kimi" => y.model = registry[b].model
    BY <1>5
  <2>3. {registry[a].adapter, registry[b].adapter} = {"kimi"} /\ registry[a].model = registry[b].model
    BY <2>1, <2>2
  <2> QED
    BY <2>1, <2>2, <2>3 DEF RegistryAgrees
<1>8. /\ p.topology \in {"single", "collab"} /\ (p.topology = "collab" <=> Collab)
      /\ p.workflow = IF p.topology = "single" THEN "single" ELSE "review-loop"
  BY <1>1 DEF Topology
<1> QED
  BY <1>1, <1>4, <1>6, <1>7, <1>8 DEF Agent!PlanAccepted

\* The durations of a plan that the launcher made, if each is a number: every check of
\* the budget, which refuses nothing about NaN, then says what it seems to say.
LEMMA BudgetOfNumbers ==
  ASSUME PlanInv, Planned, FiniteDurations
  PROVE  /\ {timeout, request.multiplier, request.reserve, request.silence,
             request.minTurn, HardTimeout, SoftDeadline} \subseteq Int
         /\ PhaseTimeouts \subseteq Int
         /\ HardTimeout = timeout * request.multiplier
         /\ SoftDeadline + request.reserve = HardTimeout
         /\ SoftDeadline > 0 /\ request.silence > 0 /\ request.minTurn > 0
         /\ request.maxAttempts >= 1 /\ (Collab => MaxReviews >= 1)
         /\ ~Collab => PhaseTimeouts = {}
         /\ \A t \in PhaseTimeouts : t > 0 /\ t >= request.minTurn
<1>1. BudgetFits /\ TasksChecked /\ request \in Requests
  BY DEF PlanInv
<1>2. \A x \in Numbers(plan) : Finite(x)
  BY DEF FiniteDurations
<1>3. /\ {timeout, request.multiplier, request.reserve, request.silence, request.minTurn,
          HardTimeout, SoftDeadline} \subseteq Numbers(plan)
      /\ PhaseTimeouts \subseteq Numbers(plan)
  BY PlanIsItsParts DEF Numbers, PhaseTimeouts
<1>4. /\ {request.multiplier, request.reserve, request.silence, request.minTurn} \subseteq Number
      /\ PhaseTimeouts \subseteq Number /\ request.maxAttempts \in Int /\ MaxReviews \in Int
      /\ timeout \in Int
  <2>1. PICK t \in Int : Timeouts(request.tasks) = {t}
    BY <1>1, OneTimeout DEF TasksChecked
  <2>2. timeout \in Int
    BY <1>1, <2>1 DEF TasksChecked
  <2> QED
    BY <1>1, <2>2, ConstantsAssumption
       DEF InputAssumption, Optional, PhaseTimeouts, MaxReviews
<1>5. HardTimeout \in Number /\ SoftDeadline \in Number
  BY <1>4, ArithmeticType, IntegersAreFinite DEF HardTimeout, SoftDeadline
<1>6. /\ {timeout, request.multiplier, request.reserve, request.silence,
          request.minTurn, HardTimeout, SoftDeadline} \subseteq Int
      /\ PhaseTimeouts \subseteq Int
  BY <1>2, <1>3, <1>4, <1>5, FiniteIsInteger
<1>7. HardTimeout = timeout * request.multiplier /\ SoftDeadline = HardTimeout - request.reserve
  <2>1. \A x \in Int, y \in Int : Times(x, y) = x * y /\ Minus(x, y) = x - y
    BY IntegersAreFinite DEF Times, Minus, Finite
  <2> QED
    BY <1>6, <2>1 DEF HardTimeout, SoftDeadline
<1>8. SoftDeadline > 0 /\ request.silence > 0 /\ request.minTurn > 0
  BY <1>1, <1>6, ComparisonOfIntegers DEF BudgetFits
<1>9. \A t \in PhaseTimeouts : t > 0 /\ t >= request.minTurn
  BY <1>1, <1>6, ComparisonOfIntegers DEF BudgetFits, PhaseTimeoutsFit
<1>10. /\ request.maxAttempts >= 1 /\ (Collab => MaxReviews >= 1)
       /\ ~Collab => PhaseTimeouts = {}
  BY <1>1 DEF BudgetFits
<1> QED
  BY <1>6, <1>7, <1>8, <1>9, <1>10

LEMMA RuntimeRunsPlan ==
  ASSUME PlanInv, Planned, FiniteDurations
  PROVE  RuntimeAccepts(plan)
<1>1. \A x \in Numbers(plan) : Finite(x)
  BY DEF FiniteDurations
<1>2. plan.topology = "collab" <=> Collab
  BY PlanIsItsParts DEF Topology
<1>3. {plan.reviewerTimeout, plan.revisionTimeout} \ {None} = PhaseTimeouts
  BY PlanIsItsParts DEF PhaseTimeouts
<1>4. plan.topology = "single" => {plan.reviewerTimeout, plan.revisionTimeout} = {None}
  BY <1>3, BudgetOfNumbers, PlanIsItsParts DEF Topology
<1> QED
  BY <1>1, <1>2, <1>3, <1>4, BudgetOfNumbers, PlanIsItsParts DEF RuntimeAccepts

LEMMA PlanFits == PlanInv => PlanFitsEngine
<1> SUFFICES ASSUME PlanInv, Planned, FiniteDurations PROVE PlanFitsEngine
  BY DEF PlanFitsEngine
<1>1. \A n \in request.tasks : TaskTable[n].timeout = timeout
  <2>1. TasksChecked /\ request \in Requests
    BY DEF PlanInv
  <2>2. PICK t : Timeouts(request.tasks) = {t} /\ \A n \in request.tasks : TaskTable[n].timeout = t
    BY <2>1, OneTimeout DEF TasksChecked
  <2> QED
    BY <2>1, <2>2 DEF TasksChecked
<1>2. {plan.reviewerTimeout, plan.revisionTimeout} \ {None} = PhaseTimeouts
  BY PlanIsItsParts DEF PhaseTimeouts
<1>3. plan.topology = "collab" => Collab
  BY PlanIsItsParts DEF Topology
<1> QED
  BY <1>1, <1>2, <1>3, BudgetOfNumbers, PlanIsItsParts DEF PlanFitsEngine

LEMMA AsAsked == PlanInv => RolesAsAsked
<1> SUFFICES ASSUME PlanInv, Planned, NEW role \in {"modifier", "reviewer"}
             PROVE  plan[role] # NoProfile =>
                      /\ plan[role].status = "unverified" => request.allowUnverified
                      /\ plan[role].model # registry[AskedName(role)].model =>
                           plan[role].model = AskedModel(role) /\ plan[role].adapter # "kimi"
  BY DEF RolesAsAsked, AskedName, AskedModel
<1>1. ProfilesChecked /\ RolesChecked
  BY DEF PlanInv
<1>2. plan["modifier"] = roles.modifier /\ plan["reviewer"] = roles.reviewer
  BY PlanIsItsParts
<1>3. CASE role = "modifier"
  <2>1. RoleFits(roles.modifier, AskedName("modifier"), AskedModel("modifier"))
    BY <1>1, RolesFit
  <2> QED
    BY <1>2, <1>3, <2>1 DEF RoleFits
<1>4. CASE role = "reviewer"
  <2>1. Collab => RoleFits(roles.reviewer, AskedName("reviewer"), AskedModel("reviewer"))
    BY <1>1, RolesFit
  <2>2. ~Collab => roles.reviewer = NoProfile
    BY <1>1, RolesFit
  <2> QED
    BY <1>2, <1>4, <2>1, <2>2 DEF RoleFits
<1> QED
  BY <1>3, <1>4

\* The hosts of the two roles, one by one: a role that is not there has none, and what
\* is left out of a role for the agent decides nothing about its hosts.
LEMMA PolicyAgrees == PlanInv => PolicyIsAllowlist
<1> SUFFICES ASSUME PlanInv, Planned
             PROVE  Policy(plan) = Agent!Allowlist(AgentPlan(plan))
  BY DEF PolicyIsAllowlist
<1> DEFINE p == AgentPlan(plan)
           Both == {plan.modifier, plan.reviewer}
           Open(r) == r.adapter = "opencode" /\ r.model \in Providers
<1>1. Agent!RolesOf(p) = {AgentRole(r) : r \in Both} \ {Agent!NoRole}
  BY DEF AgentPlan, Agent!RolesOf
<1>2. \A r : /\ AgentRole(r).adapter = r.adapter /\ AgentRole(r).model = r.model
  BY DEF AgentRole
<1>3. Agent!NoRole.adapter = "none"
  BY DEF Agent!NoRole
<1>4. Agent!OwnHosts("none") = {}
  BY DEF Agent!OwnHosts
<1>5. UNION {Agent!OwnHosts(r.adapter) : r \in Both}
        = UNION {Agent!OwnHosts(a) : a \in Agent!AdaptersIn(p)}
  <2>1. ASSUME NEW r \in Both, NEW h \in Agent!OwnHosts(r.adapter)
        PROVE  r.adapter \in Agent!AdaptersIn(p)
    <3>1. r.adapter # "none"
      BY <2>1, <1>4
    <3>2. AgentRole(r) \in Agent!RolesOf(p) /\ AgentRole(r).adapter = r.adapter
      BY <1>1, <1>2, <1>3, <3>1
    <3> QED
      BY <3>2 DEF Agent!AdaptersIn
  <2>2. ASSUME NEW a \in Agent!AdaptersIn(p)
        PROVE  \E r \in Both : r.adapter = a
    BY <1>1, <1>2 DEF Agent!AdaptersIn
  <2> QED
    BY <2>1, <2>2
<1>6. {r.model : r \in {s \in Both : Open(s)}} = Agent!OpenCodeHosts(p)
  <2>1. ASSUME NEW r \in Both, Open(r)
        PROVE  r.model \in Agent!OpenCodeHosts(p)
    <3>1. AgentRole(r) \in Agent!RolesOf(p) /\ Open(AgentRole(r)) /\ AgentRole(r).model = r.model
      BY <2>1, <1>1, <1>2, <1>3
    <3> QED
      BY <3>1 DEF Agent!OpenCodeHosts
  <2>2. ASSUME NEW x \in Agent!RolesOf(p), Open(x)
        PROVE  \E r \in Both : Open(r) /\ r.model = x.model
    BY <1>1, <1>2, <2>2
  <2> QED
    BY <2>1, <2>2 DEF Agent!OpenCodeHosts
<1>7. Agent!Allowlist(p)
        = (UNION {Agent!OwnHosts(a) : a \in Agent!AdaptersIn(p)}) \union Agent!OpenCodeHosts(p)
  BY DEF Agent!Allowlist
<1> QED
  BY <1>5, <1>6, <1>7 DEF Policy

LEMMA TypesFollow == PlanInv => PlanTypeOK
<1> SUFFICES ASSUME PlanInv PROVE PlanTypeOK
  OBVIOUS
<1>1. timeout \in Int
  <2>1. CASE TasksChecked
    <3>1. PICK t \in Int : Timeouts(request.tasks) = {t}
      BY <2>1, OneTimeout DEF TasksChecked, PlanInv
    <3> QED
      BY <2>1, <3>1 DEF TasksChecked
  <2> QED
    BY <2>1 DEF PlanInv
<1>2. /\ \A r \in {roles.modifier, roles.reviewer} : r.adapter \in Agent!Adapters \union {"none"}
      /\ roles.reviewer = NoProfile <=> ~(Collab /\ roles # NoRoles)
  <2>1. CASE roles = NoRoles
    BY <2>1 DEF NoRoles, NoProfile
  <2>2. CASE ProfilesChecked /\ RolesChecked
    <3>1. /\ RoleFits(roles.modifier, AskedName("modifier"), AskedModel("modifier"))
          /\ Collab => RoleFits(roles.reviewer, AskedName("reviewer"), AskedModel("reviewer"))
          /\ ~Collab => roles.reviewer = NoProfile
      BY <2>2, RolesFit
    <3>2. roles.modifier # NoProfile /\ (Collab => roles.reviewer # NoProfile)
      BY <3>1, NoRoleFits
    <3>3. roles # NoRoles
      BY <3>2 DEF NoRoles
    <3> QED
      BY <3>1, <3>2, <3>3 DEF RoleFits, NoProfile
  <2> QED
    BY <2>1, <2>2 DEF PlanInv
<1>3. Planned => plan.topology = Topology
  BY PlanIsItsParts
<1> QED
  BY <1>1, <1>2, <1>3 DEF PlanTypeOK, PlanInv, Planned, Refused

LEMMA FailuresExplained ==
  ASSUME PlanInv, FailureInv, [PlanNext]_planVars
  PROVE  FailureInv'
<1> USE DEF Planned, Continue
<1>u. ASSUME UNCHANGED <<registry, plan, gate>>
      PROVE  FailureInv'
  BY <1>u DEF FailureInv, RegistryAgrees, FiniteDurations, Numbers, Finite
<1>1. CASE SelectTasks \/ LoadProfiles \/ ResolveRoles \/ BuildPlan \/ Launch
  <2>1. gate' \notin {"failed", "running"}
    BY <1>1 DEF SelectTasks, LoadProfiles, ResolveRoles, BuildPlan, Launch
  <2> QED
    BY <2>1 DEF FailureInv
<1>2. CASE ConstructAgent
  <2>1. gate' = "failed" => ~RegistryAgrees
    BY <1>2, PlanIsAccepted DEF ConstructAgent
  <2>2. UNCHANGED RegistryAgrees /\ gate' # "running"
    BY <1>2 DEF ConstructAgent, RegistryAgrees
  <2> QED
    BY <2>1, <2>2 DEF FailureInv
<1>3. CASE ParseConfig
  <2>1. gate' = "failed" => ~FiniteDurations
    BY <1>3, RuntimeRunsPlan DEF ParseConfig
  <2>2. gate' = "running" => FiniteDurations
    BY <1>3 DEF ParseConfig, RuntimeAccepts, FiniteDurations
  <2>3. FiniteDurations' <=> FiniteDurations
    BY <1>3 DEF ParseConfig, FiniteDurations, Numbers, Finite
  <2> QED
    BY <1>3, <2>1, <2>2, <2>3 DEF FailureInv, ParseConfig
<1>4. CASE PlanDone \/ UNCHANGED planVars
  BY <1>4, <1>u DEF PlanDone, planVars
<1> QED
  BY <1>1, <1>2, <1>3, <1>4 DEF PlanNext

LEMMA PlanInvariance == PlanSpec => [](PlanInv /\ FailureInv)
<1>1. PlanInit => PlanInv /\ FailureInv
  <2>1. PlanInit => FailureInv
    BY DEF PlanInit, FailureInv
  <2> QED
    BY <2>1, PlanInvInit
<1>2. PlanInv /\ FailureInv /\ [PlanNext]_planVars => (PlanInv /\ FailureInv)'
  BY PlanInvStep, FailuresExplained
<1> QED
  BY <1>1, <1>2, PTL DEF PlanSpec

\* Every variable of the planning has its type, whatever is asked for and on file.
THEOREM PlanningTypeOK == PlanSpec => []PlanTypeOK
BY PlanInvariance, TypesFollow, PTL

\* A plan that the launcher lets through is refused neither by the agent nor by the
\* runtime, with the two exceptions, and gives the engine the time it relies on.
THEOREM LaunchedPlanRunsHolds == PlanSpec => []LaunchedPlanRuns
<1>1. PlanInv /\ FailureInv => LaunchedPlanRuns
  BY PlanFits DEF FailureInv, LaunchedPlanRuns
<1> QED
  BY <1>1, PlanInvariance, PTL

\* Every role is the profile that was asked for, and the run's record of the hosts it
\* may reach is the list the agent hands to Pier.
THEOREM PlanAsAskedHolds == PlanSpec => []PlanAsAsked
<1>1. PlanInv => PlanAsAsked
  BY AsAsked, PolicyAgrees DEF PlanAsAsked
<1> QED
  BY <1>1, PlanInvariance, PTL

-----------------------------------------------------------------------------
(* Sums over finite sets: the selection's quotas and means are made of them. *)

\* A set of numbers that is not empty has a least one.
LEMMA LeastNumber ==
  ASSUME NEW S \in SUBSET Nat, S # {}
  PROVE  \E n \in S : \A m \in S : n <= m
<1>1. IsWellFoundedOn(OpToRel(<, Nat), Nat)
  BY NatLessThanWellFounded
<1>2. PICK n \in S : \A m \in S : ~(<<m, n>> \in OpToRel(<, Nat))
  BY <1>1, WFMin
<1>3. \A m \in S : ~(m < n)
  BY <1>2 DEF OpToRel
<1> QED
  BY <1>3

\* Induction over the subsets of a finite set, where the property is a set.
LEMMA SubsetInduction ==
  ASSUME NEW S, IsFiniteSet(S), NEW P,
         \A T \in SUBSET S : (\A x \in T : T \ {x} \in P) => T \in P
  PROVE  \A T \in SUBSET S : T \in P
<1> SUFFICES ASSUME NEW U \in SUBSET S, U \notin P PROVE FALSE
  OBVIOUS
<1> DEFINE Bad == {Cardinality(T) : T \in {T \in SUBSET S : T \notin P}}
<1>1. \A T \in SUBSET S : IsFiniteSet(T) /\ Cardinality(T) \in Nat
  BY FS_Subset, FS_CardinalityType
<1>2. Bad \in SUBSET Nat /\ Bad # {}
  BY <1>1
<1>3. PICK n \in Bad : \A m \in Bad : n <= m
  BY <1>2, LeastNumber
<1>4. PICK T \in SUBSET S : T \notin P /\ Cardinality(T) = n
  BY <1>3
<1>5. ASSUME NEW x \in T PROVE T \ {x} \in P
  <2> SUFFICES ASSUME T \ {x} \notin P PROVE FALSE
    OBVIOUS
  <2>1. T \ {x} \in SUBSET S
    OBVIOUS
  <2>2. Cardinality(T \ {x}) \in Bad
    BY <2>1
  <2>3. Cardinality(T \ {x}) = n - 1
    BY <1>1, <1>4, FS_RemoveElement
  <2>4. n \in Nat /\ n <= n - 1
    BY <1>2, <1>3, <2>2, <2>3
  <2> QED
    BY <2>4
<1> QED
  BY <1>4, <1>5

Some(s) == CHOOSE x \in s : TRUE

\* The element a fold takes next is one of the set's.
LEMMA SomeIsMember == ASSUME NEW s, s # {} PROVE Some(s) \in s
BY DEF Some

\* The function a sum over S is computed with.
IsPartialSums(f, S, h) ==
  f = [s \in SUBSET S |-> IF s = {} THEN 0 ELSE h[Some(s)] + f[s \ {Some(s)}]]

\* What the library's sum stands for.
LEMMA SumUnfolds ==
  ASSUME NEW S, NEW h
  PROVE  SumFunctionOnSet(h, S) = (CHOOSE f : IsPartialSums(f, S, h))[S]
BY DEF SumFunctionOnSet, FoldFunctionOnSet, MapThenFoldSet, IsPartialSums, Some

\* There is such a function, whatever is summed, since the set is finite.
LEMMA PartialSumsExist ==
  ASSUME NEW S, IsFiniteSet(S), NEW h
  PROVE  \E f : IsPartialSums(f, S, h)
<1> DEFINE Upto(n) == {T \in SUBSET S : Cardinality(T) <= n}
           Body(f, s) == IF s = {} THEN 0 ELSE h[Some(s)] + f[s \ {Some(s)}]
           Fine == {n \in Nat : \E f : f = [s \in Upto(n) |-> Body(f, s)]}
<1>0. \A T \in SUBSET S : IsFiniteSet(T) /\ Cardinality(T) \in Nat
  BY FS_Subset, FS_CardinalityType
<1>1. 0 \in Fine
  <2>1. \A T \in Upto(0) : T = {}
    BY <1>0, FS_EmptySet
  <2> DEFINE f == [s \in Upto(0) |-> 0]
  <2>2. f = [s \in Upto(0) |-> Body(f, s)]
    BY <2>1
  <2> QED
    BY <2>2
<1>2. ASSUME NEW n \in Fine PROVE n + 1 \in Fine
  <2>1. PICK f : f = [s \in Upto(n) |-> Body(f, s)]
    OBVIOUS
  <2> DEFINE g == [s \in Upto(n + 1) |-> Body(f, s)]
  <2>2. ASSUME NEW s \in Upto(n + 1), s # {} PROVE g[s \ {Some(s)}] = f[s \ {Some(s)}]
    <3>1. Some(s) \in s
      BY <2>2, SomeIsMember
    <3>2. Cardinality(s \ {Some(s)}) = Cardinality(s) - 1
      BY <1>0, <3>1, FS_RemoveElement
    <3>3. s \ {Some(s)} \in Upto(n) /\ s \ {Some(s)} \in Upto(n + 1)
      BY <1>0, <3>2
    <3> HIDE DEF Body, Upto
    <3> QED
      BY <2>1, <3>3
  <2>3. g = [s \in Upto(n + 1) |-> Body(g, s)]
    <3> SUFFICES ASSUME NEW s \in Upto(n + 1) PROVE Body(f, s) = Body(g, s)
      OBVIOUS
    <3> QED
      BY <2>2
  <2>4. \E e : e = [s \in Upto(n + 1) |-> Body(e, s)]
    <3> HIDE DEF g, Body, Upto
    <3> QED
      BY <2>3
  <2>5. n + 1 \in Nat
    OBVIOUS
  <2> HIDE DEF g, Body, Upto
  <2> QED
    BY <2>4, <2>5
<1>3. Cardinality(S) \in Fine
  <2> SUFFICES ASSUME NEW m \in Nat, m \notin Fine PROVE FALSE
    BY <1>0
  <2>1. PICK k \in Nat \ Fine : \A l \in Nat \ Fine : k <= l
    <3>1. Nat \ Fine \in SUBSET Nat /\ Nat \ Fine # {}
      OBVIOUS
    <3> HIDE DEF Fine
    <3> QED
      BY <3>1, LeastNumber
  <2> HIDE DEF Fine
  <2>2. k # 0
    BY <1>1
  <2>3. k - 1 \in Nat /\ k - 1 \in Fine
    BY <2>1, <2>2
  <2>4. (k - 1) + 1 \in Fine
    BY <1>2, <2>3
  <2> QED
    BY <2>1, <2>4
<1>4. Upto(Cardinality(S)) = SUBSET S
  BY <1>0, FS_Subset
<1> QED
  BY <1>3, <1>4 DEF IsPartialSums

\* One unfolding of it.
LEMMA PartialSumsStep ==
  ASSUME NEW S, NEW h, NEW f, IsPartialSums(f, S, h), NEW T \in SUBSET S
  PROVE  f[T] = IF T = {} THEN 0 ELSE h[Some(T)] + f[T \ {Some(T)}]
BY DEF IsPartialSums

\* So a sum is the value of such a function.
LEMMA SumIsPartialSum ==
  ASSUME NEW S, IsFiniteSet(S), NEW h
  PROVE  \E f : IsPartialSums(f, S, h) /\ SumFunctionOnSet(h, S) = f[S]
<1>1. \E f : IsPartialSums(f, S, h)
  BY PartialSumsExist
<1>2. IsPartialSums(CHOOSE f : IsPartialSums(f, S, h), S, h)
  <2> HIDE DEF IsPartialSums
  <2> QED
    BY <1>1
<1> QED
  BY <1>2, SumUnfolds

\* Two functions agree on a set.
SameOn(R, h, k) == \A x \in R : h[x] = k[x]

\* It does not matter for which larger set the partial sums were made.
LEMMA PartialSumsAgree ==
  ASSUME NEW S, IsFiniteSet(S), NEW R \in SUBSET S, NEW f, NEW g, NEW h, NEW k,
         IsPartialSums(f, S, h), IsPartialSums(g, R, k), SameOn(R, h, k)
  PROVE  \A T \in SUBSET R : f[T] = g[T]
<1> DEFINE P == {T \in SUBSET R : f[T] = g[T]}
<1>1. ASSUME NEW T \in SUBSET R, \A x \in T : T \ {x} \in P
      PROVE  T \in P
  <2>1. CASE T = {}
    <3>1. f[T] = 0 /\ g[T] = 0
      BY <2>1, PartialSumsStep
    <3> QED
      BY <3>1
  <2>2. CASE T # {}
    <3>1. Some(T) \in T
      BY <2>2, SomeIsMember
    <3>2. f[T \ {Some(T)}] = g[T \ {Some(T)}]
      BY <1>1, <3>1
    <3>3. /\ f[T] = h[Some(T)] + f[T \ {Some(T)}]
          /\ g[T] = k[Some(T)] + g[T \ {Some(T)}]
      BY <2>2, PartialSumsStep
    <3>4. h[Some(T)] = k[Some(T)]
      BY <3>1 DEF SameOn
    <3> QED
      BY <3>2, <3>3, <3>4
  <2> QED
    BY <2>1, <2>2
<1> HIDE DEF P
<1>2. IsFiniteSet(R)
  BY FS_Subset
<1>3. \A T \in SUBSET R : T \in P
  BY <1>1, <1>2, SubsetInduction
<1> QED
  BY <1>3 DEF P

\* The sum over nothing is 0.
LEMMA SumEmpty == \A h : SumFunctionOnSet(h, {}) = 0
<1> SUFFICES ASSUME NEW h PROVE SumFunctionOnSet(h, {}) = 0
  OBVIOUS
<1>1. IsFiniteSet({})
  BY FS_EmptySet
<1>2. PICK f : IsPartialSums(f, {}, h) /\ SumFunctionOnSet(h, {}) = f[{}]
  BY <1>1, SumIsPartialSum
<1> QED
  BY <1>2, PartialSumsStep

\* The sum over a set is its next element's and that of the rest.
LEMMA SumSome ==
  ASSUME NEW S, IsFiniteSet(S), S # {}, NEW h
  PROVE  SumFunctionOnSet(h, S) = h[Some(S)] + SumFunctionOnSet(h, S \ {Some(S)})
<1> DEFINE R == S \ {Some(S)}
<1>1. IsFiniteSet(R)
  BY FS_Subset
<1>2. PICK f : IsPartialSums(f, S, h) /\ SumFunctionOnSet(h, S) = f[S]
  BY SumIsPartialSum
<1>3. PICK g : IsPartialSums(g, R, h) /\ SumFunctionOnSet(h, R) = g[R]
  BY <1>1, SumIsPartialSum
<1>4. f[R] = g[R]
  BY <1>2, <1>3, PartialSumsAgree DEF SameOn
<1>5. f[S] = h[Some(S)] + f[R]
  BY <1>2, PartialSumsStep
<1> QED
  BY <1>2, <1>3, <1>4, <1>5

\* A sum sees only the values of its function on its set.
LEMMA SumOfEqual ==
  ASSUME NEW S, IsFiniteSet(S), NEW h, NEW k, \A x \in S : h[x] = k[x]
  PROVE  SumFunctionOnSet(h, S) = SumFunctionOnSet(k, S)
<1>1. PICK f : IsPartialSums(f, S, h) /\ SumFunctionOnSet(h, S) = f[S]
  BY SumIsPartialSum
<1>2. PICK g : IsPartialSums(g, S, k) /\ SumFunctionOnSet(k, S) = g[S]
  BY SumIsPartialSum
<1>3. f[S] = g[S]
  <2>1. PICK R \in SUBSET S : R = S
    OBVIOUS
  <2>2. IsPartialSums(g, R, k) /\ SameOn(R, h, k)
    BY <1>2, <2>1 DEF SameOn
  <2>3. \A U \in SUBSET R : f[U] = g[U]
    BY <1>1, <2>2, PartialSumsAgree
  <2> QED
    BY <2>1, <2>3
<1> QED
  BY <1>1, <1>2, <1>3

\* A sum of integers is one.
LEMMA SumType ==
  ASSUME NEW S, IsFiniteSet(S), NEW h, \A x \in S : h[x] \in Int
  PROVE  SumFunctionOnSet(h, S) \in Int
<1> DEFINE P == {T \in SUBSET S : SumFunctionOnSet(h, T) \in Int}
<1>1. ASSUME NEW T \in SUBSET S, \A x \in T : T \ {x} \in P
      PROVE  T \in P
  <2>1. IsFiniteSet(T)
    BY FS_Subset
  <2>2. CASE T = {}
    BY <2>2, SumEmpty
  <2>3. CASE T # {}
    <3>1. Some(T) \in T
      BY <2>3, SomeIsMember
    <3>2. SumFunctionOnSet(h, T \ {Some(T)}) \in Int
      BY <1>1, <3>1
    <3>3. h[Some(T)] \in Int
      BY <3>1
    <3>4. SumFunctionOnSet(h, T) = h[Some(T)] + SumFunctionOnSet(h, T \ {Some(T)})
      BY <2>1, <2>3, SumSome
    <3> QED
      BY <3>2, <3>3, <3>4
  <2> QED
    BY <2>2, <2>3
<1> HIDE DEF P
<1>2. \A T \in SUBSET S : T \in P
  BY <1>1, SubsetInduction
<1> QED
  BY <1>2 DEF P

\* The order of the elements is of no account: any of them may be taken first.
LEMMA SumRemove ==
  ASSUME NEW S, IsFiniteSet(S), NEW h, \A x \in S : h[x] \in Int
  PROVE  \A x \in S : SumFunctionOnSet(h, S) = h[x] + SumFunctionOnSet(h, S \ {x})
<1> DEFINE P == {T \in SUBSET S : \A x \in T :
                   SumFunctionOnSet(h, T) = h[x] + SumFunctionOnSet(h, T \ {x})}
<1>1. ASSUME NEW T \in SUBSET S, \A x \in T : T \ {x} \in P
      PROVE  T \in P
  <2> SUFFICES ASSUME NEW x \in T
               PROVE  SumFunctionOnSet(h, T) = h[x] + SumFunctionOnSet(h, T \ {x})
    OBVIOUS
  <2> DEFINE y == Some(T)
  <2>1. y \in T
    BY SomeIsMember
  <2>2. SumFunctionOnSet(h, T) = h[y] + SumFunctionOnSet(h, T \ {y})
    <3>1. IsFiniteSet(T)
      BY FS_Subset
    <3> QED
      BY <3>1, SumSome
  <2> HIDE DEF y
  <2>3. CASE x = y
    BY <2>2, <2>3
  <2>4. CASE x # y
    <3>1. x \in T \ {y} /\ y \in T \ {x} /\ T \ {x} \in P /\ T \ {y} \in P
      BY <1>1, <2>1, <2>4
    <3>2. SumFunctionOnSet(h, T \ {y}) = h[x] + SumFunctionOnSet(h, (T \ {y}) \ {x})
      BY <3>1
    <3>3. SumFunctionOnSet(h, T \ {x}) = h[y] + SumFunctionOnSet(h, (T \ {x}) \ {y})
      BY <3>1
    <3>4. (T \ {x}) \ {y} = (T \ {y}) \ {x}
      OBVIOUS
    <3>5. SumFunctionOnSet(h, (T \ {y}) \ {x}) \in Int
      <4>1. IsFiniteSet((T \ {y}) \ {x})
        BY FS_Subset
      <4> QED
        BY <4>1, SumType
    <3>6. h[x] \in Int /\ h[y] \in Int
      BY <2>1
    <3>7. SumFunctionOnSet(h, T) = h[y] + (h[x] + SumFunctionOnSet(h, (T \ {y}) \ {x}))
      BY <2>2, <3>2
    <3>8. SumFunctionOnSet(h, T \ {x}) = h[y] + SumFunctionOnSet(h, (T \ {y}) \ {x})
      BY <3>3, <3>4
    <3> DEFINE rest == SumFunctionOnSet(h, (T \ {y}) \ {x})
    <3> HIDE DEF rest
    <3>9. h[y] + (h[x] + rest) = h[x] + (h[y] + rest)
      BY <3>5, <3>6 DEF rest
    <3> QED
      BY <3>7, <3>8, <3>9 DEF rest
  <2> QED
    BY <2>3, <2>4
<1> HIDE DEF P
<1>2. \A T \in SUBSET S : T \in P
  BY <1>1, SubsetInduction
<1> QED
  BY <1>2 DEF P

\* The sum over a set and one element more.
LEMMA SumAdd ==
  ASSUME NEW S, IsFiniteSet(S), NEW x, x \notin S, NEW h, \A y \in S \union {x} : h[y] \in Int
  PROVE  SumFunctionOnSet(h, S \union {x}) = h[x] + SumFunctionOnSet(h, S)
<1> DEFINE U == S \union {x}
<1>1. IsFiniteSet(U) /\ x \in U /\ U \ {x} = S
  BY FS_AddElement
<1> HIDE DEF U
<1>2. \A y \in U : h[y] \in Int
  BY DEF U
<1> QED
  BY <1>1, <1>2, SumRemove DEF U

\* f is n times q, and r, on S.
Linear(f, n, q, r, S) ==
  \A x \in S : q[x] \in Int /\ r[x] \in Int /\ f[x] = n * q[x] + r[x]

\* Sums are linear.
LEMMA SumLinear ==
  ASSUME NEW S, IsFiniteSet(S), NEW n \in Int, NEW f, NEW q, NEW r, Linear(f, n, q, r, S)
  PROVE  SumFunctionOnSet(f, S) = n * SumFunctionOnSet(q, S) + SumFunctionOnSet(r, S)
<1> DEFINE P == {T \in SUBSET S : SumFunctionOnSet(f, T) =
                                     n * SumFunctionOnSet(q, T) + SumFunctionOnSet(r, T)}
<1>1. ASSUME NEW T \in SUBSET S, \A x \in T : T \ {x} \in P
      PROVE  T \in P
  <2>1. IsFiniteSet(T) /\ \A x \in T : IsFiniteSet(T \ {x})
    BY FS_Subset
  <2>2. CASE T = {}
    BY <2>2, SumEmpty
  <2>3. CASE T # {}
    <3>1. PICK x \in T : TRUE
      BY <2>3
    <3> DEFINE R == T \ {x}
    <3>2. SumFunctionOnSet(f, R) = n * SumFunctionOnSet(q, R) + SumFunctionOnSet(r, R)
      BY <1>1
    <3>3. q[x] \in Int /\ r[x] \in Int /\ f[x] = n * q[x] + r[x]
      BY DEF Linear
    <3>4. \A y \in T : f[y] \in Int /\ q[y] \in Int /\ r[y] \in Int
      BY DEF Linear
    <3>5. SumFunctionOnSet(q, R) \in Int /\ SumFunctionOnSet(r, R) \in Int
      BY <2>1, <3>4, SumType
    <3>6. SumFunctionOnSet(f, T) = f[x] + SumFunctionOnSet(f, R)
      BY <2>1, <3>4, SumRemove
    <3>7. SumFunctionOnSet(q, T) = q[x] + SumFunctionOnSet(q, R)
      BY <2>1, <3>4, SumRemove
    <3>8. SumFunctionOnSet(r, T) = r[x] + SumFunctionOnSet(r, R)
      BY <2>1, <3>4, SumRemove
    <3> DEFINE a == SumFunctionOnSet(q, R)
               b == SumFunctionOnSet(r, R)
    <3> HIDE DEF a, b, R
    <3>9. (n * q[x] + r[x]) + (n * a + b) = n * (q[x] + a) + (r[x] + b)
      BY <3>3, <3>5 DEF a, b
    <3> QED
      BY <3>2, <3>3, <3>6, <3>7, <3>8, <3>9 DEF a, b
  <2> QED
    BY <2>2, <2>3
<1> HIDE DEF P
<1>2. \A T \in SUBSET S : T \in P
  BY <1>1, SubsetInduction
<1> QED
  BY <1>2 DEF P

\* Where a function is positive.
Positive(h, S) == {x \in S : h[x] > 0}

\* A sum of naturals is no more than its bound for each that is not 0.
LEMMA SumBounds ==
  ASSUME NEW S, IsFiniteSet(S), NEW c \in Nat, NEW h, \A x \in S : h[x] \in 0..c
  PROVE  /\ SumFunctionOnSet(h, S) \in Nat
         /\ SumFunctionOnSet(h, S) <= c * Cardinality(Positive(h, S))
<1> DEFINE P == {T \in SUBSET S : /\ SumFunctionOnSet(h, T) \in Nat
                                 /\ SumFunctionOnSet(h, T) <= c * Cardinality(Positive(h, T))}
<1>1. ASSUME NEW T \in SUBSET S, \A x \in T : T \ {x} \in P
      PROVE  T \in P
  <2>1. /\ IsFiniteSet(T)
        /\ \A x \in T : IsFiniteSet(Positive(h, T \ {x})) /\ Cardinality(Positive(h, T \ {x})) \in Nat
    BY FS_Subset, FS_CardinalityType DEF Positive
  <2>2. CASE T = {}
    <3>1. Positive(h, {}) = {}
      BY DEF Positive
    <3> QED
      BY <2>2, <3>1, SumEmpty, FS_EmptySet
  <2>3. CASE T # {}
    <3>1. PICK x \in T : TRUE
      BY <2>3
    <3> DEFINE R == T \ {x}
               s == SumFunctionOnSet(h, R)
               k == Cardinality(Positive(h, R))
    <3>2. s \in Nat /\ s <= c * k
      BY <1>1
    <3>3. SumFunctionOnSet(h, T) = h[x] + s
      BY <2>1, SumRemove
    <3>4. Cardinality(Positive(h, T)) = IF h[x] > 0 THEN k + 1 ELSE k
      <4>1. h[x] > 0 => Positive(h, T) = Positive(h, R) \union {x}
        BY DEF Positive
      <4>2. ~(h[x] > 0) => Positive(h, T) = Positive(h, R)
        BY DEF Positive
      <4>3. x \notin Positive(h, R)
        BY DEF Positive
      <4> QED
        BY <2>1, <4>1, <4>2, <4>3, FS_AddElement
    <3>5. k \in Nat /\ h[x] \in 0..c
      BY <2>1
    <3> HIDE DEF R, s, k
    <3>6. c * (k + 1) = c * k + c /\ c * k \in Nat
      BY <3>5
    <3>7. h[x] + s <= c * (IF h[x] > 0 THEN k + 1 ELSE k) /\ h[x] + s \in Nat
      BY <3>2, <3>5, <3>6
    <3> QED
      BY <3>3, <3>4, <3>7
  <2> QED
    BY <2>2, <2>3
<1> HIDE DEF P
<1>2. \A T \in SUBSET S : T \in P
  BY <1>1, SubsetInduction
<1> QED
  BY <1>2 DEF P

\* A sum of ones counts.
LEMMA SumIndicator ==
  ASSUME NEW S, IsFiniteSet(S), NEW Q, NEW h,
         \A x \in S : h[x] = IF x \in Q THEN 1 ELSE 0
  PROVE  SumFunctionOnSet(h, S) = Cardinality(S \intersect Q)
<1> DEFINE P == {T \in SUBSET S : SumFunctionOnSet(h, T) = Cardinality(T \intersect Q)}
<1>1. ASSUME NEW T \in SUBSET S, \A x \in T : T \ {x} \in P
      PROVE  T \in P
  <2>1. /\ IsFiniteSet(T)
        /\ \A x \in T : /\ IsFiniteSet((T \ {x}) \intersect Q)
                        /\ Cardinality((T \ {x}) \intersect Q) \in Nat
    BY FS_Subset, FS_CardinalityType
  <2>2. CASE T = {}
    <3>1. {} \intersect Q = {}
      OBVIOUS
    <3> QED
      BY <2>2, <3>1, SumEmpty, FS_EmptySet
  <2>3. CASE T # {}
    <3>1. PICK x \in T : TRUE
      BY <2>3
    <3> DEFINE R == T \ {x}
               k == Cardinality(R \intersect Q)
    <3>2. SumFunctionOnSet(h, R) = k
      BY <1>1
    <3>3. SumFunctionOnSet(h, T) = h[x] + k
      <4>1. \A y \in T : h[y] \in Int
        OBVIOUS
      <4> QED
        BY <2>1, <3>2, <4>1, SumRemove
    <3>4. Cardinality(T \intersect Q) = IF x \in Q THEN k + 1 ELSE k
      <4>1. x \in Q => T \intersect Q = (R \intersect Q) \union {x}
        OBVIOUS
      <4>2. x \notin Q => T \intersect Q = R \intersect Q
        OBVIOUS
      <4>3. x \notin R \intersect Q
        OBVIOUS
      <4> QED
        BY <2>1, <4>1, <4>2, <4>3, FS_AddElement
    <3>5. k \in Nat /\ h[x] = IF x \in Q THEN 1 ELSE 0
      BY <2>1
    <3> HIDE DEF R, k
    <3> QED
      BY <3>3, <3>4, <3>5
  <2> QED
    BY <2>2, <2>3
<1> HIDE DEF P
<1>2. \A T \in SUBSET S : T \in P
  BY <1>1, SubsetInduction
<1> QED
  BY <1>2 DEF P

\* One value that changes changes the sum by as much.
LEMMA SumStep ==
  ASSUME NEW S, IsFiniteSet(S), NEW x \in S, NEW d \in Int, NEW f, NEW g,
         \A y \in S : g[y] \in Int /\ f[y] = IF y = x THEN g[y] + d ELSE g[y]
  PROVE  SumFunctionOnSet(f, S) = SumFunctionOnSet(g, S) + d
<1> DEFINE R == S \ {x}
<1>1. IsFiniteSet(R)
  BY FS_Subset
<1>2. \A y \in R : f[y] = g[y]
  OBVIOUS
<1>3. SumFunctionOnSet(f, R) = SumFunctionOnSet(g, R)
  <2> HIDE DEF R
  <2> QED
    BY <1>1, <1>2, SumOfEqual
<1>4. \A y \in S : f[y] \in Int /\ g[y] \in Int
  OBVIOUS
<1>5. SumFunctionOnSet(f, S) = f[x] + SumFunctionOnSet(f, R)
  BY <1>4, SumRemove
<1>6. SumFunctionOnSet(g, S) = g[x] + SumFunctionOnSet(g, R)
  BY <1>4, SumRemove
<1>7. SumFunctionOnSet(g, R) \in Int
  BY <1>1, <1>4, SumType
<1>8. f[x] = g[x] + d /\ g[x] \in Int
  OBVIOUS
<1> HIDE DEF R
<1> QED
  BY <1>3, <1>5, <1>6, <1>7, <1>8

LEMMA KeysFinite ==
  ASSUME NEW S, IsFiniteSet(S), NEW keyOf
  PROVE  IsFiniteSet(Keys(keyOf, S))
<1>1. [t \in S |-> keyOf[t]] \in Surjection(S, Keys(keyOf, S))
  BY DEF Surjection, Keys
<1> QED
  BY <1>1, FS_Surjection

LEMMA CountType ==
  ASSUME NEW S, IsFiniteSet(S), NEW keyOf
  PROVE  \A k : CountOf(k, keyOf, S) \in Nat
BY FS_Subset, FS_CardinalityType DEF CountOf

\* How a count changes with one task more.
LEMMA CountOneMore ==
  ASSUME NEW S, IsFiniteSet(S), NEW keyOf, NEW t, t \notin S
  PROVE  \A k : CountOf(k, keyOf, S \union {t}) =
                  IF k = keyOf[t] THEN CountOf(k, keyOf, S) + 1 ELSE CountOf(k, keyOf, S)
<1> TAKE k
<1> DEFINE C == {u \in S : keyOf[u] = k}
<1>1. IsFiniteSet(C) /\ t \notin C
  BY FS_Subset
<1>2. CASE k = keyOf[t]
  <2>1. {u \in S \union {t} : keyOf[u] = k} = C \union {t}
    BY <1>2
  <2> QED
    BY <1>1, <1>2, <2>1, FS_AddElement DEF CountOf
<1>3. CASE k # keyOf[t]
  <2>1. {u \in S \union {t} : keyOf[u] = k} = C
    BY <1>3
  <2> QED
    BY <1>3, <2>1 DEF CountOf
<1> QED
  BY <1>2, <1>3

\* The counts of the keys add up to the number of tasks.
LEMMA CountsAddUp ==
  ASSUME NEW S, IsFiniteSet(S), NEW keyOf, NEW h,
         \A k \in Keys(keyOf, S) : h[k] = CountOf(k, keyOf, S)
  PROVE  SumFunctionOnSet(h, Keys(keyOf, S)) = Cardinality(S)
<1> DEFINE K == Keys(keyOf, S)
           Counts(U) == [k \in K |-> CountOf(k, keyOf, U)]
           P == {U \in SUBSET S : SumFunctionOnSet(Counts(U), K) = Cardinality(U)}
<1>0. IsFiniteSet(K)
  BY KeysFinite
<1>1. ASSUME NEW U \in SUBSET S, \A t \in U : U \ {t} \in P
      PROVE  U \in P
  <2>1. /\ IsFiniteSet(U)
        /\ \A t \in U : IsFiniteSet(U \ {t}) /\ Cardinality(U \ {t}) = Cardinality(U) - 1
        /\ Cardinality(U) \in Nat
    BY FS_Subset, FS_CardinalityType, FS_RemoveElement
  <2>2. CASE U = {}
    <3>1. \A k \in K : Counts({})[k] = IF k \in {} THEN 1 ELSE 0
      <4>1. \A k : {u \in {} : keyOf[u] = k} = {}
        OBVIOUS
      <4> HIDE DEF K
      <4> QED
        BY <4>1, FS_EmptySet DEF CountOf
    <3>2. SumFunctionOnSet(Counts({}), K) = Cardinality(K \intersect {})
      <4> HIDE DEF K, Counts
      <4> QED
        BY <1>0, <3>1, SumIndicator
    <3>3. K \intersect {} = {}
      OBVIOUS
    <3> QED
      BY <2>2, <3>2, <3>3
  <2>3. CASE U # {}
    <3>1. PICK t \in U : TRUE
      BY <2>3
    <3> DEFINE R == U \ {t}
    <3>2. SumFunctionOnSet(Counts(R), K) = Cardinality(R)
      BY <1>1
    <3>3. keyOf[t] \in K
      BY DEF Keys
    <3>4. \A k \in K : /\ Counts(R)[k] \in Int
                       /\ Counts(U)[k] = IF k = keyOf[t] THEN Counts(R)[k] + 1 ELSE Counts(R)[k]
      <4>1. U = R \union {t} /\ t \notin R
        OBVIOUS
      <4>2. IsFiniteSet(R)
        BY <2>1
      <4> HIDE DEF R, K
      <4> QED
        BY <4>1, <4>2, CountOneMore, CountType
    <3>5. SumFunctionOnSet(Counts(U), K) = SumFunctionOnSet(Counts(R), K) + 1
      <4> HIDE DEF K, Counts, R
      <4> QED
        BY <1>0, <3>3, <3>4, SumStep
    <3>6. Cardinality(R) = Cardinality(U) - 1
      BY <2>1
    <3> HIDE DEF K, Counts, R
    <3>7. SumFunctionOnSet(Counts(U), K) = Cardinality(U)
      BY <2>1, <3>2, <3>5, <3>6
    <3> QED
      BY <3>7
  <2> QED
    BY <2>2, <2>3
<1> HIDE DEF P
<1>2. \A U \in SUBSET S : U \in P
  BY <1>1, SubsetInduction
<1>3. SumFunctionOnSet(Counts(S), K) = Cardinality(S)
  BY <1>2 DEF P
<1>4. \A k \in K : h[k] = Counts(S)[k]
  OBVIOUS
<1>5. SumFunctionOnSet(h, K) = SumFunctionOnSet(Counts(S), K)
  <2> HIDE DEF K, Counts
  <2> QED
    BY <1>0, <1>4, SumOfEqual
<1> QED
  BY <1>3, <1>5

-----------------------------------------------------------------------------
(* The largest remainders.                                                  *)

\* Remainders, then keys, put the keys in a row: as many come among the first m as m
\* says.
LEMMA FirstOfRow ==
  ASSUME NEW D, D \subseteq Int, IsFiniteSet(D), NEW rest \in [D -> Int], NEW m \in Nat, m <= Cardinality(D)
  PROVE  Cardinality({k \in D : Cardinality(Before(rest, k)) < m}) = m
<1> DEFINE N == Cardinality(D)
           rank == [k \in D |-> Cardinality(Before(rest, k))]
<1>1. \A k \in D : /\ Before(rest, k) \in SUBSET (D \ {k})
                   /\ IsFiniteSet(Before(rest, k)) /\ Cardinality(Before(rest, k)) \in Nat
  <2>1. \A k \in D : Before(rest, k) \in SUBSET (D \ {k})
    BY DEF Before
  <2> QED
    BY <2>1, FS_Subset, FS_CardinalityType
<1>2. N \in Nat
  BY FS_CardinalityType
<1>3. \A k \in D : rank[k] \in 0..N-1
  <2> SUFFICES ASSUME NEW k \in D PROVE Cardinality(Before(rest, k)) \in 0..N-1
    OBVIOUS
  <2>1. IsFiniteSet(D \ {k}) /\ Cardinality(D \ {k}) = N - 1
    BY FS_RemoveElement
  <2>2. Cardinality(Before(rest, k)) <= N - 1
    BY <1>1, <2>1, FS_Subset
  <2> QED
    BY <1>1, <1>2, <2>2
<1>4. ASSUME NEW k \in D, NEW l \in Before(rest, k)
      PROVE  Cardinality(Before(rest, l)) < Cardinality(Before(rest, k))
  <2>0. DOMAIN rest = D /\ \A d \in D : d \in Int /\ rest[d] \in Int
    OBVIOUS
  <2>1. l \in D /\ l \notin Before(rest, l)
    BY <2>0 DEF Before
  <2>21. Before(rest, l) \subseteq Before(rest, k)
    <3> SUFFICES ASSUME NEW j \in Before(rest, l) PROVE j \in Before(rest, k)
      OBVIOUS
    <3>1. j \in D /\ (rest[j] > rest[l] \/ (rest[j] = rest[l] /\ j < l))
      BY <2>0 DEF Before
    <3>2. rest[l] > rest[k] \/ (rest[l] = rest[k] /\ l < k)
      BY DEF Before
    <3>3. rest[j] > rest[k] \/ (rest[j] = rest[k] /\ j < k)
      BY <2>0, <2>1, <3>1, <3>2
    <3> QED
      BY <2>0, <3>1, <3>3 DEF Before
  <2>2. Before(rest, l) \in SUBSET Before(rest, k) /\ Before(rest, l) # Before(rest, k)
    BY <2>1, <2>21
  <2>3. /\ IsFiniteSet(Before(rest, k))
        /\ Cardinality(Before(rest, k)) \in Nat /\ Cardinality(Before(rest, l)) \in Nat
    BY <1>1, <2>1
  <2> QED
    BY <2>2, <2>3, FS_Subset
<1>5. \A k, l \in D : k # l => l \in Before(rest, k) \/ k \in Before(rest, l)
  BY DEF Before
<1>6. \A k, l \in D : rank[k] = rank[l] => k = l
  <2> SUFFICES ASSUME NEW k \in D, NEW l \in D, k # l,
                      Cardinality(Before(rest, k)) = Cardinality(Before(rest, l))
               PROVE  FALSE
    OBVIOUS
  <2> QED
    BY <1>1, <1>4, <1>5
<1>7. rank \in Injection(D, 0..N-1)
  BY <1>3, <1>6 DEF Injection, IsInjective
<1>8. ASSUME NEW n \in Nat PROVE IsFiniteSet(0..n-1) /\ Cardinality(0..n-1) = n
  <2>1. PICK top \in Int : top = n - 1
    OBVIOUS
  <2>2. IsFiniteSet(0..top) /\ Cardinality(0..top) = IF 0 > top THEN 0 ELSE top - 0 + 1
    BY FS_Interval
  <2> QED
    BY <2>1, <2>2
<1>9. rank \in Surjection(D, 0..N-1)
  <2> HIDE DEF rank
  <2> QED
    BY <1>2, <1>7, <1>8, FS_Injection
<1> DEFINE First == {k \in D : Cardinality(Before(rest, k)) < m}
           f == [k \in First |-> rank[k]]
<1>10. f \in [First -> 0..m-1]
  <2> SUFFICES ASSUME NEW k \in First PROVE rank[k] \in 0..m-1
    OBVIOUS
  <2> QED
    BY <1>1, <1>2
<1>101. f \in Injection(First, 0..m-1)
  <2>1. \A k, l \in First : f[k] = f[l] => k = l
    BY <1>6
  <2> HIDE DEF f, First
  <2> QED
    BY <1>10, <2>1 DEF Injection, IsInjective
<1>11. f \in Surjection(First, 0..m-1)
  <2> SUFFICES ASSUME NEW i \in 0..m-1 PROVE \E k \in First : f[k] = i
    BY <1>10 DEF Surjection
  <2>1. i \in 0..N-1
    BY <1>2
  <2>2. PICK k \in D : rank[k] = i
    <3> HIDE DEF rank
    <3> QED
      BY <1>9, <2>1 DEF Surjection
  <2> QED
    BY <2>2
<1>12. Cardinality(First) = m
  <2> HIDE DEF First, f
  <2> QED
    BY <1>8, <1>101, <1>11, FS_Injection
<1> QED
  BY <1>12

\* Quotient and remainder.
LEMMA DivMod ==
  ASSUME NEW a \in Int, NEW n \in Int, n > 0
  PROVE  /\ a \div n \in Int /\ a % n \in 0..n-1
         /\ a = n * (a \div n) + (a % n)
<1>1. a \div n \in Int
  OBVIOUS
<1>2. a % n \in 0..n-1
  OBVIOUS
<1>3. a = n * (a \div n) + (a % n)
  OBVIOUS
<1> QED
  BY <1>1, <1>2, <1>3

\* The quotas of any finite set of candidates that is no smaller than the sample.
LEMMA QuotasFitAny ==
  ASSUME NEW S, IsFiniteSet(S), NEW keyOf, \A t \in S : keyOf[t] \in Int,
         size \in Nat \ {0}, size <= Cardinality(S)
  PROVE  /\ SumFunctionOnSet(Quotas(keyOf, S), Keys(keyOf, S)) = size
         /\ \A k \in Keys(keyOf, S) :
              LET off == Quotas(keyOf, S)[k] * Cardinality(S) - Shares(keyOf, S)[k]
              IN  off < Cardinality(S) /\ off > -Cardinality(S)
<1> DEFINE K == Keys(keyOf, S)
           n == Cardinality(S)
           counts == [k \in K |-> CountOf(k, keyOf, S)]
           zero == [k \in K |-> 0]
           shares == Shares(keyOf, S)
           floors == Floors(keyOf, S)
           rest == Remainders(keyOf, S)
           over == Left(keyOf, S)
           quotas == Quotas(keyOf, S)
           rank == [k \in K |-> Cardinality(Before(rest, k))]
           extra == [k \in K |-> IF rank[k] < over THEN 1 ELSE 0]
<1>1. IsFiniteSet(K) /\ K \subseteq Int
  BY KeysFinite DEF Keys
<1>2. n \in Nat \ {0}
  BY FS_CardinalityType
<1>3. \A k \in K : counts[k] \in Nat /\ shares[k] = size * counts[k]
  BY CountType DEF Shares
<1>4. \A k \in K : /\ floors[k] \in Int /\ rest[k] \in 0..n-1
                   /\ shares[k] = n * floors[k] + rest[k]
  <2> SUFFICES ASSUME NEW k \in K
               PROVE  /\ floors[k] \in Int /\ rest[k] \in 0..n-1
                      /\ shares[k] = n * floors[k] + rest[k]
    OBVIOUS
  <2>1. shares[k] \in Int
    <3> HIDE DEF counts, shares, K
    <3> QED
      BY <1>3
  <2>2. floors[k] = shares[k] \div n /\ rest[k] = shares[k] % n
    BY DEF Floors, Remainders
  <2> HIDE DEF floors, rest, shares, n
  <2> QED
    BY <1>2, <2>1, <2>2, DivMod
<1>41. \A k \in K : rest[k] \in Int
  <2> HIDE DEF rest, n, K, floors, shares
  <2> QED
    BY <1>2, <1>4
<1>5. rest \in [K -> Int]
  <2>1. DOMAIN rest = K /\ rest = [k \in K |-> rest[k]]
    BY DEF Remainders
  <2> HIDE DEF rest, K, n, floors, shares
  <2> QED
    BY <1>41, <2>1
<1>6. DOMAIN quotas = K /\ \A k \in K : quotas[k] = floors[k] + extra[k]
  BY DEF Quotas
<1>7. SumFunctionOnSet(shares, K) = size * n
  <2>1. SumFunctionOnSet(counts, K) = n
    <3>1. \A k \in K : counts[k] = CountOf(k, keyOf, S)
      OBVIOUS
    <3> HIDE DEF counts
    <3> QED
      BY <3>1, CountsAddUp
  <2>2. SumFunctionOnSet(zero, K) = 0
    <3>1. \A k \in K : zero[k] = IF k \in {} THEN 1 ELSE 0
      OBVIOUS
    <3>2. SumFunctionOnSet(zero, K) = Cardinality(K \intersect {})
      <4> HIDE DEF zero, K
      <4> QED
        BY <1>1, <3>1, SumIndicator
    <3>3. K \intersect {} = {}
      OBVIOUS
    <3> QED
      BY <3>2, <3>3, FS_EmptySet
  <2>3. \A k \in K : counts[k] \in Int /\ zero[k] \in Int /\ shares[k] = size * counts[k] + zero[k]
    <3>1. \A k \in K : zero[k] = 0
      OBVIOUS
    <3> HIDE DEF counts, zero, shares, K
    <3> QED
      BY <1>3, <3>1
  <2>4. SumFunctionOnSet(shares, K) = size * SumFunctionOnSet(counts, K) + SumFunctionOnSet(zero, K)
    <3> HIDE DEF counts, zero, shares, K
    <3>1. Linear(shares, size, counts, zero, K)
      BY <2>3 DEF Linear
    <3> QED
      BY <1>1, <3>1, SumLinear
  <2> HIDE DEF counts, zero, shares, K, n
  <2> QED
    BY <1>2, <2>1, <2>2, <2>4
<1> HIDE DEF counts, zero
<1>8. SumFunctionOnSet(shares, K) = n * SumFunctionOnSet(floors, K) + SumFunctionOnSet(rest, K)
  <2>1. \A k \in K : floors[k] \in Int /\ rest[k] \in Int /\ shares[k] = n * floors[k] + rest[k]
    <3> HIDE DEF floors, rest, shares, K, n
    <3> QED
      BY <1>2, <1>4
  <2> HIDE DEF floors, rest, shares, K, n
  <2>2. Linear(shares, n, floors, rest, K)
    BY <2>1 DEF Linear
  <2> QED
    BY <1>1, <1>2, <2>2, SumLinear
<1>9. over = size - SumFunctionOnSet(floors, K) /\ SumFunctionOnSet(floors, K) \in Int
  <2>1. over = size - SumFunctionOnSet(floors, K)
    <3>1. DOMAIN Floors(keyOf, S) = K
      BY DEF Floors
    <3> QED
      BY <3>1 DEF Left, SumFunction
  <2> HIDE DEF floors, K, over
  <2> QED
    BY <1>1, <1>4, <2>1, SumType
\* What is left over is what the remainders come to.
<1>10. SumFunctionOnSet(rest, K) = n * over
  <2>1. SumFunctionOnSet(rest, K) \in Int
    <3> HIDE DEF rest, K, floors, shares, n
    <3> QED
      BY <1>1, <1>41, SumType
  <2> DEFINE a == SumFunctionOnSet(rest, K)
             b == SumFunctionOnSet(floors, K)
  <2> HIDE DEF a, b, n, over
  <2>2. size * n = n * b + a /\ over = size - b
    BY <1>7, <1>8, <1>9 DEF a, b
  <2>3. a = n * (size - b)
    BY <1>2, <1>9, <2>1, <2>2 DEF a, b
  <2> QED
    BY <2>2, <2>3 DEF a
<1> DEFINE plus == Positive(rest, K)
<1>11. IsFiniteSet(plus) /\ plus \subseteq K /\ Cardinality(plus) \in Nat /\ Cardinality(plus) <= Cardinality(K)
  <2>1. plus \in SUBSET K
    BY DEF Positive
  <2> HIDE DEF plus, K
  <2> QED
    BY <1>1, <2>1, FS_Subset, FS_CardinalityType
<1>12. over \in Nat /\ over <= Cardinality(plus)
  <2>1. n * over \in Nat /\ n * over <= (n - 1) * Cardinality(plus)
    <3>1. n - 1 \in Nat
      BY <1>2
    <3> HIDE DEF rest, K, over, n
    <3> QED
      BY <1>1, <1>4, <1>10, <3>1, SumBounds
  <2>2. over \in Int
    <3> HIDE DEF over, floors, K
    <3> QED
      BY <1>9
  <2> DEFINE p == Cardinality(plus)
  <2> HIDE DEF over, n, p, plus
  <2>3. p \in Nat /\ n * over <= (n - 1) * p
    BY <1>11, <2>1 DEF p
  <2>4. (n - 1) * p <= n * p
    BY <1>2, <2>3
  <2>5. n * over <= n * p
    BY <1>2, <2>1, <2>3, <2>4
  <2>6. over <= p
    BY <1>2, <2>2, <2>3, <2>5
  <2>7. over >= 0
    BY <1>2, <2>1, <2>2
  <2> QED
    BY <2>2, <2>6, <2>7 DEF p
<1>13. SumFunctionOnSet(extra, K) = over
  <2> DEFINE First == {k \in K : Cardinality(Before(rest, k)) < over}
  <2>1. Cardinality(First) = over
    <3>1. Cardinality(K) \in Nat /\ over <= Cardinality(K)
      <4> HIDE DEF K, over, plus
      <4> QED
        BY <1>1, <1>11, <1>12, FS_CardinalityType
    <3> HIDE DEF K, over, rest
    <3> QED
      BY <1>1, <1>5, <1>12, <3>1, FirstOfRow
  <2>2. \A k \in K : extra[k] = IF k \in First THEN 1 ELSE 0
    <3> HIDE DEF K, over, rest
    <3> QED
      OBVIOUS
  <2>3. K \intersect First = First
    OBVIOUS
  <2> HIDE DEF extra, First, K
  <2>4. SumFunctionOnSet(extra, K) = Cardinality(K \intersect First)
    BY <1>1, <2>2, SumIndicator
  <2> QED
    BY <2>1, <2>3, <2>4
<1>14. SumFunctionOnSet(quotas, K) = size
  <2>1. \A k \in K : floors[k] \in Int /\ extra[k] \in Int /\ quotas[k] = 1 * floors[k] + extra[k]
    <3>1. \A k \in K : extra[k] \in Int
      <4> HIDE DEF K, over, rest
      <4> QED
        OBVIOUS
    <3> HIDE DEF floors, extra, quotas, K
    <3> QED
      BY <1>4, <1>6, <3>1
  <2>2. SumFunctionOnSet(quotas, K) = 1 * SumFunctionOnSet(floors, K) + SumFunctionOnSet(extra, K)
    <3> HIDE DEF floors, extra, quotas, K
    <3>1. Linear(quotas, 1, floors, extra, K)
      BY <2>1 DEF Linear
    <3> QED
      BY <1>1, <3>1, SumLinear
  <2> HIDE DEF floors, extra, quotas, K, over
  <2> QED
    BY <1>9, <1>13, <2>2
\* A key without a remainder is behind all that have one.
<1>15. ASSUME NEW k \in K, rest[k] = 0 PROVE extra[k] = 0
  <2>1. plus \subseteq Before(rest, k)
    BY <1>5, <1>15 DEF Positive, Before
  <2>2. IsFiniteSet(Before(rest, k)) /\ Cardinality(Before(rest, k)) \in Nat
    <3>1. Before(rest, k) \in SUBSET K
      BY <1>5 DEF Before
    <3> HIDE DEF K, rest
    <3> QED
      BY <1>1, <3>1, FS_Subset, FS_CardinalityType
  <2>3. Cardinality(plus) <= Cardinality(Before(rest, k))
    <3> HIDE DEF plus, rest
    <3> QED
      BY <2>1, <2>2, FS_Subset
  <2> HIDE DEF plus, over
  <2> QED
    BY <1>11, <1>12, <2>2, <2>3
<1>16. ASSUME NEW k \in K
       PROVE  LET off == quotas[k] * n - shares[k] IN off < n /\ off > -n
  <2>1. extra[k] \in {0, 1} /\ (rest[k] = 0 => extra[k] = 0)
    BY <1>15
  <2>2. quotas[k] = floors[k] + extra[k] /\ shares[k] = n * floors[k] + rest[k]
    BY <1>4, <1>6
  <2> DEFINE q == floors[k]
             r == rest[k]
             e == extra[k]
  <2> HIDE DEF q, r, e, quotas, shares, floors, rest, extra, n
  <2>3. q \in Int /\ r \in 0..n-1 /\ e \in {0, 1} /\ (r = 0 => e = 0)
    BY <1>4, <2>1 DEF q, r, e
  <2>4. (q + e) * n - (n * q + r) = e * n - r
    BY <1>2, <2>3
  <2>5. e * n - r < n /\ e * n - r > -n
    BY <1>2, <2>3
  <2> QED
    BY <2>2, <2>4, <2>5 DEF q, r, e
<1> QED
  BY <1>14, <1>16

-----------------------------------------------------------------------------
(* The metrics.                                                             *)

\* A table of the public trials.
CellsOf(tab) == tab \in [Tasks -> [Configs -> Cell]]

\* The metrics are integers, for they are means of rates, and counts.
LEMMA MeanType ==
  ASSUME NEW S, IsFiniteSet(S), S # {}, NEW f, \A x \in S : f[x] \in Int
  PROVE  MeanOver(f, S) \in Int
<1>1. SumFunctionOnSet(f, S) \in Int
  BY SumType
<1>2. Cardinality(S) \in Int /\ Cardinality(S) > 0
  BY FS_CardinalityType, FS_EmptySet
<1> QED
  BY <1>1, <1>2, DivMod DEF MeanOver

LEMMA UsedFinite ==
  ASSUME InputsAssumption
  PROVE  \A leftOut : Used(leftOut) \subseteq Configs /\ IsFiniteSet(Used(leftOut))
<1> TAKE leftOut
<1>1. Used(leftOut) \in SUBSET Configs
  BY DEF Used
<1> QED
  BY <1>1, FS_Subset DEF InputsAssumption

LEMMA ConfigRatesType ==
  ASSUME InputsAssumption, NEW tab, CellsOf(tab), NEW t \in Tasks, NEW leftOut
  PROVE  /\ DOMAIN ConfigRates(tab, t, leftOut) \subseteq Configs
         /\ IsFiniteSet(DOMAIN ConfigRates(tab, t, leftOut))
         /\ \A c \in DOMAIN ConfigRates(tab, t, leftOut) : ConfigRates(tab, t, leftOut)[c] \in Int
<1> DEFINE R == Rated(tab, t, leftOut)
<1>1. DOMAIN ConfigRates(tab, t, leftOut) = R
  BY DEF ConfigRates
<1>2. R \in SUBSET Configs
  BY DEF Rated, Used
<1>3. IsFiniteSet(R)
  BY <1>2, FS_Subset DEF InputsAssumption
<1>4. ASSUME NEW c \in R PROVE ConfigRates(tab, t, leftOut)[c] \in Int
  <2>1. tab[t][c] \in Cell /\ tab[t][c].counted > 0
    BY <1>2 DEF CellsOf, Rated
  <2>2. 100 * tab[t][c].passed \in Int /\ tab[t][c].counted \in Int
    BY <2>1 DEF Cell
  <2>3. (100 * tab[t][c].passed) \div tab[t][c].counted \in Int
    BY <2>1, <2>2, DivMod
  <2> QED
    BY <2>3 DEF ConfigRates
<1> QED
  BY <1>1, <1>2, <1>3, <1>4

LEMMA ModelRatesType ==
  ASSUME InputsAssumption, NEW tab, CellsOf(tab), NEW t \in Tasks, NEW leftOut
  PROVE  /\ IsFiniteSet(DOMAIN ModelRates(tab, t, leftOut))
         /\ \A m \in DOMAIN ModelRates(tab, t, leftOut) : ModelRates(tab, t, leftOut)[m] \in Int
<1> DEFINE rates == ConfigRates(tab, t, leftOut)
           models == ModelRates(tab, t, leftOut)
           C(m) == {c \in DOMAIN rates : ModelOf[c] = m}
<1>1. IsFiniteSet(DOMAIN rates) /\ \A c \in DOMAIN rates : rates[c] \in Int
  BY ConfigRatesType
<1>2. /\ DOMAIN models = {ModelOf[c] : c \in DOMAIN rates}
      /\ \A m \in DOMAIN models : models[m] = MeanOver(rates, C(m))
  BY DEF ModelRates
<1> HIDE DEF rates, models
<1>3. IsFiniteSet(DOMAIN models)
  <2>1. [c \in DOMAIN rates |-> ModelOf[c]] \in Surjection(DOMAIN rates, DOMAIN models)
    BY <1>2 DEF Surjection
  <2> QED
    BY <1>1, <2>1, FS_Surjection
<1>4. ASSUME NEW m \in DOMAIN models PROVE models[m] \in Int
  <2>1. C(m) \in SUBSET DOMAIN rates /\ C(m) # {}
    BY <1>2
  <2>2. IsFiniteSet(C(m)) /\ \A c \in C(m) : rates[c] \in Int
    BY <1>1, FS_Subset
  <2> HIDE DEF C
  <2> QED
    BY <1>2, <2>1, <2>2, MeanType
<1> QED
  BY <1>3, <1>4 DEF models

LEMMA MetricsType ==
  ASSUME InputsAssumption, NEW tab, CellsOf(tab), NEW t \in Tasks, NEW leftOut
  PROVE  LET m == Metrics(tab, t, leftOut)
         IN  m.modelMean \in Int /\ m.configMean \in Int /\ m.low \in Int /\ m.high \in Int
<1> DEFINE configs == ConfigRates(tab, t, leftOut)
           models == ModelRates(tab, t, leftOut)
           Mean(rates) == IF DOMAIN rates = {} THEN 0 ELSE MeanOf(rates)
           low == {m \in DOMAIN models : models[m] <= Thresholds.lowMax}
           high == {m \in DOMAIN models : models[m] >= Thresholds.highMin}
<1>1. /\ Metrics(tab, t, leftOut).modelMean = Mean(models)
      /\ Metrics(tab, t, leftOut).configMean = Mean(configs)
      /\ Metrics(tab, t, leftOut).low = Cardinality(low)
      /\ Metrics(tab, t, leftOut).high = Cardinality(high)
  BY DEF Metrics
<1>2. IsFiniteSet(DOMAIN models) /\ \A m \in DOMAIN models : models[m] \in Int
  BY ModelRatesType
<1>3. IsFiniteSet(DOMAIN configs) /\ \A c \in DOMAIN configs : configs[c] \in Int
  BY ConfigRatesType
<1>4. low \in SUBSET DOMAIN models /\ high \in SUBSET DOMAIN models
  OBVIOUS
<1> HIDE DEF configs, models, low, high
<1>5. ASSUME NEW f, IsFiniteSet(DOMAIN f), \A x \in DOMAIN f : f[x] \in Int
      PROVE  Mean(f) \in Int
  <2>1. CASE DOMAIN f = {}
    BY <2>1
  <2>2. CASE DOMAIN f # {}
    <3>1. PICK S : S = DOMAIN f
      OBVIOUS
    <3>2. IsFiniteSet(S) /\ S # {} /\ \A x \in S : f[x] \in Int
      BY <1>5, <2>2, <3>1
    <3>3. MeanOver(f, S) \in Int
      BY <3>2, MeanType
    <3> QED
      BY <2>2, <3>1, <3>3 DEF MeanOf
  <2> QED
    BY <2>1, <2>2
<1>6. Mean(models) \in Int /\ Mean(configs) \in Int
  <2> HIDE DEF Mean
  <2> QED
    BY <1>2, <1>3, <1>5
<1>7. Cardinality(low) \in Int /\ Cardinality(high) \in Int
  BY <1>2, <1>4, FS_Subset, FS_CardinalityType
<1> QED
  BY <1>1, <1>6, <1>7

\* The core's test is the stricter one, whatever a task's metrics are.
LEMMA CoreTestStricter ==
  ASSUME InputsAssumption, ThresholdsAssumption, table \in Tables, NEW t \in Tasks
  PROVE  CoreTest(Metrics(table, t, excluded), portfolio[t].correlated)
           => BroadTest(Metrics(table, t, excluded))
<1> DEFINE m == Metrics(table, t, excluded)
<1>1. CellsOf(table)
  BY DEF InputsAssumption, CellsOf
<1>2. m.modelMean \in Int /\ m.configMean \in Int /\ m.low \in Int /\ m.high \in Int
  BY <1>1, MetricsType
<1> HIDE DEF m
<1>3. Within(m, Thresholds.core) => Within(m, Thresholds.broad)
  BY <1>2 DEF Within, ThresholdsAssumption
<1>4. m.low >= Thresholds.coreLow => m.low >= Thresholds.broadLow
  BY <1>2 DEF ThresholdsAssumption
<1>5. m.high >= Thresholds.coreHigh => m.high >= Thresholds.broadHigh
  BY <1>2 DEF ThresholdsAssumption
<1>6. CoreTest(m, portfolio[t].correlated) => BroadTest(m)
  BY <1>3, <1>4, <1>5 DEF CoreTest, BroadTest
<1> QED
  BY <1>6 DEF m

\* The metrics read no trial of a model that is left out.
LEMMA MetricsIgnore ==
  ASSUME NEW a, NEW b, NEW t, NEW leftOut, \A c \in Used(leftOut) : a[t][c] = b[t][c]
  PROVE  Metrics(a, t, leftOut) = Metrics(b, t, leftOut)
<1>1. Rated(a, t, leftOut) = Rated(b, t, leftOut)
  BY DEF Rated
<1>2. ConfigRates(a, t, leftOut) = ConfigRates(b, t, leftOut)
  <2>1. \A c \in Rated(b, t, leftOut) : a[t][c] = b[t][c]
    BY DEF Rated
  <2> QED
    BY <1>1, <2>1 DEF ConfigRates
<1>3. ModelRates(a, t, leftOut) = ModelRates(b, t, leftOut)
  BY <1>2 DEF ModelRates
<1>4. Errors(a, t, leftOut) = Errors(b, t, leftOut)
  <2>1. [c \in Used(leftOut) |-> a[t][c].others] = [c \in Used(leftOut) |-> b[t][c].others]
    OBVIOUS
  <2> QED
    BY <2>1 DEF Errors
<1>5. Trials(a, t, leftOut) = Trials(b, t, leftOut)
  <2>1. [c \in Used(leftOut) |-> a[t][c].counted + a[t][c].others]
          = [c \in Used(leftOut) |-> b[t][c].counted + b[t][c].others]
    OBVIOUS
  <2> QED
    BY <2>1 DEF Trials
<1>6. ErrorRate(a, t, leftOut) = ErrorRate(b, t, leftOut)
  BY <1>4, <1>5 DEF ErrorRate
<1>7. [c \in Used(leftOut) |-> a[t][c].timeouts] = [c \in Used(leftOut) |-> b[t][c].timeouts]
  OBVIOUS
<1>8. {a[t][c].counted : c \in Used(leftOut)} = {b[t][c].counted : c \in Used(leftOut)}
  OBVIOUS
<1> QED
  BY <1>2, <1>3, <1>6, <1>7, <1>8 DEF Metrics

LEMMA AlteredIsIgnored ==
  BandsOf(Altered(table)) = BandsOf(table) /\ CoreOf(Altered(table)) = CoreOf(table)
<1>1. \A t \in Tasks : Metrics(Altered(table), t, excluded) = Metrics(table, t, excluded)
  <2> TAKE t \in Tasks
  <2>1. \A c \in Used(excluded) : Altered(table)[t][c] = table[t][c]
    BY DEF Used, Altered
  <2> QED
    BY <2>1, MetricsIgnore
<1>2. BandsOf(Altered(table)) = BandsOf(table)
  BY <1>1 DEF BandsOf
<1>3. \A t \in Tasks : IsCore(Altered(table), t) <=> IsCore(table, t)
  BY <1>1 DEF IsCore
<1> QED
  BY <1>2, <1>3 DEF CoreOf

\* Of finitely many there is one with the largest number.
LEMMA LargestExists ==
  ASSUME NEW S, IsFiniteSet(S), S # {}, NEW f, \A x \in S : f[x] \in Int
  PROVE  \E x \in S : \A y \in S : f[y] <= f[x]
<1> DEFINE P == {T \in SUBSET S : T # {} => \E x \in T : \A y \in T : f[y] <= f[x]}
<1>1. ASSUME NEW T \in SUBSET S, \A x \in T : T \ {x} \in P
      PROVE  T \in P
  <2> SUFFICES ASSUME T # {} PROVE \E x \in T : \A y \in T : f[y] <= f[x]
    OBVIOUS
  <2>1. PICK z \in T : TRUE
    OBVIOUS
  <2>2. CASE T \ {z} = {}
    <3>1. \A y \in T : y = z
      BY <2>2
    <3> QED
      BY <3>1
  <2>3. CASE T \ {z} # {}
    <3>1. PICK x \in T \ {z} : \A y \in T \ {z} : f[y] <= f[x]
      BY <1>1, <2>3
    <3>2. CASE f[z] <= f[x]
      <4>1. \A y \in T : f[y] <= f[x]
        BY <3>1, <3>2
      <4> QED
        BY <4>1
    <3>3. CASE ~(f[z] <= f[x])
      <4>1. \A y \in T : f[y] <= f[z]
        BY <3>1, <3>3
      <4> QED
        BY <4>1
    <3> QED
      BY <3>2, <3>3
  <2> QED
    BY <2>2, <2>3
<1> HIDE DEF P
<1>2. S \in P
  <2>1. \A T \in SUBSET S : T \in P
    BY <1>1, SubsetInduction
  <2> QED
    BY <2>1
<1> QED
  BY <1>2 DEF P

\* By bonus, rank and order, one of several is the best.
LEMMA OneIsBetter ==
  ASSUME NEW E, IsFiniteSet(E), E # {}, E \subseteq Tasks, NEW bonus,
         \A t \in E : bonus[t] \in Int /\ portfolio[t].rank \in Int,
         \A t, u \in Tasks : jitter[t] \in Int /\ (jitter[t] = jitter[u] => t = u)
  PROVE  \E t \in E : \A u \in E \ {t} : Better(bonus, t, u)
<1> DEFINE rank == [t \in E |-> portfolio[t].rank]
<1>1. PICK a \in E : \A u \in E : bonus[u] <= bonus[a]
  BY LargestExists
<1> DEFINE A == {t \in E : bonus[t] = bonus[a]}
<1>2. A # {} /\ IsFiniteSet(A) /\ A \subseteq E
  BY FS_Subset
<1>3. PICK b \in A : \A u \in A : rank[u] <= rank[b]
  <2>1. \A t \in A : rank[t] \in Int
    OBVIOUS
  <2> HIDE DEF A, rank
  <2> QED
    BY <1>2, <2>1, LargestExists
<1> DEFINE B == {t \in A : rank[t] = rank[b]}
<1>4. B # {} /\ IsFiniteSet(B) /\ B \subseteq A
  BY <1>2, FS_Subset
<1>5. PICK c \in B : \A u \in B : jitter[u] <= jitter[c]
  <2>1. \A t \in B : jitter[t] \in Int
    BY <1>2
  <2> HIDE DEF B, A, rank
  <2> QED
    BY <1>4, <2>1, LargestExists
<1>6. ASSUME NEW u \in E \ {c} PROVE Better(bonus, c, u)
  <2>1. CASE u \notin A
    BY <1>1, <1>5, <2>1 DEF Better
  <2>2. CASE u \in A \ B
    <3>1. rank[u] < rank[c] /\ bonus[u] = bonus[c]
      BY <1>3, <1>5, <2>2
    <3> QED
      BY <3>1, <2>2 DEF Better
  <2>3. CASE u \in B
    <3>1. jitter[u] < jitter[c]
      <4>1. jitter[u] <= jitter[c] /\ jitter[u] # jitter[c] /\ jitter[u] \in Int /\ jitter[c] \in Int
        BY <1>5, <2>3
      <4> QED
        BY <4>1
    <3>2. rank[u] = rank[c] /\ bonus[u] = bonus[c]
      BY <2>3
    <3> QED
      BY <3>1, <3>2 DEF Better
  <2> QED
    BY <2>1, <2>2, <2>3
<1> QED
  BY <1>6

-----------------------------------------------------------------------------
(* The samples.                                                             *)

InputInv ==
  /\ table \in Tables /\ portfolio \in Portfolios /\ excluded \in Exclusions
  /\ size \in Sizes /\ jitter \in Orders
LayerInv ==
  /\ block \in {"metrics", "dev", "confirm", "written", "failed"}
  /\ block = "metrics" => core = {} /\ band = [t \in Tasks |-> "none"]
  /\ block # "metrics" => core = CoreOf(table) /\ band = BandsOf(table)
SampleInv ==
  /\ dev \subseteq core /\ confirm \subseteq core \ dev
  /\ Cardinality(dev) <= size /\ Cardinality(confirm) <= size
  /\ block = "metrics" => dev = {}
  /\ block \in {"metrics", "dev"} => confirm = {}
  /\ block \in {"confirm", "written"} => Cardinality(dev) = size
  /\ block = "written" => Cardinality(confirm) = size
  /\ block = "failed" => Cardinality(core) < 2 * size
SpreadInv == Spread(dev, core) /\ Spread(confirm, core \ dev)
SelectInv == InputInv /\ LayerInv /\ SampleInv /\ SpreadInv

\* Every set of tasks is finite.
LEMMA SetsFinite ==
  ASSUME InputsAssumption, LayerInv, SampleInv, InputInv
  PROVE  /\ core \subseteq Tasks /\ IsFiniteSet(core) /\ IsFiniteSet(dev) /\ IsFiniteSet(confirm)
         /\ IsFiniteSet(Candidates) /\ IsFiniteSet(Sample) /\ IsFiniteSet(Remaining)
         /\ Candidates \subseteq core
         /\ size \in Nat \ {0}
<1>1. core \in SUBSET Tasks
  BY DEF LayerInv, CoreOf
<1>2. dev \in SUBSET Tasks /\ confirm \in SUBSET Tasks
  BY <1>1 DEF SampleInv
<1>3. Candidates \in SUBSET core /\ Candidates \in SUBSET Tasks
  BY <1>1 DEF Candidates
<1>4. Sample \in SUBSET Tasks /\ Remaining \in SUBSET Tasks
  BY <1>1, <1>2, <1>3 DEF Sample, Remaining
<1>5. IsFiniteSet(Tasks) /\ size \in Nat \ {0}
  BY DEF InputsAssumption, InputInv
<1> QED
  BY <1>1, <1>2, <1>3, <1>4, <1>5, FS_Subset

LEMMA EligibleRemains ==
  Eligible \subseteq Remaining /\ (Remaining # {} => Eligible # {})
BY DEF Eligible

\* While a sample is too small, its next task is one of those that remain.
LEMMA BestIsEligible ==
  ASSUME InputsAssumption, SelectInv, block \in {"dev", "confirm"}, ~TooFew, Short
  PROVE  Best \in Eligible /\ Best \in Candidates /\ Best \notin Sample
<1>1. /\ core \subseteq Tasks /\ IsFiniteSet(Candidates) /\ IsFiniteSet(Sample)
      /\ IsFiniteSet(Remaining) /\ Candidates \subseteq core /\ size \in Nat \ {0}
  BY SetsFinite DEF SelectInv
<1>2. Remaining # {}
  <2>1. Sample \subseteq Candidates
    BY DEF SelectInv, SampleInv, Sample, Candidates
  <2>2. Cardinality(Sample) < Cardinality(Candidates)
    BY <1>1, FS_CardinalityType DEF Short, TooFew
  <2>3. Cardinality(Sample) \in Nat /\ Cardinality(Candidates) \in Nat
    BY <1>1, FS_CardinalityType
  <2>4. Sample # Candidates
    BY <2>2, <2>3
  <2> QED
    BY <2>1, <2>4 DEF Remaining
<1>3. Eligible # {} /\ Eligible \subseteq Remaining /\ Eligible \subseteq Tasks
  BY <1>1, <1>2, EligibleRemains DEF Remaining
<1>4. IsFiniteSet(Eligible)
  BY <1>1, <1>3, FS_Subset
<1>5. \A t \in Eligible : Bonuses[t] \in Int
  <2> TAKE t \in Eligible
  <2>1. t \in Remaining
    BY <1>3
  <2>2. ASSUME NEW keyOf, NEW w \in Int PROVE Bonus(keyOf, w)[t] \in Int
    BY <2>1 DEF Bonus
  <2>3. Bonus(Language, 6)[t] \in Int /\ Bonus(Difficulty, 4)[t] \in Int /\ Bonus(Patch, 3)[t] \in Int
    BY <2>2
  <2>4. Bonuses[t] = Bonus(Language, 6)[t] + Bonus(Difficulty, 4)[t] + Bonus(Patch, 3)[t]
    BY <2>1 DEF Bonuses
  <2> QED
    BY <2>3, <2>4
<1>6. \A t \in Eligible : portfolio[t].rank \in Int
  BY <1>3 DEF SelectInv, InputInv, InputsAssumption, IsEntry
<1>7. \A t, u \in Tasks : jitter[t] \in Int /\ (jitter[t] = jitter[u] => t = u)
  BY DEF SelectInv, InputInv, InputsAssumption
<1>8. \E t \in Eligible : \A u \in Eligible \ {t} : Better(Bonuses, t, u)
  BY <1>3, <1>4, <1>5, <1>6, <1>7, OneIsBetter
<1>9. Best \in Eligible
  <2> HIDE DEF Eligible, Bonuses, Better
  <2> QED
    BY <1>8 DEF Best
<1> QED
  BY <1>3, <1>9 DEF Remaining

\* A pick keeps the repositories spread.
LEMMA PickSpreads ==
  ASSUME IsFiniteSet(Sample), Sample \subseteq Candidates,
         Spread(Sample, Candidates), NEW b \in Eligible
  PROVE  Spread(Sample \union {b}, Candidates)
<1> DEFINE S == Sample \union {b}
           Of(t) == CountOf(RepositoryOf[t], RepositoryOf, Sample)
           New(t) == CountOf(RepositoryOf[t], RepositoryOf, S)
           Same(t) == RepositoryOf[t] = RepositoryOf[b]
<1>1. b \in Remaining /\ b \notin Sample
  BY EligibleRemains DEF Remaining
<1>2. \A t : Of(t) \in Nat /\ New(t) = IF Same(t) THEN Of(t) + 1 ELSE Of(t)
  BY <1>1, CountType, CountOneMore
<1>3. \A t : Same(t) => Of(t) = Of(b)
  OBVIOUS
<1>4. \A u \in Remaining : (Of(b) >= 1 => Of(u) >= 1) /\ (Of(b) >= 2 => Of(u) >= 2)
  <2>1. \A u \in Remaining : UsedRepository(u) = Of(u)
    BY DEF UsedRepository
  <2> SUFFICES ASSUME NEW u \in Remaining
               PROVE  (Of(b) >= 1 => Of(u) >= 1) /\ (Of(b) >= 2 => Of(u) >= 2)
    OBVIOUS
  <2>2. CASE \E t \in Remaining : UsedRepository(t) = 0
    <3>1. \E t \in Remaining : UsedRepository(t) < 1
      BY <2>2
    <3>2. UsedRepository(b) < 1
      BY <2>2, <3>1 DEF Eligible
    <3>3. Of(b) < 1
      BY <1>1, <2>1, <3>2
    <3> HIDE DEF Of
    <3> QED
      BY <1>2, <3>3
  <2>3. CASE \A t \in Remaining : UsedRepository(t) # 0
    <3>1. UsedRepository(b) < 2 \/ \A t \in Remaining : ~(UsedRepository(t) < 2)
      BY <2>3 DEF Eligible
    <3>2. Of(u) # 0 /\ (Of(b) < 2 \/ ~(Of(u) < 2))
      BY <1>1, <2>1, <2>3, <3>1
    <3> HIDE DEF Of
    <3> QED
      BY <1>2, <3>2
  <2> QED
    BY <2>2, <2>3
<1>5. ASSUME NEW t \in S, NEW u \in Candidates \ S
      PROVE  (New(t) >= 2 => New(u) >= 1) /\ (New(t) >= 3 => New(u) >= 2)
  <2>1. u \in Remaining /\ u \in Candidates \ Sample
    BY DEF Remaining
  <2>2. Of(u) \in Nat /\ Of(t) \in Nat /\ Of(b) \in Nat /\ New(u) >= Of(u)
    <3> HIDE DEF Of, New, Same
    <3> QED
      BY <1>2
  <2>3. CASE Same(t)
    <3>1. New(t) = Of(b) + 1
      <4> HIDE DEF Of, New, Same
      <4> QED
        BY <1>2, <1>3, <2>3
    <3> HIDE DEF Of, New, Same
    <3> QED
      BY <1>2, <1>4, <2>1, <2>2, <3>1
  <2>4. CASE ~Same(t)
    <3>1. t \in Sample
      BY <2>4
    <3>2. (Of(t) >= 2 => Of(u) >= 1) /\ (Of(t) >= 3 => Of(u) >= 2)
      BY <2>1, <3>1 DEF Spread
    <3>3. New(t) = Of(t)
      <4> HIDE DEF Of, New, Same
      <4> QED
        BY <1>2, <2>4
    <3> HIDE DEF Of, New, Same
    <3> QED
      BY <1>2, <2>2, <3>2, <3>3
  <2> QED
    BY <2>3, <2>4
<1> QED
  BY <1>5 DEF Spread

LEMMA EmptySpread == \A C : Spread({}, C)
BY DEF Spread

-----------------------------------------------------------------------------
\* What holds throughout: at the start, at a pick, and at every step.
LEMMA SelectStart == ASSUME InputsAssumption, SelectInit PROVE SelectInv
<1>1. InputInv
  BY DEF SelectInit, InputInv
<1>2. LayerInv
  BY DEF SelectInit, LayerInv
<1>3. SampleInv
  <2>1. size \in Nat
    BY <1>1 DEF InputInv, InputsAssumption
  <2> QED
    BY <2>1, FS_EmptySet DEF SelectInit, SampleInv
<1>4. SpreadInv
  BY EmptySpread DEF SelectInit, SpreadInv
<1> QED
  BY <1>1, <1>2, <1>3, <1>4 DEF SelectInv

LEMMA PickKeeps == ASSUME InputsAssumption, SelectInv, Pick PROVE SelectInv'
<1> USE DEF SelectInv
<1>1. /\ IsFiniteSet(dev) /\ IsFiniteSet(confirm) /\ IsFiniteSet(Sample) /\ size \in Nat
  BY SetsFinite
<1>2. Best \in Eligible /\ Best \in Candidates /\ Best \notin Sample
  BY BestIsEligible DEF Pick
<1>3. Spread(Sample, Candidates) /\ Sample \subseteq Candidates
  BY DEF Pick, SpreadInv, SampleInv, Sample, Candidates
<1>4. Spread(Sample \union {Best}, Candidates)
  BY <1>1, <1>2, <1>3, PickSpreads
<1>5. Cardinality(Sample \union {Best}) = Cardinality(Sample) + 1 /\ Cardinality(Sample) \in Nat
  BY <1>1, <1>2, FS_AddElement, FS_CardinalityType
<1>6. InputInv'
  BY DEF Pick, InputInv, input
<1>7. LayerInv'
  <2>1. CoreOf(table)' = CoreOf(table) /\ BandsOf(table)' = BandsOf(table)
    BY DEF Pick, input, CoreOf, BandsOf, IsCore
  <2> QED
    BY <2>1 DEF Pick, LayerInv
<1>9. CASE block = "dev"
  <2>1. dev' = dev \union {Best} /\ UNCHANGED <<confirm, core, block, size>>
    BY <1>9 DEF Pick, input
  <2>2. Sample = dev /\ Candidates = core /\ confirm = {}
    BY <1>9 DEF Sample, Candidates, SampleInv
  <2>3. SampleInv'
    BY <1>1, <1>2, <1>5, <1>9, <2>1, <2>2 DEF SampleInv, Pick, Short
  <2>4. SpreadInv'
    <3>0. UNCHANGED portfolio /\ Spread(dev \union {Best}, core)
      BY <1>4, <2>2 DEF Pick, input
    <3> DEFINE more == dev \union {Best}
    <3> HIDE DEF more
    <3>4. dev' = more /\ core' = core /\ Spread(more, core)
      BY <2>1, <3>0 DEF more
    <3>1. Spread(dev, core)'
      BY <3>0, <3>4 DEF Spread, RepositoryOf
    <3>2. confirm' = {}
      BY <2>1, <2>2
    <3>3. Spread(confirm, core \ dev)'
      BY <3>2 DEF Spread
    <3> QED
      BY <3>1, <3>3 DEF SpreadInv
  <2> QED
    BY <1>6, <1>7, <2>3, <2>4
<1>10. CASE block = "confirm"
  <2>1. confirm' = confirm \union {Best} /\ UNCHANGED <<dev, core, block, size>>
    BY <1>10 DEF Pick, input
  <2>2. Sample = confirm /\ Candidates = core \ dev
    BY <1>10 DEF Sample, Candidates
  <2>3. SampleInv'
    BY <1>1, <1>2, <1>5, <1>10, <2>1, <2>2 DEF SampleInv, Pick, Short
  <2>4. SpreadInv'
    <3>0. UNCHANGED portfolio /\ Spread(dev, core)
      BY DEF Pick, input, SpreadInv
    <3>1. Spread(dev, core)'
      BY <2>1, <3>0 DEF Spread, RepositoryOf
    <3>2. Spread(confirm \union {Best}, core \ dev)
      BY <1>4, <2>2
    <3> DEFINE more == confirm \union {Best}
    <3> HIDE DEF more
    <3>3. confirm' = more /\ Spread(more, core \ dev)
      BY <2>1, <3>2 DEF more
    <3>4. Spread(confirm, core \ dev)'
      BY <2>1, <3>0, <3>3 DEF Spread, RepositoryOf
    <3> QED
      BY <3>1, <3>4 DEF SpreadInv
  <2> QED
    BY <1>6, <1>7, <2>3, <2>4
<1> QED
  BY <1>9, <1>10 DEF Pick

LEMMA SelectKeeps == ASSUME InputsAssumption, SelectInv, [SelectNext]_selectVars PROVE SelectInv'
<1> USE DEF SelectInv
<1>1. CASE Layer
  <2>1. /\ UNCHANGED <<table, portfolio, excluded, size, dev, confirm, jitter>>
        /\ block = "metrics" /\ block' = "dev" /\ dev = {} /\ confirm = {}
    BY <1>1 DEF Layer, input, SampleInv
  <2>2. core' = CoreOf(table)' /\ band' = BandsOf(table)'
    <3>1. CoreOf(table)' = CoreOf(table) /\ BandsOf(table)' = BandsOf(table)
      BY <2>1 DEF CoreOf, BandsOf, IsCore
    <3> QED
      BY <1>1, <3>1 DEF Layer
  <2>3. InputInv' /\ LayerInv'
    BY <2>1, <2>2 DEF InputInv, LayerInv
  <2>4. SampleInv'
    BY <2>1 DEF SampleInv
  <2>5. SpreadInv'
    BY <2>1 DEF SpreadInv, Spread
  <2> QED
    BY <2>3, <2>4, <2>5
<1>2. CASE Fail
  <2>1. UNCHANGED <<table, portfolio, excluded, size, band, core, dev, confirm, jitter>>
    BY <1>2 DEF Fail, input
  <2>2. InputInv' /\ LayerInv'
    <3>1. CoreOf(table)' = CoreOf(table) /\ BandsOf(table)' = BandsOf(table)
      BY <2>1 DEF CoreOf, BandsOf, IsCore
    <3> QED
      BY <1>2, <2>1, <3>1 DEF InputInv, LayerInv, Fail
  <2>3. Cardinality(core) < 2 * size
    <3>1. /\ size \in Nat \ {0} /\ IsFiniteSet(core) /\ Cardinality(core) \in Nat
          /\ IsFiniteSet(dev) /\ Cardinality(dev) \in Nat
      BY SetsFinite, FS_CardinalityType
    <3>2. CASE block = "dev"
      BY <1>2, <3>1, <3>2 DEF Fail, TooFew, Candidates
    <3>3. CASE block = "confirm"
      <4>1. Cardinality(core \ dev) < size /\ Cardinality(dev) = size
        BY <1>2, <3>3 DEF Fail, TooFew, Candidates, SampleInv
      <4>2. core \intersect dev = dev
        BY DEF SampleInv
      <4>3. Cardinality(core \ dev) = Cardinality(core) - Cardinality(dev)
        BY <3>1, <4>2, FS_Difference
      <4> QED
        BY <3>1, <4>1, <4>3
    <3> QED
      BY <1>2, <3>2, <3>3 DEF Fail
  <2>4. SampleInv'
    BY <1>2, <2>1, <2>3 DEF SampleInv, Fail
  <2>5. SpreadInv'
    BY <2>1 DEF SpreadInv, Spread, RepositoryOf
  <2> QED
    BY <2>2, <2>4, <2>5
<1>3. CASE Pick
  BY <1>3, PickKeeps
<1>4. CASE StartConfirm
  <2>1. UNCHANGED <<table, portfolio, excluded, size, band, core, dev, confirm>> /\ jitter' \in Orders
    BY <1>4 DEF StartConfirm, input
  <2>2. InputInv' /\ LayerInv'
    <3>1. CoreOf(table)' = CoreOf(table) /\ BandsOf(table)' = BandsOf(table)
      BY <2>1 DEF CoreOf, BandsOf, IsCore
    <3> QED
      BY <1>4, <2>1, <3>1 DEF InputInv, LayerInv, StartConfirm
  <2>3. SampleInv'
    BY <1>4, <2>1 DEF SampleInv, StartConfirm
  <2>4. SpreadInv'
    BY <2>1 DEF SpreadInv, Spread, RepositoryOf
  <2> QED
    BY <2>2, <2>3, <2>4
<1>5. CASE Write
  <2>1. UNCHANGED <<table, portfolio, excluded, size, band, core, dev, confirm, jitter>>
    BY <1>5 DEF Write, input
  <2>2. InputInv' /\ LayerInv'
    <3>1. CoreOf(table)' = CoreOf(table) /\ BandsOf(table)' = BandsOf(table)
      BY <2>1 DEF CoreOf, BandsOf, IsCore
    <3> QED
      BY <1>5, <2>1, <3>1 DEF InputInv, LayerInv, Write
  <2>3. SampleInv'
    BY <1>5, <2>1 DEF SampleInv, Write
  <2>4. SpreadInv'
    BY <2>1 DEF SpreadInv, Spread, RepositoryOf
  <2> QED
    BY <2>2, <2>3, <2>4
<1>6. CASE UNCHANGED selectVars
  <2>1. UNCHANGED <<table, portfolio, excluded, size, band, core, block, dev, confirm, jitter>>
    BY <1>6 DEF selectVars, input
  <2>2. InputInv' /\ LayerInv'
    <3>1. CoreOf(table)' = CoreOf(table) /\ BandsOf(table)' = BandsOf(table)
      BY <2>1 DEF CoreOf, BandsOf, IsCore
    <3> QED
      BY <2>1, <3>1 DEF InputInv, LayerInv
  <2>3. SampleInv'
    BY <2>1 DEF SampleInv
  <2>4. SpreadInv'
    BY <2>1 DEF SpreadInv, Spread, RepositoryOf
  <2> QED
    BY <2>2, <2>3, <2>4
<1> QED
  BY <1>1, <1>2, <1>3, <1>4, <1>5, <1>6 DEF SelectNext, SelectDone

-----------------------------------------------------------------------------
\* And what follows from it.
LEMMA QuotasFollow == ASSUME InputsAssumption, SelectInv PROVE QuotasAddUp
<1> SUFFICES ASSUME block \in {"dev", "confirm"}, ~TooFew
             PROVE  QuotasFit(Language) /\ QuotasFit(Patch) /\ QuotasFit(Difficulty)
  BY DEF QuotasAddUp
<1>1. /\ IsFiniteSet(Candidates) /\ Candidates \subseteq Tasks /\ size \in Nat \ {0}
  BY SetsFinite DEF SelectInv
<1>2. size <= Cardinality(Candidates)
  BY <1>1, FS_CardinalityType DEF TooFew
<1>3. ASSUME NEW keyOf, \A t \in Tasks : keyOf[t] \in Int PROVE QuotasFit(keyOf)
  <2> DEFINE C == Candidates
  <2>1. \A t \in C : keyOf[t] \in Int
    BY <1>1, <1>3
  <2>2. DOMAIN Quotas(keyOf, C) = Keys(keyOf, C)
    BY DEF Quotas
  <2>3. /\ SumFunctionOnSet(Quotas(keyOf, C), Keys(keyOf, C)) = size
        /\ \A k \in Keys(keyOf, C) :
             LET off == Quotas(keyOf, C)[k] * Cardinality(C) - Shares(keyOf, C)[k]
             IN  off < Cardinality(C) /\ off > -Cardinality(C)
    <3> HIDE DEF C
    <3> QED
      BY <1>1, <1>2, <2>1, QuotasFitAny DEF C
  <2> QED
    BY <2>2, <2>3 DEF QuotasFit, SumFunction
<1>4. \A t \in Tasks : portfolio[t].language \in Int /\ portfolio[t].patch \in Int
  BY DEF SelectInv, InputInv, InputsAssumption, IsEntry
<1>5. \A t \in Tasks : Language[t] \in Int /\ Patch[t] \in Int /\ Difficulty[t] \in Int
  BY <1>4 DEF Language, Patch, Difficulty
<1> QED
  BY <1>3, <1>5

LEMMA SelectionFollows == ASSUME InputsAssumption, ThresholdsAssumption, SelectInv PROVE SelectionSound
<1>1. LeaveOutIgnoresModel
  BY AlteredIsIgnored DEF LeaveOutIgnoresModel, SelectInv, LayerInv
<1>2. CoreIsStricter
  BY CoreTestStricter DEF CoreIsStricter, SelectInv, InputInv
<1>3. SamplesAreApart
  BY DEF SamplesAreApart, SelectInv, SampleInv
<1>4. RepositoriesSpread
  BY DEF RepositoriesSpread, SelectInv, SpreadInv
<1> QED
  BY <1>1, <1>2, <1>3, <1>4, QuotasFollow DEF SelectionSound

\* The selection's variables have their types at every step: the layers and the samples are
\* sets of the tasks there are (apply_layers, balanced_sample).
THEOREM SelectionTypeOK == SelectSpec => []SelectTypeOK
<1>1. SelectInv => SelectTypeOK
  <2> SUFFICES ASSUME SelectInv PROVE SelectTypeOK
    OBVIOUS
  <2>1. core \subseteq Tasks
    BY SetsFinite, SelectionAssumption DEF SelectInv
  <2>2. DOMAIN band = Tasks
    BY DEF SelectInv, LayerInv, BandsOf
  <2> QED
    BY <2>1, <2>2 DEF SelectTypeOK, SelectInv, InputInv, LayerInv, SampleInv
<1> QED
  BY <1>1, SelectStart, SelectKeeps, SelectionAssumption, PTL DEF SelectSpec

\* For all public results, portfolios and models left out, all sample sizes and seeds: the
\* trials of a model that is left out change no layer (calculate_metrics, apply_layers);
\* the core's conditions imply the broad ones; each key's quotas add up to the sample size
\* and are less than one off its share (allocate_quotas); the two samples are disjoint
\* parts of the core and full once written; and no repository is taken a second time while
\* a task of an unused one is left, nor a third while one of those used once is
\* (balanced_sample).
THEOREM SelectionSoundHolds == SelectSpec => []SelectionSound
BY SelectStart, SelectKeeps, SelectionFollows, SelectionAssumption, PTL DEF SelectSpec

-----------------------------------------------------------------------------
(* What the agents used (Accounting): sums of numbers some of which are    *)
(* missing.                                                                *)

\* A sum of naturals is one.
LEMMA SumNat ==
  ASSUME NEW S, IsFiniteSet(S), NEW h, \A x \in S : h[x] \in Nat
  PROVE  SumFunctionOnSet(h, S) \in Nat
<1> DEFINE P == {T \in SUBSET S : SumFunctionOnSet(h, T) \in Nat}
<1>1. ASSUME NEW T \in SUBSET S, \A x \in T : T \ {x} \in P
      PROVE  T \in P
  <2>1. IsFiniteSet(T)
    BY FS_Subset
  <2>2. CASE T = {}
    BY <2>2, SumEmpty
  <2>3. CASE T # {}
    <3>1. Some(T) \in T
      BY <2>3, SomeIsMember
    <3>2. SumFunctionOnSet(h, T \ {Some(T)}) \in Nat
      BY <1>1, <3>1
    <3>3. h[Some(T)] \in Nat
      BY <3>1
    <3>4. SumFunctionOnSet(h, T) = h[Some(T)] + SumFunctionOnSet(h, T \ {Some(T)})
      BY <2>1, <2>3, SumSome
    <3> QED
      BY <3>2, <3>3, <3>4
  <2> QED
    BY <2>2, <2>3
<1> HIDE DEF P
<1>2. \A T \in SUBSET S : T \in P
  BY <1>1, SubsetInduction
<1> QED
  BY <1>2 DEF P

\* The known values added up.
KnownSum(values) == SumFunctionOnSet(values, Known(values))
\* And those of a role's or a trial's reports.
UsedIn(reports) == KnownSum(Tokens(reports))

\* What is missing counts as 0, anything else as itself.
LEMMA AmountCounts == \A v \in Amount : Zero(v) \in Nat /\ (v # Missing => v \in Nat)
BY DEF Amount, Zero

\* The known values of finitely many can be added up.
LEMMA KnownFinite ==
  ASSUME NEW values, IsFiniteSet(DOMAIN values), \A i \in DOMAIN values : values[i] \in Amount
  PROVE  /\ IsFiniteSet(Known(values)) /\ Cardinality(Known(values)) \in Nat
         /\ Known(values) \subseteq DOMAIN values
         /\ \A i \in Known(values) : values[i] \in Nat
         /\ KnownSum(values) \in Nat
<1>1. Known(values) \in SUBSET DOMAIN values /\ \A i \in Known(values) : values[i] \in Nat
  BY DEF Known, Amount
<1>2. IsFiniteSet(Known(values)) /\ Cardinality(Known(values)) \in Nat
  BY <1>1, FS_Subset, FS_CardinalityType
<1>3. SumFunctionOnSet(values, Known(values)) \in Nat
  <2> DEFINE K == Known(values)
  <2> HIDE DEF K
  <2>1. \A i \in K : values[i] \in Nat
    BY <1>1 DEF K
  <2>2. IsFiniteSet(K)
    BY <1>2 DEF K
  <2> QED
    BY <2>1, <2>2, SumNat DEF K
<1> QED
  BY <1>1, <1>2, <1>3 DEF KnownSum

\* One value more.
LEMMA KnownAppend ==
  ASSUME NEW values \in Seq(Amount), NEW v \in Amount
  PROVE  KnownSum(Append(values, v)) = KnownSum(values) + Zero(v)
<1> DEFINE more == Append(values, v)
           n == Len(values) + 1
           K == Known(values)
<1>1. /\ DOMAIN values = 1..Len(values) /\ Len(values) \in Nat
      /\ DOMAIN more = 1..n /\ more[n] = v
      /\ \A i \in DOMAIN values : more[i] = values[i] /\ values[i] \in Amount
  OBVIOUS
<1>2. IsFiniteSet(DOMAIN values)
  BY <1>1, FS_Interval
<1>3. /\ IsFiniteSet(K) /\ K \subseteq DOMAIN values /\ (\A i \in K : values[i] \in Nat)
      /\ KnownSum(values) \in Nat
  BY <1>1, <1>2, KnownFinite
<1>4. SumFunctionOnSet(more, K) = SumFunctionOnSet(values, K)
  <2>1. \A i \in K : more[i] = values[i]
    BY <1>1, <1>3
  <2> HIDE DEF more, K
  <2> QED
    BY <1>3, <2>1, SumOfEqual
<1>5. CASE v = Missing
  <2>1. Known(more) = K
    BY <1>1, <1>5 DEF Known
  <2> QED
    BY <1>3, <1>4, <1>5, <2>1 DEF KnownSum, Zero
<1>6. CASE v # Missing
  <2>1. Known(more) = K \union {n} /\ n \notin K
    BY <1>1, <1>6 DEF Known
  <2>2. \A i \in K \union {n} : more[i] \in Int
    BY <1>1, <1>3, <1>6, AmountCounts
  <2>3. SumFunctionOnSet(more, K \union {n}) = more[n] + SumFunctionOnSet(more, K)
    <3> HIDE DEF more, K, n
    <3> QED
      BY <1>3, <2>1, <2>2, SumAdd
  <2>4. SumFunctionOnSet(more, K \union {n}) = v + SumFunctionOnSet(values, K)
    BY <1>1, <1>4, <2>3
  <2>5. v \in Nat
    BY <1>6, AmountCounts
  <2> HIDE DEF more, K
  <2>6. SumFunctionOnSet(values, K) \in Nat
    BY <1>3 DEF KnownSum, K
  <2> QED
    BY <1>6, <2>1, <2>4, <2>5, <2>6 DEF KnownSum, Zero, more, K
<1> QED
  BY <1>5, <1>6

\* The tokens and the costs of a sequence of reports.
LEMMA TokensType ==
  ASSUME NEW reports \in Seq(TurnReport)
  PROVE  /\ Tokens(reports) \in Seq(Amount) /\ Costs(reports) \in Seq(Amount)
         /\ DOMAIN Tokens(reports) = 1..Len(reports) /\ DOMAIN Costs(reports) = 1..Len(reports)
         /\ Len(Tokens(reports)) = Len(reports) /\ Len(Costs(reports)) = Len(reports)
         /\ \A i \in 1..Len(reports) :
              Tokens(reports)[i] = reports[i].tokens /\ Costs(reports)[i] = reports[i].cost
         /\ UsedIn(reports) \in Nat
<1>1. /\ DOMAIN reports = 1..Len(reports) /\ Len(reports) \in Nat
      /\ \A i \in 1..Len(reports) : reports[i] \in TurnReport
  OBVIOUS
<1>2. \A r \in TurnReport : r.tokens \in Amount /\ r.cost \in Amount
  BY DEF TurnReport
<1>3. Tokens(reports) = [i \in 1..Len(reports) |-> reports[i].tokens]
  BY <1>1 DEF Tokens, Each
<1>4. Costs(reports) = [i \in 1..Len(reports) |-> reports[i].cost]
  BY <1>1 DEF Costs, Each
<1>5. Tokens(reports) \in Seq(Amount) /\ Len(Tokens(reports)) = Len(reports)
  BY <1>1, <1>2, <1>3
<1>6. Costs(reports) \in Seq(Amount) /\ Len(Costs(reports)) = Len(reports)
  BY <1>1, <1>2, <1>4
<1>7. UsedIn(reports) \in Nat
  <2>1. IsFiniteSet(DOMAIN Tokens(reports))
    BY <1>1, <1>3, FS_Interval
  <2>2. \A i \in DOMAIN Tokens(reports) : Tokens(reports)[i] \in Amount
    BY <1>1, <1>2, <1>3
  <2> QED
    BY <2>1, <2>2, KnownFinite DEF UsedIn
<1> QED
  BY <1>3, <1>4, <1>5, <1>6, <1>7

\* A sequence and one element more.
LEMMA AppendIs ==
  ASSUME NEW S, NEW s \in Seq(S), NEW e \in S
  PROVE  /\ Append(s, e) \in Seq(S) /\ Len(Append(s, e)) = Len(s) + 1
         /\ DOMAIN Append(s, e) = 1..Len(s) + 1
         /\ \A i \in 1..Len(s) : Append(s, e)[i] = s[i]
         /\ Append(s, e)[Len(s) + 1] = e
OBVIOUS

\* The tokens and the costs of a sequence of reports and one more.
LEMMA TokensAppend ==
  ASSUME NEW reports \in Seq(TurnReport), NEW r \in TurnReport
  PROVE  /\ Append(reports, r) \in Seq(TurnReport)
         /\ Tokens(Append(reports, r)) = Append(Tokens(reports), r.tokens)
         /\ Costs(Append(reports, r)) = Append(Costs(reports), r.cost)
<1> DEFINE more == Append(reports, r)
<1>1. more \in Seq(TurnReport)
  BY AppendIs
<1>2. /\ Len(reports) \in Nat /\ Len(more) = Len(reports) + 1
      /\ \A i \in 1..Len(reports) : more[i] = reports[i]
      /\ more[Len(reports) + 1] = r
  BY AppendIs
<1> HIDE DEF more
<1>3. Tokens(more) = Append(Tokens(reports), r.tokens)
  <2>1. /\ Tokens(reports) \in Seq(Amount) /\ Len(Tokens(reports)) = Len(reports)
        /\ \A i \in 1..Len(reports) : Tokens(reports)[i] = reports[i].tokens
    BY TokensType
  <2>2. /\ Tokens(more) \in Seq(Amount) /\ Len(Tokens(more)) = Len(reports) + 1
        /\ \A i \in 1..Len(reports) + 1 : Tokens(more)[i] = more[i].tokens
    BY <1>1, <1>2, TokensType
  <2> DEFINE old == Tokens(reports)
             new == Tokens(more)
  <2>3. r.tokens \in Amount
    BY DEF TurnReport
  <2> HIDE DEF old, new
  <2> DEFINE both == Append(old, r.tokens)
  <2>4. both \in Seq(Amount)
    BY <2>1, <2>3, AppendIs DEF old
  <2>5. /\ Len(both) = Len(reports) + 1 /\ both[Len(reports) + 1] = r.tokens
        /\ \A i \in 1..Len(reports) : both[i] = reports[i].tokens
    BY <1>2, <2>1, <2>3, AppendIs DEF old
  <2> HIDE DEF both
  <2>6. \A i \in 1..Len(reports) + 1 : new[i] = both[i]
    BY <1>2, <2>2, <2>5 DEF new
  <2>7. new \in Seq(Amount) /\ Len(new) = Len(both)
    BY <1>2, <2>2, <2>5 DEF new
  <2>8. new = both
    BY <1>2, <2>4, <2>5, <2>6, <2>7
  <2> QED
    BY <2>8 DEF old, new, both
<1>4. Costs(more) = Append(Costs(reports), r.cost)
  <2>1. /\ Costs(reports) \in Seq(Amount) /\ Len(Costs(reports)) = Len(reports)
        /\ \A i \in 1..Len(reports) : Costs(reports)[i] = reports[i].cost
    BY TokensType
  <2>2. /\ Costs(more) \in Seq(Amount) /\ Len(Costs(more)) = Len(reports) + 1
        /\ \A i \in 1..Len(reports) + 1 : Costs(more)[i] = more[i].cost
    BY <1>1, <1>2, TokensType
  <2> DEFINE old == Costs(reports)
             new == Costs(more)
  <2>3. r.cost \in Amount
    BY DEF TurnReport
  <2> HIDE DEF old, new
  <2> DEFINE both == Append(old, r.cost)
  <2>4. both \in Seq(Amount)
    BY <2>1, <2>3, AppendIs DEF old
  <2>5. /\ Len(both) = Len(reports) + 1 /\ both[Len(reports) + 1] = r.cost
        /\ \A i \in 1..Len(reports) : both[i] = reports[i].cost
    BY <1>2, <2>1, <2>3, AppendIs DEF old
  <2> HIDE DEF both
  <2>6. \A i \in 1..Len(reports) + 1 : new[i] = both[i]
    BY <1>2, <2>2, <2>5 DEF new
  <2>7. new \in Seq(Amount) /\ Len(new) = Len(both)
    BY <1>2, <2>2, <2>5 DEF new
  <2>8. new = both
    BY <1>2, <2>4, <2>5, <2>6, <2>7
  <2> QED
    BY <2>8 DEF old, new, both
<1> QED
  BY <1>1, <1>3, <1>4 DEF more

\* A report adds its tokens to what was used.
LEMMA UsedAppend ==
  ASSUME NEW reports \in Seq(TurnReport), NEW r \in TurnReport
  PROVE  UsedIn(Append(reports, r)) = UsedIn(reports) + Zero(r.tokens)
<1>1. Tokens(Append(reports, r)) = Append(Tokens(reports), r.tokens)
  BY TokensAppend
<1>2. Tokens(reports) \in Seq(Amount)
  BY TokensType
<1>3. r.tokens \in Amount
  BY DEF TurnReport
<1> QED
  BY <1>1, <1>2, <1>3, KnownAppend DEF UsedIn

\* No report, nothing used.
LEMMA UsedNothing == UsedIn(<<>>) = 0
<1>1. Known(Tokens(<<>>)) = {}
  BY DEF Known, Tokens, Each
<1> QED
  BY <1>1, SumEmpty DEF UsedIn, KnownSum

\* A sum of naturals over a part is at most the sum over the whole.
LEMMA SumOfPart ==
  ASSUME NEW S, IsFiniteSet(S), NEW h, \A x \in S : h[x] \in Nat, NEW R \in SUBSET S
  PROVE  SumFunctionOnSet(h, R) <= SumFunctionOnSet(h, S)
<1> DEFINE P == {T \in SUBSET S : SumFunctionOnSet(h, R \intersect T) <= SumFunctionOnSet(h, T)}
<1>1. ASSUME NEW T \in SUBSET S, \A x \in T : T \ {x} \in P
      PROVE  T \in P
  <2>1. IsFiniteSet(T) /\ IsFiniteSet(R \intersect T)
    BY FS_Subset
  <2>2. CASE T = {}
    BY <2>2, SumEmpty
  <2>3. CASE T # {}
    <3>1. PICK x \in T : TRUE
      BY <2>3
    <3> DEFINE U == T \ {x}
               a == SumFunctionOnSet(h, R \intersect U)
               b == SumFunctionOnSet(h, U)
    <3>2. a <= b
      BY <1>1
    <3>3. h[x] \in Nat /\ (\A y \in T : h[y] \in Int) /\ (\A y \in R \intersect T : h[y] \in Int)
      OBVIOUS
    <3>4. SumFunctionOnSet(h, T) = h[x] + b
      BY <2>1, <3>3, SumRemove
    <3>5. a \in Nat /\ b \in Nat
      <4>1. IsFiniteSet(U) /\ IsFiniteSet(R \intersect U)
        BY FS_Subset
      <4>2. (\A y \in U : h[y] \in Nat) /\ (\A y \in R \intersect U : h[y] \in Nat)
        OBVIOUS
      <4> QED
        BY <4>1, <4>2, SumNat
    <3>6. SumFunctionOnSet(h, R \intersect T) = IF x \in R THEN h[x] + a ELSE a
      <4>1. CASE x \in R
        <5>1. (R \intersect T) \ {x} = R \intersect U
          OBVIOUS
        <5>2. x \in R \intersect T
          BY <4>1
        <5> QED
          BY <2>1, <3>3, <4>1, <5>1, <5>2, SumRemove
      <4>2. CASE x \notin R
        <5>1. R \intersect T = R \intersect U
          BY <4>2
        <5> QED
          BY <4>2, <5>1
      <4> QED
        BY <4>1, <4>2
    <3> HIDE DEF a, b, U
    <3>7. SumFunctionOnSet(h, R \intersect T) <= SumFunctionOnSet(h, T)
      BY <3>2, <3>3, <3>4, <3>5, <3>6
    <3> QED
      BY <3>7
  <2> QED
    BY <2>2, <2>3
<1> HIDE DEF P
<1>2. \A T \in SUBSET S : T \in P
  BY <1>1, SubsetInduction
<1>3. PICK T \in SUBSET S : T = S
  OBVIOUS
<1>4. R \intersect T = R
  BY <1>3
<1> QED
  BY <1>2, <1>3, <1>4 DEF P

\* Where g sends S, one by one, with the same values.
Image(g, T) == {g[x] : x \in T}
\* One by one, and f is what h is there.
Reindexes(g, S, f, h) ==
  /\ \A x, y \in S : g[x] = g[y] => x = y
  /\ \A x \in S : f[x] \in Int /\ h[g[x]] = f[x]

\* Renaming the members of a set one by one does not change the sum over it.
LEMMA SumReindex ==
  ASSUME NEW S, IsFiniteSet(S), NEW g, NEW f, NEW h, Reindexes(g, S, f, h)
  PROVE  /\ IsFiniteSet(Image(g, S))
         /\ SumFunctionOnSet(f, S) = SumFunctionOnSet(h, Image(g, S))
<1> DEFINE P == {T \in SUBSET S : /\ IsFiniteSet(Image(g, T))
                                  /\ SumFunctionOnSet(f, T) = SumFunctionOnSet(h, Image(g, T))}
<1>1. ASSUME NEW T \in SUBSET S, \A x \in T : T \ {x} \in P
      PROVE  T \in P
  <2>1. IsFiniteSet(T)
    BY FS_Subset
  <2>2. CASE T = {}
    <3>1. Image(g, T) = {}
      BY <2>2 DEF Image
    <3> QED
      BY <2>2, <3>1, SumEmpty, FS_EmptySet
  <2>3. CASE T # {}
    <3>1. PICK x \in T : TRUE
      BY <2>3
    <3> DEFINE R == T \ {x}
               I == Image(g, R)
               y == g[x]
    <3>2. IsFiniteSet(I) /\ SumFunctionOnSet(f, R) = SumFunctionOnSet(h, I)
      BY <1>1
    <3>3. Image(g, T) = I \union {y} /\ y \notin I
      BY DEF Reindexes, Image
    <3>4. \A z \in T : f[z] \in Int
      BY DEF Reindexes
    <3>5. (\A z \in I \union {y} : h[z] \in Int) /\ h[y] = f[x]
      BY DEF Reindexes, Image
    <3>6. SumFunctionOnSet(f, T) = f[x] + SumFunctionOnSet(f, R)
      BY <2>1, <3>4, SumRemove
    <3> HIDE DEF I, R, y
    <3>7. SumFunctionOnSet(h, I \union {y}) = h[y] + SumFunctionOnSet(h, I)
      BY <3>2, <3>3, <3>5, SumAdd
    <3>8. IsFiniteSet(I \union {y})
      BY <3>2, FS_AddElement
    <3> QED
      BY <3>2, <3>3, <3>5, <3>6, <3>7, <3>8
  <2> QED
    BY <2>2, <2>3
<1> HIDE DEF P
<1>2. \A T \in SUBSET S : T \in P
  BY <1>1, SubsetInduction
<1>3. PICK T \in SUBSET S : T = S
  OBVIOUS
<1> QED
  BY <1>2, <1>3 DEF P

\* Every turn reported its tokens.
AllReported(reports) == Known(Tokens(reports)) = DOMAIN reports
\* A bucket is what its reports come to.
Summed(reports) ==
  [turns |-> Len(reports),
   available |-> reports # <<>> /\ AllReported(reports),
   input |-> IF reports # <<>> /\ AllReported(reports) THEN UsedIn(reports) ELSE Missing,
   reports |-> reports,
   coverage |-> ReportsCoverage(reports),
   cost |-> SumKnown(Costs(reports)),
   costCoverage |-> Coverage(Cardinality(Known(Costs(reports))), Len(reports), TRUE)]

\* A new bucket is what no report comes to.
LEMMA EmptyIsSummed == EmptyBucket = Summed(<<>>)
<1>1. Known(Tokens(<<>>)) = {} /\ Known(Costs(<<>>)) = {}
  BY DEF Known, Tokens, Costs, Each
<1>2. Cardinality({}) = 0
  BY FS_EmptySet
<1>3. SumKnown(Costs(<<>>)) = Missing
  BY <1>1 DEF SumKnown, SumAt
<1>4. ReportsCoverage(<<>>) = "unavailable"
  BY <1>1, <1>2 DEF ReportsCoverage, Coverage
<1>5. Coverage(Cardinality(Known(Costs(<<>>))), 0, TRUE) = "unavailable"
  BY <1>1, <1>2 DEF Coverage
<1>6. Len(<<>>) = 0
  OBVIOUS
<1> QED
  BY <1>3, <1>4, <1>5, <1>6 DEF EmptyBucket, Summed

\* accumulateUsage, turn after turn, keeps the bucket what its reports come to: available
\* only while every turn so far had tokens, so its input is never short of one.
LEMMA AddTurnSums ==
  ASSUME NEW reports \in Seq(TurnReport), NEW r \in TurnReport
  PROVE  AddTurn(Summed(reports), r) = Summed(Append(reports, r))
<1> DEFINE more == Append(reports, r)
           n == Len(reports)
<1>1. /\ more \in Seq(TurnReport) /\ Len(more) = n + 1 /\ n \in Nat
      /\ DOMAIN more = 1..n + 1 /\ DOMAIN reports = 1..n
      /\ \A i \in 1..n : more[i] = reports[i]
      /\ more[n + 1] = r
  BY AppendIs
<1>2. /\ DOMAIN Tokens(reports) = 1..n
      /\ \A i \in 1..n : Tokens(reports)[i] = reports[i].tokens
      /\ UsedIn(reports) \in Nat
  BY TokensType
<1>3. /\ DOMAIN Tokens(more) = 1..n + 1
      /\ \A i \in 1..n + 1 : Tokens(more)[i] = more[i].tokens
  <2> HIDE DEF more
  <2> QED
    BY <1>1, TokensType
<1>4. UsedIn(more) = UsedIn(reports) + Zero(r.tokens)
  BY UsedAppend
<1>5. more # <<>> /\ (reports = <<>> <=> n = 0)
  BY <1>1
<1>6. AllReported(more) <=> AllReported(reports) /\ r.tokens # Missing
  <2> HIDE DEF more
  <2>1. AllReported(reports) <=> \A i \in 1..n : reports[i].tokens # Missing
    BY <1>1, <1>2 DEF AllReported, Known
  <2>2. AllReported(more) <=> \A i \in 1..n + 1 : more[i].tokens # Missing
    BY <1>1, <1>3 DEF AllReported, Known
  <2>3. \A i \in 1..n + 1 : i \in 1..n \/ i = n + 1
    BY <1>1
  <2>4. 1..n \subseteq 1..n + 1 /\ n + 1 \in 1..n + 1
    BY <1>1
  <2> QED
    BY <1>1, <2>1, <2>2, <2>3, <2>4
<1>7. reports = <<>> => AllReported(reports) /\ UsedIn(reports) = 0
  <2>1. Known(Tokens(<<>>)) = {} /\ DOMAIN <<>> = {}
    BY DEF Known, Tokens, Each
  <2> QED
    BY <2>1, UsedNothing DEF AllReported
<1>8. r.tokens # Missing => r.tokens \in Nat /\ Zero(r.tokens) = r.tokens
  BY DEF TurnReport, Amount, Zero
<1>9. /\ Summed(reports).turns = n
      /\ Summed(reports).reports = reports
      /\ Summed(reports).available = (reports # <<>> /\ AllReported(reports))
      /\ Summed(reports).input = IF reports # <<>> /\ AllReported(reports) THEN UsedIn(reports) ELSE Missing
  BY DEF Summed
<1> DEFINE b == Summed(reports)
           yes == r.tokens # Missing /\ (b.turns = 0 \/ b.available)
           added == IF ~yes THEN Missing
                    ELSE IF b.input = Missing THEN r.tokens ELSE b.input + r.tokens
<1>10. yes <=> AllReported(more)
  BY <1>5, <1>6, <1>7, <1>9
<1>11. added = IF AllReported(more) THEN UsedIn(more) ELSE Missing
  <2>1. CASE ~AllReported(more)
    BY <1>10, <2>1
  <2>2. CASE AllReported(more) /\ reports = <<>>
    <3>1. b.input = Missing
      BY <1>9, <2>2
    <3>2. added = r.tokens
      BY <1>10, <2>2, <3>1
    <3> QED
      BY <1>4, <1>6, <1>7, <1>8, <2>2, <3>2
  <2>3. CASE AllReported(more) /\ reports # <<>>
    <3>1. b.input = UsedIn(reports) /\ b.input # Missing
      BY <1>2, <1>6, <1>9, <2>3, MissingAssumption
    <3>2. added = UsedIn(reports) + r.tokens
      BY <1>10, <2>3, <3>1
    <3> QED
      BY <1>4, <1>6, <1>8, <2>3, <3>2
  <2> QED
    BY <2>1, <2>2, <2>3
<1> DEFINE cov == ReportsCoverage(more)
           cst == SumKnown(Costs(more))
           ccov == Coverage(Cardinality(Known(Costs(more))), Len(more), TRUE)
           ok == more # <<>> /\ AllReported(more)
<1>12. AddTurn(b, r) =
         [b EXCEPT !.turns = n + 1, !.reports = more, !.available = yes, !.input = added,
                   !.coverage = cov, !.cost = cst, !.costCoverage = ccov]
  <2>1. b.reports = reports /\ b.turns = n
    BY <1>9
  <2> HIDE DEF b
  <2> QED
    BY <2>1 DEF AddTurn
<1>13. Summed(more) =
         [turns |-> n + 1, available |-> ok, input |-> IF ok THEN UsedIn(more) ELSE Missing,
          reports |-> more, coverage |-> cov, cost |-> cst, costCoverage |-> ccov]
  <2>1. Len(more) = n + 1
    BY <1>1
  <2> QED
    BY <2>1 DEF Summed
<1>14. yes = ok
  <2>1. yes \in BOOLEAN /\ ok \in BOOLEAN
    BY DEF AllReported
  <2>2. yes <=> ok
    BY <1>5, <1>10
  <2> HIDE DEF yes, ok
  <2> QED
    BY <2>1, <2>2
<1>15. added = IF ok THEN UsedIn(more) ELSE Missing
  BY <1>5, <1>11
<1>16. \E v1, v2, v3, v4, v5, v6, v7 :
         b = [turns |-> v1, available |-> v2, input |-> v3, reports |-> v4,
              coverage |-> v5, cost |-> v6, costCoverage |-> v7]
  BY DEF Summed
<1> HIDE DEF b, yes, added, more, ok, cov, cst, ccov
<1>17. AddTurn(b, r) =
         [turns |-> n + 1, available |-> yes, input |-> added,
          reports |-> more, coverage |-> cov, cost |-> cst, costCoverage |-> ccov]
  BY <1>12, <1>16
<1> QED
  BY <1>13, <1>14, <1>15, <1>17 DEF b, more

\* Complete coverage is that of reports that all have tokens, and all of them.
LEMMA CompleteMeansAll ==
  ASSUME NEW reports \in Seq(TurnReport), ReportsCoverage(reports) = "complete"
  PROVE  /\ reports # <<>> /\ AllReported(reports)
         /\ AllComplete(reports, DOMAIN reports)
<1> DEFINE with == Known(Tokens(reports))
<1>1. DOMAIN reports = 1..Len(reports) /\ Len(reports) \in Nat
  OBVIOUS
<1>2. IsFiniteSet(DOMAIN reports) /\ with \in SUBSET DOMAIN reports
  <2>1. IsFiniteSet(1..Len(reports))
    BY <1>1, FS_Interval
  <2>2. DOMAIN Tokens(reports) = DOMAIN reports
    BY <1>1, TokensType
  <2> QED
    BY <1>1, <2>1, <2>2 DEF Known
<1>3. /\ Cardinality(with) # 0 /\ Cardinality(with) = Cardinality(DOMAIN reports)
      /\ AllComplete(reports, with)
  BY DEF ReportsCoverage, Coverage
<1>4. with = DOMAIN reports
  BY <1>2, <1>3, FS_Subset
<1>5. DOMAIN reports # {}
  BY <1>3, <1>4, FS_EmptySet
<1> QED
  BY <1>1, <1>3, <1>4, <1>5 DEF AllReported

\* What token_usage.py finds in a bucket's reports is what the bucket says.
LEMMA ReportAgrees ==
  ASSUME NEW reports \in Seq(TurnReport)
  PROVE  LET again == Account(reports, Each(reports, NativeResolution))
             bucket == Summed(reports)
         IN /\ again.tokenCoverage = bucket.coverage
            /\ again.input # Missing => again.input = bucket.input
            /\ again.reported = bucket.cost
            /\ again.costCoverage = bucket.costCoverage
<1> DEFINE rs == Each(reports, NativeResolution)
           again == Account(reports, rs)
           bucket == Summed(reports)
           n == Len(reports)
<1>1. DOMAIN reports = 1..n /\ n \in Nat /\ DOMAIN Costs(reports) = 1..n /\ DOMAIN Tokens(reports) = 1..n
  BY TokensType
<1>2. /\ DOMAIN rs = 1..n
      /\ \A i \in 1..n : rs[i] = NativeResolution(reports[i])
  BY <1>1 DEF Each
<1>3. \A i \in 1..n : /\ rs[i].amount = reports[i].cost
                      /\ rs[i].kind = "reported" <=> reports[i].cost # Missing
                      /\ rs[i].kind # "estimated"
  <2> SUFFICES ASSUME NEW i \in 1..n
               PROVE  /\ rs[i].amount = reports[i].cost
                      /\ rs[i].kind = "reported" <=> reports[i].cost # Missing
                      /\ rs[i].kind # "estimated"
    OBVIOUS
  <2>1. rs[i] = NativeResolution(reports[i])
    BY <1>2
  <2> HIDE DEF rs
  <2>2. CASE reports[i].cost = Missing
    <3>1. rs[i] = Unresolved
      BY <2>1, <2>2 DEF NativeResolution
    <3> QED
      BY <2>2, <3>1 DEF Unresolved
  <2>3. CASE reports[i].cost # Missing
    <3>1. rs[i] = [kind |-> "reported", amount |-> reports[i].cost, coverage |-> "complete"]
      BY <2>1, <2>3 DEF NativeResolution
    <3> QED
      BY <2>3, <3>1
  <2> QED
    BY <2>2, <2>3
<1>4. Amounts(rs) = Costs(reports)
  <2>1. Amounts(rs) = [i \in 1..n |-> rs[i].amount]
    BY <1>2 DEF Amounts, Each
  <2>2. Costs(reports) = [i \in 1..n |-> reports[i].cost]
    BY <1>1 DEF Costs, Each
  <2> HIDE DEF rs
  <2> QED
    BY <1>3, <2>1, <2>2
<1>5. OfKind(rs, "reported") = Known(Costs(reports))
  <2>1. \A i \in 1..n : Costs(reports)[i] = reports[i].cost
    BY TokensType
  <2> HIDE DEF rs
  <2> QED
    BY <1>1, <1>2, <1>3, <2>1 DEF OfKind, Known
<1>6. OfKind(rs, "estimated") = {}
  <2> HIDE DEF rs
  <2> QED
    BY <1>2, <1>3 DEF OfKind
<1>7. Cardinality(DOMAIN reports) = n
  BY <1>1, FS_Interval
<1> HIDE DEF rs
<1>8. again.tokenCoverage = bucket.coverage
  BY DEF Account, Summed
<1>9. again.reported = bucket.cost
  BY <1>4, <1>5 DEF Account, Summed, SumKnown
<1>10. again.costCoverage = bucket.costCoverage
  <2>1. AllComplete(rs, {})
    BY DEF AllComplete
  <2>2. again.costCoverage = Coverage(Cardinality(Known(Costs(reports))), n, AllComplete(rs, {}))
    BY <1>4, <1>6, <1>7 DEF Account
  <2>3. bucket.costCoverage = Coverage(Cardinality(Known(Costs(reports))), n, TRUE)
    BY DEF Summed
  <2> QED
    BY <2>1, <2>2, <2>3 DEF Coverage
<1>11. again.input # Missing => again.input = bucket.input
  <2>1. again.input = IF ReportsCoverage(reports) = "complete" THEN SumKnown(Tokens(reports)) ELSE Missing
    BY DEF Account
  <2> SUFFICES ASSUME ReportsCoverage(reports) = "complete"
               PROVE  SumKnown(Tokens(reports)) = bucket.input
    BY <2>1
  <2>2. reports # <<>> /\ AllReported(reports)
    BY CompleteMeansAll
  <2>3. bucket.input = UsedIn(reports)
    BY <2>2 DEF Summed
  <2>4. Known(Tokens(reports)) # {}
    <3>1. n # 0
      BY <2>2
    <3>2. 1 \in 1..n
      BY <1>1, <3>1
    <3> QED
      BY <1>1, <2>2, <3>2 DEF AllReported
  <2> QED
    BY <2>3, <2>4 DEF SumKnown, SumAt, UsedIn, KnownSum
<1> QED
  BY <1>8, <1>9, <1>10, <1>11 DEF rs

-----------------------------------------------------------------------------
(* The tokens of one trial (UsageTrail).                                    *)

\* The reports of some turns, or of some logged turns.
ReportsIn(seq) == [i \in DOMAIN seq |-> seq[i].report]

\* They are reports, one for each.
LEMMA ReportsInType ==
  ASSUME NEW S, \A e \in S : e.report \in TurnReport, NEW s \in Seq(S)
  PROVE  /\ ReportsIn(s) \in Seq(TurnReport) /\ Len(ReportsIn(s)) = Len(s)
         /\ DOMAIN ReportsIn(s) = 1..Len(s) /\ DOMAIN s = 1..Len(s) /\ Len(s) \in Nat
         /\ \A i \in 1..Len(s) : ReportsIn(s)[i] = s[i].report /\ s[i] \in S
<1>1. DOMAIN s = 1..Len(s) /\ Len(s) \in Nat /\ \A i \in 1..Len(s) : s[i] \in S
  OBVIOUS
<1>2. ReportsIn(s) = [i \in 1..Len(s) |-> s[i].report]
  BY <1>1 DEF ReportsIn
<1> QED
  BY <1>1, <1>2

\* Those of a sequence and one entry more.
LEMMA ReportsInAppend ==
  ASSUME NEW S, \A e \in S : e.report \in TurnReport, NEW s \in Seq(S), NEW e \in S
  PROVE  ReportsIn(Append(s, e)) = Append(ReportsIn(s), e.report)
<1> DEFINE more == Append(s, e)
           old == ReportsIn(s)
           new == ReportsIn(more)
           both == Append(old, e.report)
<1>1. more \in Seq(S) /\ Len(more) = Len(s) + 1 /\ more[Len(s) + 1] = e
      /\ \A i \in 1..Len(s) : more[i] = s[i]
  BY AppendIs
<1>2. /\ old \in Seq(TurnReport) /\ Len(old) = Len(s) /\ Len(s) \in Nat
      /\ \A i \in 1..Len(s) : old[i] = s[i].report
  BY ReportsInType
<1> HIDE DEF more, old
<1>3. /\ new \in Seq(TurnReport) /\ Len(new) = Len(s) + 1
      /\ \A i \in 1..Len(s) + 1 : new[i] = more[i].report
  BY <1>1, ReportsInType
<1>4. e.report \in TurnReport
  OBVIOUS
<1>5. /\ both \in Seq(TurnReport) /\ Len(both) = Len(s) + 1 /\ both[Len(s) + 1] = e.report
      /\ \A i \in 1..Len(s) : both[i] = s[i].report
  BY <1>2, <1>4, AppendIs
<1> HIDE DEF new, both
<1>6. \A i \in 1..Len(s) + 1 : new[i] = both[i]
  BY <1>1, <1>2, <1>3, <1>5
<1>7. new = both
  BY <1>2, <1>3, <1>5, <1>6
<1> QED
  BY <1>7 DEF new, both, old, more

\* A report is complete, and so are all, if all the others were.
LEMMA CompleteAppend ==
  ASSUME NEW reports \in Seq(TurnReport), NEW r \in TurnReport
  PROVE  AllComplete(Append(reports, r), DOMAIN Append(reports, r)) <=>
           AllComplete(reports, DOMAIN reports) /\ r.coverage = "complete"
<1> DEFINE more == Append(reports, r)
           n == Len(reports)
<1>1. /\ DOMAIN more = 1..n + 1 /\ more[n + 1] = r /\ n \in Nat /\ DOMAIN reports = 1..n
      /\ \A i \in 1..n : more[i] = reports[i]
  BY AppendIs
<1>2. (\A i \in 1..n + 1 : i \in 1..n \/ i = n + 1) /\ n + 1 \in 1..n + 1 /\ 1..n \subseteq 1..n + 1
  BY <1>1
<1> HIDE DEF more, n
<1>3. AllComplete(more, 1..n + 1) <=> AllComplete(reports, 1..n) /\ r.coverage = "complete"
  BY <1>1, <1>2 DEF AllComplete
<1> QED
  BY <1>1, <1>3 DEF more

-----------------------------------------------------------------------------
\* An entry of the history.
TurnEntry == [role : TurnRoles, report : TurnReport]
\* An entry of the event log.
LogEntry ==
  [label : {"modify", "review", "revise", "final-revision", "end"} \X Nat \X Nat,
   session : Nat, done : BOOLEAN, report : TurnReport]

\* Where the workflow is, and how many turns, sessions and log entries there are.
WorkflowInv ==
  /\ stage \in {"modify", "review", "revise", "final-revision", "end"}
  /\ round \in 0..LastReview /\ try \in 1..LastAttempt
  /\ stage = "revise" => round < LastReview
  /\ turns \in Seq(TurnEntry)
  /\ session \in 0..sessions /\ sessions \in 0..Len(turns)

\* The turns of a role.
TurnsOf(r) == {i \in DOMAIN turns : turns[i].role = r}
\* Every role's bucket is what its turns' reports come to, and what both roles used is what
\* the trial used.
BucketsInv ==
  /\ DOMAIN buckets = TurnRoles
  /\ \A r \in TurnRoles :
       /\ buckets[r].reports \in Seq(TurnReport)
       /\ buckets[r] = Summed(buckets[r].reports)
       /\ Len(buckets[r].reports) = Cardinality(TurnsOf(r))
  /\ ReallyUsed = UsedIn(buckets["modifier"].reports) + UsedIn(buckets["reviewer"].reports)
  /\ ReallyComplete <=>
       \A r \in TurnRoles : AllComplete(buckets[r].reports, DOMAIN buckets[r].reports)

\* The log's reports are some of the turns' own: what they used is no more than was really
\* used, and with an entry for every turn it is exactly that.
LogInv ==
  /\ log \in Seq(LogEntry)
  /\ \A i \in DOMAIN log : log[i].done \/ log[i].report = NoReport
  /\ Len(log) <= Len(turns)
  /\ Len(log) = Len(turns) => \A i \in DOMAIN log : log[i].report = turns[i].report
  /\ UsedIn(ReportsIn(log)) <= ReallyUsed

\* What was read of the trial, at each stage of the reading.
FilledInv ==
  /\ at \in {"working", "finished", "summary read", "done"}
  /\ at = "working" => summary = Missing
  /\ summary = Missing \/ summary = buckets
  /\ at \in {"working", "finished"} => context = Unfilled
  /\ at = "summary read" => context.input = SummaryInput
  /\ at = "done" => context.input = IF log = <<>> THEN SummaryInput ELSE TrajectoryTotal

\* Inductive, and what TrialTotalsAreWhole follows from.
TrailInv == WorkflowInv /\ BucketsInv /\ LogInv /\ FilledInv

\* The entries of the history and of the log have reports.
LEMMA EntriesReport ==
  /\ \A e \in TurnEntry : e.report \in TurnReport
  /\ \A e \in LogEntry : e.report \in TurnReport
BY DEF TurnEntry, LogEntry

\* AllReports and ReallyUsed in these words.
LEMMA ReportsAsked ==
  ASSUME WorkflowInv
  PROVE  /\ AllReports = ReportsIn(turns) /\ AllReports \in Seq(TurnReport)
         /\ Len(AllReports) = Len(turns) /\ DOMAIN AllReports = DOMAIN turns
         /\ DOMAIN turns = 1..Len(turns) /\ Len(turns) \in Nat
         /\ \A i \in DOMAIN turns : AllReports[i] = turns[i].report /\ turns[i] \in TurnEntry
         /\ ReallyUsed = UsedIn(AllReports) /\ ReallyUsed \in Nat
<1>1. AllReports = ReportsIn(turns)
  BY DEF AllReports, Each, ReportsIn
<1>2. turns \in Seq(TurnEntry)
  BY DEF WorkflowInv
<1>3. /\ ReportsIn(turns) \in Seq(TurnReport) /\ Len(ReportsIn(turns)) = Len(turns)
      /\ DOMAIN ReportsIn(turns) = 1..Len(turns) /\ DOMAIN turns = 1..Len(turns) /\ Len(turns) \in Nat
      /\ \A i \in 1..Len(turns) : ReportsIn(turns)[i] = turns[i].report /\ turns[i] \in TurnEntry
  BY <1>2, EntriesReport, ReportsInType
<1>4. ReallyUsed = UsedIn(AllReports)
  BY DEF ReallyUsed, UsedIn, KnownSum
<1>5. UsedIn(AllReports) \in Nat
  BY <1>1, <1>3, TokensType
<1> QED
  BY <1>1, <1>3, <1>4, <1>5

-----------------------------------------------------------------------------
\* Nothing was used, nothing reported.
LEMMA TrailStart ==
  ASSUME WorkflowAssumption, TrailInit
  PROVE  TrailInv
<1>1. WorkflowInv
  <2>1. <<>> \in Seq(TurnEntry) /\ Len(<<>>) = 0
    OBVIOUS
  <2> QED
    BY <2>1 DEF WorkflowInv, TrailInit, WorkflowAssumption
<1>2. AllReports = <<>> /\ ReportsIn(log) = <<>> /\ DOMAIN turns = {} /\ DOMAIN log = {}
  BY DEF AllReports, Each, ReportsIn, TrailInit
<1>3. ReallyUsed = 0 /\ ReallyComplete /\ UsedIn(ReportsIn(log)) = 0
  <2>1. ReallyUsed = 0
    BY <1>2, UsedNothing DEF ReallyUsed, UsedIn, KnownSum
  <2> QED
    BY <1>2, <2>1, UsedNothing DEF ReallyComplete, AllComplete
<1>4. \A r \in TurnRoles : buckets[r] = Summed(<<>>) /\ buckets[r].reports = <<>>
  <2>1. \A r \in TurnRoles : buckets[r] = EmptyBucket
    BY DEF TrailInit
  <2>2. EmptyBucket.reports = <<>>
    BY DEF EmptyBucket
  <2> QED
    BY <2>1, <2>2, EmptyIsSummed
<1>5. BucketsInv
  <2>1. \A r \in TurnRoles : TurnsOf(r) = {}
    BY <1>2 DEF TurnsOf
  <2>2. <<>> \in Seq(TurnReport) /\ Len(<<>>) = 0 /\ DOMAIN <<>> = {}
    OBVIOUS
  <2>3. \A r \in TurnRoles :
          /\ buckets[r].reports \in Seq(TurnReport)
          /\ buckets[r] = Summed(buckets[r].reports)
          /\ Len(buckets[r].reports) = Cardinality(TurnsOf(r))
    BY <1>4, <2>1, <2>2, FS_EmptySet
  <2>4. "modifier" \in TurnRoles /\ "reviewer" \in TurnRoles
    BY DEF TurnRoles
  <2>5. ReallyUsed = UsedIn(buckets["modifier"].reports) + UsedIn(buckets["reviewer"].reports)
    BY <1>3, <1>4, <2>4, UsedNothing
  <2>6. \A r \in TurnRoles : AllComplete(buckets[r].reports, DOMAIN buckets[r].reports)
    BY <1>4, <2>2 DEF AllComplete
  <2>7. DOMAIN buckets = TurnRoles
    BY DEF TrailInit
  <2> QED
    BY <1>3, <2>3, <2>5, <2>6, <2>7 DEF BucketsInv
<1>6. LogInv
  <2>1. log = <<>> /\ turns = <<>> /\ <<>> \in Seq(LogEntry)
    BY DEF TrailInit
  <2> QED
    BY <1>2, <1>3, <2>1 DEF LogInv
<1>7. FilledInv
  BY DEF FilledInv, TrailInit
<1> QED
  BY <1>1, <1>5, <1>6, <1>7 DEF TrailInv

\* The cases of a turn's end.
LEMMA EndOfTurn ==
  ASSUME ReportsAssumption, WorkflowInv, EndSomeTurn
  PROVE  \E logged \in {"done", "opened", "nothing"}, report \in TurnReport, s \in Nat :
           /\ logged # "done" => report = NoReport
           /\ s = sessions + 1 \/ (stage # "review" /\ s = session)
           /\ RecordTurn(logged, report, s)
<1>1. PICK logged \in {"done", "opened", "nothing"} :
        \E report \in IF logged = "done" THEN Reports ELSE {NoReport} :
        \E kept \in IF stage = "review" \/ session = 0 THEN {FALSE} ELSE KeepsSession :
          RecordTurn(logged, report, IF kept THEN session ELSE sessions + 1)
  BY DEF EndSomeTurn
<1>2. PICK report \in IF logged = "done" THEN Reports ELSE {NoReport} :
        \E kept \in IF stage = "review" \/ session = 0 THEN {FALSE} ELSE KeepsSession :
          RecordTurn(logged, report, IF kept THEN session ELSE sessions + 1)
  BY <1>1
<1>3. PICK kept \in IF stage = "review" \/ session = 0 THEN {FALSE} ELSE KeepsSession :
        RecordTurn(logged, report, IF kept THEN session ELSE sessions + 1)
  BY <1>2
<1> DEFINE s == IF kept THEN session ELSE sessions + 1
<1>4. s = sessions + 1 \/ (stage # "review" /\ s = session)
  BY <1>3
<1>5. report \in TurnReport /\ (logged # "done" => report = NoReport)
  <2>1. NoReport \in TurnReport
    BY DEF NoReport, TurnReport, Amount, CoverageKinds
  <2> QED
    BY <1>2, <2>1 DEF ReportsAssumption
<1>6. s \in Nat
  BY <1>4 DEF WorkflowInv
<1> HIDE DEF s
<1>7. RecordTurn(logged, report, s)
  BY <1>3 DEF s
<1> QED
  BY <1>4, <1>5, <1>6, <1>7

\* What RecordTurn does to the lists.
LEMMA TurnRecorded ==
  ASSUME WorkflowInv, NEW logged, NEW report \in TurnReport, NEW s \in Nat,
         RecordTurn(logged, report, s)
  PROVE  /\ TurnRole(stage) \in TurnRoles
         /\ [role |-> TurnRole(stage), report |-> report] \in TurnEntry
         /\ turns' = Append(turns, [role |-> TurnRole(stage), report |-> report])
         /\ turns' \in Seq(TurnEntry) /\ Len(turns') = Len(turns) + 1 /\ Len(turns) \in Nat
         /\ DOMAIN turns = 1..Len(turns) /\ DOMAIN turns' = 1..Len(turns) + 1
         /\ \A i \in 1..Len(turns) : turns'[i] = turns[i]
         /\ turns'[Len(turns) + 1] = [role |-> TurnRole(stage), report |-> report]
         /\ AllReports' = Append(AllReports, report)
         /\ ReallyUsed' = ReallyUsed + Zero(report.tokens)
         /\ ReallyUsed \in Nat /\ ReallyUsed' \in Nat /\ Zero(report.tokens) \in Nat
         /\ ReallyComplete' <=> ReallyComplete /\ report.coverage = "complete"
<1> DEFINE entry == [role |-> TurnRole(stage), report |-> report]
<1>1. TurnRole(stage) \in TurnRoles
  BY DEF TurnRole, TurnRoles
<1>2. entry \in TurnEntry /\ entry.report = report
  BY <1>1 DEF TurnEntry
<1>3. turns \in Seq(TurnEntry) /\ turns' = Append(turns, entry)
  BY DEF WorkflowInv, RecordTurn
<1> HIDE DEF entry
<1>4. /\ turns' \in Seq(TurnEntry) /\ Len(turns') = Len(turns) + 1 /\ Len(turns) \in Nat
      /\ DOMAIN turns = 1..Len(turns) /\ DOMAIN turns' = 1..Len(turns) + 1
      /\ \A i \in 1..Len(turns) : turns'[i] = turns[i]
      /\ turns'[Len(turns) + 1] = entry
  BY <1>2, <1>3, AppendIs
<1>5. /\ AllReports = ReportsIn(turns) /\ AllReports \in Seq(TurnReport)
      /\ DOMAIN AllReports = DOMAIN turns
      /\ ReallyUsed = UsedIn(AllReports) /\ ReallyUsed \in Nat
  BY ReportsAsked
<1>6. AllReports' = Append(AllReports, report)
  <2>1. ReportsIn(Append(turns, entry)) = Append(ReportsIn(turns), report)
    BY <1>2, <1>3, EntriesReport, ReportsInAppend
  <2>2. AllReports' = ReportsIn(turns')
    BY DEF AllReports, Each, ReportsIn
  <2> QED
    BY <1>3, <1>5, <2>1, <2>2
<1>7. ReallyUsed' = UsedIn(AllReports')
  BY DEF ReallyUsed, UsedIn, KnownSum
<1>8. Zero(report.tokens) \in Nat
  BY AmountCounts DEF TurnReport
<1>9. ReallyUsed' = ReallyUsed + Zero(report.tokens)
  BY <1>5, <1>6, <1>7, UsedAppend
<1>10. ReallyComplete' <=> ReallyComplete /\ report.coverage = "complete"
  <2>1. ReallyComplete <=> AllComplete(AllReports, DOMAIN AllReports)
    BY <1>5 DEF ReallyComplete
  <2>2. DOMAIN AllReports' = DOMAIN turns'
    BY DEF AllReports, Each
  <2>3. ReallyComplete' <=> AllComplete(AllReports', DOMAIN AllReports')
    BY <2>2 DEF ReallyComplete
  <2> QED
    BY <1>5, <1>6, <2>1, <2>3, CompleteAppend
<1> QED
  BY <1>1, <1>2, <1>3, <1>4, <1>5, <1>6, <1>8, <1>9, <1>10 DEF entry

\* A turn's end keeps the workflow in its bounds.
LEMMA WorkflowStep ==
  ASSUME ReportsAssumption, WorkflowAssumption, WorkflowInv, EndSomeTurn
  PROVE  WorkflowInv'
<1>1. PICK logged \in {"done", "opened", "nothing"}, report \in TurnReport, s \in Nat :
        /\ logged # "done" => report = NoReport
        /\ s = sessions + 1 \/ (stage # "review" /\ s = session)
        /\ RecordTurn(logged, report, s)
  BY EndOfTurn
<1>2. turns' \in Seq(TurnEntry) /\ Len(turns') = Len(turns) + 1 /\ Len(turns) \in Nat
  BY <1>1, TurnRecorded
<1>3. /\ session' = IF stage = "review" THEN session ELSE s
      /\ sessions' = IF s > sessions THEN s ELSE sessions
  BY <1>1 DEF RecordTurn
<1>4. session' \in 0..sessions' /\ sessions' \in 0..Len(turns')
  <2>1. session \in 0..sessions /\ sessions \in 0..Len(turns)
    BY DEF WorkflowInv
  <2>2. CASE stage # "review" /\ s = session
    BY <1>2, <1>3, <2>1, <2>2
  <2>3. CASE s = sessions + 1
    BY <1>2, <1>3, <2>1, <2>3
  <2> QED
    BY <1>1, <2>2, <2>3
<1>5. /\ stage' \in {"modify", "review", "revise", "final-revision", "end"}
      /\ round' \in 0..LastReview /\ try' \in 1..LastAttempt
      /\ stage' = "revise" => round' < LastReview
  <2>1. /\ stage \in {"modify", "review", "revise", "final-revision", "end"}
        /\ round \in 0..LastReview /\ try \in 1..LastAttempt
        /\ stage = "revise" => round < LastReview
        /\ LastReview \in Nat \ {0} /\ LastAttempt \in Nat \ {0}
    BY DEF WorkflowInv, WorkflowAssumption
  <2>2. CASE \E goal \in AfterOk : stage' = goal[1] /\ round' = goal[2] /\ try' = 1
    <3>1. CASE stage = "modify"
      BY <2>1, <2>2, <3>1 DEF AfterOk
    <3>2. CASE stage = "review"
      BY <2>1, <2>2, <3>2 DEF AfterOk
    <3>3. CASE stage = "revise"
      BY <2>1, <2>2, <3>3 DEF AfterOk
    <3>4. CASE stage \notin {"modify", "review", "revise"}
      BY <2>1, <2>2, <3>4 DEF AfterOk
    <3> QED
      BY <3>1, <3>2, <3>3, <3>4
  <2>3. CASE try < LastAttempt /\ try' = try + 1 /\ UNCHANGED <<stage, round>>
    BY <2>1, <2>3
  <2>4. CASE stage' = "end" /\ UNCHANGED <<round, try>>
    BY <2>1, <2>4
  <2> QED
    BY <2>2, <2>3, <2>4 DEF EndSomeTurn
<1> QED
  BY <1>2, <1>4, <1>5 DEF WorkflowInv

\* A turn's end adds its report to one bucket and to the trial.
LEMMA BucketsStep ==
  ASSUME WorkflowInv, BucketsInv, NEW logged, NEW report \in TurnReport, NEW s \in Nat,
         RecordTurn(logged, report, s), NEW me, me = TurnRole(stage)
  PROVE  BucketsInv'
<1> DEFINE mine == buckets[me].reports
           n == Len(turns) + 1
<1>1. /\ me \in TurnRoles
      /\ DOMAIN turns = 1..Len(turns) /\ DOMAIN turns' = 1..n /\ Len(turns) \in Nat
      /\ \A i \in 1..Len(turns) : turns'[i] = turns[i]
      /\ turns'[n].role = me
      /\ ReallyUsed' = ReallyUsed + Zero(report.tokens)
      /\ ReallyUsed \in Nat /\ Zero(report.tokens) \in Nat
      /\ ReallyComplete' <=> ReallyComplete /\ report.coverage = "complete"
  <2>1. /\ TurnRole(stage) \in TurnRoles
        /\ DOMAIN turns = 1..Len(turns) /\ DOMAIN turns' = 1..Len(turns) + 1 /\ Len(turns) \in Nat
        /\ \A i \in 1..Len(turns) : turns'[i] = turns[i]
        /\ turns'[Len(turns) + 1] = [role |-> TurnRole(stage), report |-> report]
    BY TurnRecorded
  <2>2. /\ ReallyUsed' = ReallyUsed + Zero(report.tokens)
        /\ ReallyUsed \in Nat /\ Zero(report.tokens) \in Nat
        /\ ReallyComplete' <=> ReallyComplete /\ report.coverage = "complete"
    BY TurnRecorded
  <2>3. turns'[n].role = me
    BY <2>1
  <2> QED
    BY <2>1, <2>2, <2>3
<1>2. buckets' = [buckets EXCEPT ![me] = AddTurn(buckets[me], report)]
  BY DEF RecordTurn
<1>3. /\ DOMAIN buckets = TurnRoles
      /\ \A r \in TurnRoles :
           /\ buckets[r].reports \in Seq(TurnReport)
           /\ buckets[r] = Summed(buckets[r].reports)
           /\ Len(buckets[r].reports) = Cardinality(TurnsOf(r))
      /\ ReallyUsed = UsedIn(buckets["modifier"].reports) + UsedIn(buckets["reviewer"].reports)
      /\ ReallyComplete <=>
           \A r \in TurnRoles : AllComplete(buckets[r].reports, DOMAIN buckets[r].reports)
  BY DEF BucketsInv
<1>4. DOMAIN buckets' = TurnRoles /\ \A r \in TurnRoles : r # me => buckets'[r] = buckets[r]
  BY <1>2, <1>3
<1>5. buckets'[me] = Summed(Append(mine, report))
  <2>1. buckets'[me] = AddTurn(buckets[me], report)
    BY <1>1, <1>2, <1>3
  <2>2. mine \in Seq(TurnReport) /\ buckets[me] = Summed(mine)
    BY <1>1, <1>3
  <2> HIDE DEF mine
  <2> QED
    BY <2>1, <2>2, AddTurnSums
<1>6. buckets'[me].reports = Append(mine, report)
  BY <1>5 DEF Summed
<1>7. mine \in Seq(TurnReport)
  BY <1>1, <1>3
<1> HIDE DEF mine
<1>8. /\ Append(mine, report) \in Seq(TurnReport) /\ Len(Append(mine, report)) = Len(mine) + 1
      /\ UsedIn(Append(mine, report)) = UsedIn(mine) + Zero(report.tokens)
      /\ AllComplete(Append(mine, report), DOMAIN Append(mine, report)) <=>
           AllComplete(mine, DOMAIN mine) /\ report.coverage = "complete"
  BY <1>7, AppendIs, UsedAppend, CompleteAppend
<1>9. /\ TurnsOf(me)' = TurnsOf(me) \union {n}
      /\ \A r \in TurnRoles : r # me => TurnsOf(r)' = TurnsOf(r)
      /\ n \notin TurnsOf(me) /\ IsFiniteSet(TurnsOf(me))
  <2>1. IsFiniteSet(1..Len(turns))
    <3>1. Len(turns) \in Int /\ 1 \in Int
      BY <1>1
    <3> QED
      BY <3>1, FS_Interval
  <2>2. IsFiniteSet(TurnsOf(me))
    BY <1>1, <2>1, FS_Subset DEF TurnsOf
  <2>3. (\A i \in 1..n : i \in 1..Len(turns) \/ i = n) /\ n \in 1..n /\ 1..Len(turns) \subseteq 1..n
        /\ n \notin 1..Len(turns)
    BY <1>1
  <2> HIDE DEF n
  <2> QED
    BY <1>1, <2>2, <2>3 DEF TurnsOf
<1>10. Cardinality(TurnsOf(me)') = Cardinality(TurnsOf(me)) + 1
  BY <1>9, FS_AddElement
<1>11. \A r \in TurnRoles :
         /\ buckets'[r].reports \in Seq(TurnReport)
         /\ buckets'[r] = Summed(buckets'[r].reports)
         /\ Len(buckets'[r].reports) = Cardinality(TurnsOf(r)')
  <2> SUFFICES ASSUME NEW r \in TurnRoles
               PROVE  /\ buckets'[r].reports \in Seq(TurnReport)
                      /\ buckets'[r] = Summed(buckets'[r].reports)
                      /\ Len(buckets'[r].reports) = Cardinality(TurnsOf(r)')
    OBVIOUS
  <2>1. CASE r = me
    <3>1. Len(mine) = Cardinality(TurnsOf(me))
      BY <1>1, <1>3 DEF mine
    <3> QED
      BY <1>5, <1>6, <1>8, <1>10, <2>1, <3>1
  <2>2. CASE r # me
    BY <1>3, <1>4, <1>9, <2>2
  <2> QED
    BY <2>1, <2>2
<1>12. TurnRoles = {"modifier", "reviewer"} /\ "modifier" # "reviewer"
  BY DEF TurnRoles
<1>13. \A r \in TurnRoles : UsedIn(buckets[r].reports) \in Nat
  BY <1>3, TokensType
<1>14. ReallyUsed' = UsedIn(buckets'["modifier"].reports) + UsedIn(buckets'["reviewer"].reports)
  <2> DEFINE m == UsedIn(buckets["modifier"].reports)
             v == UsedIn(buckets["reviewer"].reports)
             c == Zero(report.tokens)
  <2>1. m \in Nat /\ v \in Nat /\ c \in Nat
    BY <1>1, <1>12, <1>13
  <2>2. ReallyUsed' = m + v + c
    BY <1>1, <1>3
  <2>3. UsedIn(buckets'[me].reports) = UsedIn(buckets[me].reports) + c
    BY <1>6, <1>8 DEF mine
  <2>4. CASE me = "modifier"
    <3>1. buckets'["reviewer"] = buckets["reviewer"]
      BY <1>4, <1>12, <2>4
    <3>2. UsedIn(buckets'["modifier"].reports) = m + c /\ UsedIn(buckets'["reviewer"].reports) = v
      BY <2>3, <2>4, <3>1
    <3> HIDE DEF m, v, c
    <3> QED
      BY <2>1, <2>2, <3>2
  <2>5. CASE me = "reviewer"
    <3>1. buckets'["modifier"] = buckets["modifier"]
      BY <1>4, <1>12, <2>5
    <3>2. UsedIn(buckets'["reviewer"].reports) = v + c /\ UsedIn(buckets'["modifier"].reports) = m
      BY <2>3, <2>5, <3>1
    <3> HIDE DEF m, v, c
    <3> QED
      BY <2>1, <2>2, <3>2
  <2> QED
    BY <1>1, <1>12, <2>4, <2>5
<1>15. ReallyComplete' <=>
         \A r \in TurnRoles : AllComplete(buckets'[r].reports, DOMAIN buckets'[r].reports)
  <2>1. AllComplete(buckets'[me].reports, DOMAIN buckets'[me].reports) <=>
          AllComplete(buckets[me].reports, DOMAIN buckets[me].reports) /\ report.coverage = "complete"
    BY <1>6, <1>8 DEF mine
  <2> DEFINE C(r) == AllComplete(buckets[r].reports, DOMAIN buckets[r].reports)
             D(r) == AllComplete(buckets'[r].reports, DOMAIN buckets'[r].reports)
  <2>2. \A r \in TurnRoles : r # me => (D(r) <=> C(r))
    BY <1>4
  <2>3. D(me) <=> C(me) /\ report.coverage = "complete"
    BY <2>1
  <2>4. ReallyComplete <=> \A r \in TurnRoles : C(r)
    BY <1>3
  <2> HIDE DEF C, D
  <2>5. ReallyComplete' <=> \A r \in TurnRoles : D(r)
    BY <1>1, <2>2, <2>3, <2>4
  <2> QED
    BY <2>5 DEF D
<1> QED
  BY <1>4, <1>11, <1>14, <1>15 DEF BucketsInv

\* A turn's end adds its report to the log, or logs none.
LEMMA LogStep ==
  ASSUME WorkflowInv, LogInv, NEW logged \in {"done", "opened", "nothing"},
         NEW report \in TurnReport, NEW s \in Nat,
         logged # "done" => report = NoReport, RecordTurn(logged, report, s)
  PROVE  LogInv'
<1> DEFINE entry == [label |-> Label(stage, round, try), session |-> s,
                     done |-> logged = "done", report |-> report]
           n == Len(turns)
           l == Len(log)
<1>1. entry \in LogEntry /\ entry.report = report /\ (entry.done \/ entry.report = NoReport)
  <2>1. Label(stage, round, try) \in
          {"modify", "review", "revise", "final-revision", "end"} \X Nat \X Nat
    BY DEF WorkflowInv, Label, WorkflowAssumption
  <2> QED
    BY <2>1 DEF LogEntry
<1>2. log' = IF logged = "nothing" THEN log ELSE Append(log, entry)
  BY DEF RecordTurn
<1> HIDE DEF entry
<1>3. /\ log \in Seq(LogEntry) /\ l <= n
      /\ \A i \in DOMAIN log : log[i].done \/ log[i].report = NoReport
      /\ l = n => \A i \in DOMAIN log : log[i].report = turns[i].report
      /\ UsedIn(ReportsIn(log)) <= ReallyUsed
  BY DEF LogInv
<1>4. /\ DOMAIN log = 1..l /\ l \in Nat /\ ReportsIn(log) \in Seq(TurnReport)
  BY <1>3, EntriesReport, ReportsInType
<1>5. UsedIn(ReportsIn(log)) \in Nat
  BY <1>4, TokensType
<1>6. /\ Len(turns') = n + 1 /\ n \in Nat
      /\ \A i \in 1..n : turns'[i] = turns[i]
      /\ turns'[n + 1] = [role |-> TurnRole(stage), report |-> report]
  BY TurnRecorded
<1>7. /\ ReallyUsed' = ReallyUsed + Zero(report.tokens)
      /\ ReallyUsed \in Nat /\ Zero(report.tokens) \in Nat
  BY TurnRecorded
<1>8. CASE logged = "nothing"
  <2>1. log' = log
    BY <1>2, <1>8
  <2>2. ReportsIn(log)' = ReportsIn(log)
    BY <2>1 DEF ReportsIn
  <2>3. Len(log') <= Len(turns') /\ Len(log') # Len(turns')
    <3>1. Len(log') = l /\ l <= n /\ l \in Nat /\ n \in Nat /\ Len(turns') = n + 1
      BY <1>3, <1>4, <1>6, <2>1
    <3> HIDE DEF l, n
    <3> QED
      BY <3>1
  <2>4. UsedIn(ReportsIn(log))' <= ReallyUsed'
    <3>1. UsedIn(ReportsIn(log))' = UsedIn(ReportsIn(log))
      BY <2>1, <2>2 DEF UsedIn, KnownSum, Tokens, Known, Each
    <3> QED
      BY <1>3, <1>5, <1>7, <3>1
  <2>5. log' \in Seq(LogEntry) /\ \A i \in DOMAIN log' : log'[i].done \/ log'[i].report = NoReport
    BY <1>3, <2>1
  <2> QED
    BY <2>3, <2>4, <2>5 DEF LogInv
<1>9. CASE logged # "nothing"
  <2>1. log' = Append(log, entry)
    BY <1>2, <1>9
  <2>2. /\ log' \in Seq(LogEntry) /\ Len(log') = l + 1 /\ DOMAIN log' = 1..l + 1
        /\ \A i \in 1..l : log'[i] = log[i]
        /\ log'[l + 1] = entry
    BY <1>1, <1>3, <2>1, AppendIs
  <2>3. \A i \in 1..l + 1 : i \in 1..l \/ i = l + 1
    BY <1>4
  <2>4. \A i \in DOMAIN log' : log'[i].done \/ log'[i].report = NoReport
    BY <1>1, <1>3, <1>4, <2>2, <2>3
  <2>5. Len(log') <= Len(turns')
    BY <1>3, <1>4, <1>6, <2>2
  <2>6. ASSUME Len(log') = Len(turns'), NEW i \in DOMAIN log'
        PROVE  log'[i].report = turns'[i].report
    <3>1. l = n
      BY <1>4, <1>6, <2>2, <2>6
    <3>2. CASE i \in 1..l
      BY <1>3, <1>4, <1>6, <2>2, <3>1, <3>2
    <3>3. CASE i = l + 1
      BY <1>1, <1>6, <2>2, <3>1, <3>3
    <3> QED
      BY <2>2, <2>3, <3>2, <3>3
  <2>7. UsedIn(ReportsIn(log)') <= ReallyUsed'
    <3>1. ReportsIn(Append(log, entry)) = Append(ReportsIn(log), report)
      BY <1>1, <1>3, EntriesReport, ReportsInAppend
    <3>2. ReportsIn(log)' = Append(ReportsIn(log), report)
      <4>1. ReportsIn(log)' = ReportsIn(log')
        BY DEF ReportsIn
      <4> QED
        BY <2>1, <3>1, <4>1
    <3>3. UsedIn(Append(ReportsIn(log), report)) = UsedIn(ReportsIn(log)) + Zero(report.tokens)
      BY <1>4, UsedAppend
    <3> QED
      BY <1>3, <1>5, <1>7, <3>2, <3>3
  <2>8. UsedIn(ReportsIn(log))' = UsedIn(ReportsIn(log)')
    BY DEF UsedIn, KnownSum, Tokens, Known, Each
  <2>9. UsedIn(ReportsIn(log))' <= ReallyUsed'
    BY <2>7, <2>8
  <2> QED
    BY <2>2, <2>4, <2>5, <2>6, <2>9 DEF LogInv
<1> QED
  BY <1>8, <1>9

\* Reading and writing.
LEMMA FilledStep ==
  ASSUME FilledInv, EndSomeTurn \/ WriteSummary \/ Killed \/ ReadSummary \/ ReadEvents
  PROVE  FilledInv'
<1>1. CASE EndSomeTurn
  <2>1. at = "working" /\ UNCHANGED <<summary, context, at>>
    BY <1>1 DEF EndSomeTurn
  <2> QED
    BY <2>1 DEF FilledInv
<1>2. CASE WriteSummary
  BY <1>2 DEF WriteSummary, FilledInv
<1>3. CASE Killed
  BY <1>3 DEF Killed, FilledInv
<1>4. CASE ReadSummary
  <2>1. /\ at = "finished" /\ at' = "summary read" /\ context = Unfilled
        /\ context' = [context EXCEPT !.input = SummaryInput]
        /\ UNCHANGED <<summary, buckets>>
    BY <1>4 DEF ReadSummary, FilledInv
  <2>2. context'.input = SummaryInput
    <3> DEFINE v == SummaryInput
    <3> HIDE DEF v
    <3>1. context' = [Unfilled EXCEPT !.input = v]
      BY <2>1 DEF v
    <3>2. context'.input = v
      BY <3>1 DEF Unfilled
    <3> QED
      BY <3>2 DEF v
  <2>3. SummaryInput' = SummaryInput
    BY <2>1 DEF SummaryInput, ActiveRoles, SummaryComplete
  <2> QED
    BY <2>1, <2>2, <2>3 DEF FilledInv
<1>5. CASE ReadEvents
  <2>1. /\ at = "summary read" /\ at' = "done" /\ context.input = SummaryInput
        /\ context' = IF log = <<>> THEN context
                      ELSE [input |-> TrajectoryTotal, steps |-> Cardinality(TurnKeys),
                            coverage |-> ReportsCoverage(StepMetrics)]
        /\ UNCHANGED <<summary, buckets, log>>
    BY <1>5 DEF ReadEvents, FilledInv
  <2>2. SummaryInput' = SummaryInput
    BY <2>1 DEF SummaryInput, ActiveRoles, SummaryComplete
  <2>3. TrajectoryTotal' = TrajectoryTotal
    <3>1. TurnKeys' = TurnKeys /\ \A key : EventsOf(key)' = EventsOf(key)
      BY <2>1 DEF TurnKeys, EventsOf, KeyOf
    <3>2. \A key : LastDone(key)' = LastDone(key)
      BY <2>1, <3>1 DEF LastDone
    <3>3. StepMetrics' = StepMetrics
      BY <2>1, <3>1, <3>2 DEF StepMetrics
    <3> QED
      BY <3>1, <3>3 DEF TrajectoryTotal, AllComplete, Tokens, Each
  <2>4. context'.input = IF log = <<>> THEN SummaryInput ELSE TrajectoryTotal
    BY <2>1
  <2> QED
    BY <2>1, <2>2, <2>3, <2>4 DEF FilledInv
<1> QED
  BY <1>1, <1>2, <1>3, <1>4, <1>5

\* With every active role complete, the two buckets hold every turn's tokens.
LEMMA SummaryIsWhole ==
  ASSUME WorkflowInv, BucketsInv, summary = Missing \/ summary = buckets, SummaryInput # Missing
  PROVE  ReallyComplete /\ SummaryInput = ReallyUsed
<1>1. summary = buckets /\ ActiveRoles # {} /\ SummaryComplete
  BY DEF SummaryInput
<1> DEFINE inputs == [r \in TurnRoles |-> summary[r].input]
           reports(r) == buckets[r].reports
<1>2. SummaryInput = SumFunctionOnSet(inputs, ActiveRoles)
  BY <1>1 DEF SummaryInput
<1>3. \A r \in TurnRoles : reports(r) \in Seq(TurnReport) /\ buckets[r] = Summed(reports(r))
  BY DEF BucketsInv
<1>4. TurnRoles = {"modifier", "reviewer"} /\ "modifier" # "reviewer"
  BY DEF TurnRoles
<1>5. ASSUME NEW r \in ActiveRoles
      PROVE  /\ r \in TurnRoles /\ inputs[r] = UsedIn(reports(r)) /\ UsedIn(reports(r)) \in Nat
             /\ AllComplete(reports(r), DOMAIN reports(r))
  <2>1. r \in TurnRoles
    BY DEF ActiveRoles
  <2>2. reports(r) \in Seq(TurnReport) /\ buckets[r] = Summed(reports(r))
    BY <1>3, <2>1
  <2>3. buckets[r].coverage = "complete"
    BY <1>1 DEF SummaryComplete, CompleteTokens
  <2> DEFINE mine == reports(r)
  <2>4. mine \in Seq(TurnReport) /\ buckets[r] = Summed(mine)
    BY <2>2
  <2> HIDE DEF mine
  <2>5. ReportsCoverage(mine) = "complete"
    BY <2>3, <2>4 DEF Summed
  <2>6. mine # <<>> /\ AllReported(mine) /\ AllComplete(mine, DOMAIN mine)
    BY <2>4, <2>5, CompleteMeansAll
  <2>7. buckets[r].input = UsedIn(mine)
    BY <2>4, <2>6 DEF Summed
  <2>8. UsedIn(mine) \in Nat
    BY <2>4, TokensType
  <2> QED
    BY <1>1, <2>1, <2>6, <2>7, <2>8 DEF mine
<1>6. ASSUME NEW r \in TurnRoles, r \notin ActiveRoles
      PROVE  UsedIn(reports(r)) = 0 /\ AllComplete(reports(r), DOMAIN reports(r))
  <2> DEFINE mine == reports(r)
  <2>1. mine \in Seq(TurnReport) /\ buckets[r] = Summed(mine)
    BY <1>3
  <2>2. ~(buckets[r].turns > 0)
    BY <1>1, <1>6 DEF ActiveRoles
  <2> HIDE DEF mine
  <2>3. ~(Len(mine) > 0)
    BY <2>1, <2>2 DEF Summed
  <2>4. mine = <<>>
    BY <2>1, <2>3
  <2>5. AllComplete(<<>>, DOMAIN <<>>)
    BY DEF AllComplete
  <2> QED
    BY <2>4, <2>5, UsedNothing DEF mine
<1>7. ReallyComplete
  <2>1. \A r \in TurnRoles : AllComplete(buckets[r].reports, DOMAIN buckets[r].reports)
    BY <1>5, <1>6
  <2> QED
    BY <2>1 DEF BucketsInv
<1> DEFINE m == UsedIn(reports("modifier"))
           v == UsedIn(reports("reviewer"))
<1>8. ReallyUsed = m + v
  BY DEF BucketsInv
<1>9. m \in Nat /\ v \in Nat
  <2>1. \A r \in TurnRoles : UsedIn(reports(r)) \in Nat
    BY <1>3, TokensType
  <2> QED
    BY <1>4, <2>1
<1>10. IsFiniteSet({"modifier"}) /\ IsFiniteSet({"reviewer"}) /\ IsFiniteSet({})
  BY FS_EmptySet, FS_Singleton
<1>11. \A r \in ActiveRoles : inputs[r] \in Int
  BY <1>5
<1> HIDE DEF inputs
<1>12. CASE ActiveRoles = {"modifier", "reviewer"}
  <2>1. inputs["modifier"] = m /\ inputs["reviewer"] = v
    BY <1>5, <1>12
  <2>2. {} \union {"reviewer"} = {"reviewer"} /\ {"reviewer"} \union {"modifier"} = {"modifier", "reviewer"}
    OBVIOUS
  <2>3. SumFunctionOnSet(inputs, {} \union {"reviewer"}) = inputs["reviewer"] + SumFunctionOnSet(inputs, {})
    BY <1>10, <1>11, <1>12, SumAdd
  <2>4. SumFunctionOnSet(inputs, {"reviewer"} \union {"modifier"}) =
          inputs["modifier"] + SumFunctionOnSet(inputs, {"reviewer"})
    BY <1>10, <1>11, <1>12, SumAdd
  <2>5. SumFunctionOnSet(inputs, {}) = 0
    BY SumEmpty
  <2>6. SummaryInput = m + (v + 0)
    BY <1>2, <1>12, <2>1, <2>2, <2>3, <2>4, <2>5
  <2> HIDE DEF m, v
  <2> QED
    BY <1>7, <1>8, <1>9, <2>6
<1>13. ASSUME NEW r \in TurnRoles, ActiveRoles = {r}
       PROVE  SummaryInput = UsedIn(reports(r)) + 0
  <2>1. inputs[r] = UsedIn(reports(r)) /\ inputs[r] \in Int
    BY <1>5, <1>11, <1>13
  <2>2. {} \union {r} = {r}
    OBVIOUS
  <2>3. SumFunctionOnSet(inputs, {} \union {r}) = inputs[r] + SumFunctionOnSet(inputs, {})
    BY <1>10, <2>1, SumAdd
  <2> QED
    BY <1>2, <1>13, <2>1, <2>2, <2>3, SumEmpty
<1>14. CASE ActiveRoles = {"modifier"}
  <2>1. SummaryInput = m + 0
    BY <1>4, <1>13, <1>14
  <2>2. v = 0
    BY <1>4, <1>6, <1>14
  <2> HIDE DEF m, v
  <2> QED
    BY <1>7, <1>8, <1>9, <2>1, <2>2
<1>15. CASE ActiveRoles = {"reviewer"}
  <2>1. SummaryInput = v + 0
    BY <1>4, <1>13, <1>15
  <2>2. m = 0
    BY <1>4, <1>6, <1>15
  <2> HIDE DEF m, v
  <2> QED
    BY <1>7, <1>8, <1>9, <2>1, <2>2
<1>16. ActiveRoles \in SUBSET {"modifier", "reviewer"}
  BY <1>4 DEF ActiveRoles
<1> QED
  BY <1>1, <1>12, <1>14, <1>15, <1>16

\* The metrics of a step are those of one of its events.
LEMMA LastDoneIs ==
  ASSUME LogInv, NEW key, \E i \in EventsOf(key) : log[i].done
  PROVE  /\ LastDone(key) \in DOMAIN log /\ KeyOf(LastDone(key)) = key
         /\ log[LastDone(key)].report \in TurnReport
<1> DEFINE done == {i \in EventsOf(key) : log[i].done}
           n == Len(log)
           behind == {n - i : i \in done}
<1>1. DOMAIN log = 1..n /\ n \in Nat /\ \A i \in DOMAIN log : log[i].report \in TurnReport
  <2>1. log \in Seq(LogEntry)
    BY DEF LogInv
  <2> QED
    BY <2>1, EntriesReport
<1>2. done \in SUBSET (1..n) /\ done # {}
  BY <1>1 DEF EventsOf
<1>3. behind \in SUBSET Nat /\ behind # {}
  BY <1>1, <1>2
<1>4. PICK k \in behind : \A j \in behind : k <= j
  BY <1>3, LeastNumber
<1>5. PICK last \in done : k = n - last
  BY <1>4
<1>6. \A j \in done : j <= last
  <2> SUFFICES ASSUME NEW j \in done PROVE j <= last
    OBVIOUS
  <2>1. n - last <= n - j
    BY <1>4, <1>5
  <2> QED
    BY <1>1, <1>2, <2>1
<1>7. LastDone(key) = CHOOSE i \in done : \A j \in done : j <= i
  BY DEF LastDone
<1> HIDE DEF done, behind
<1>8. LastDone(key) \in done
  BY <1>5, <1>6, <1>7
<1> QED
  BY <1>1, <1>8 DEF done, EventsOf

\* The trajectory's steps that have tokens, and the events they take them from.
Observed == Known(Tokens(StepMetrics))
LastOf == [key \in Observed |-> LastDone(key)]

\* A step's metrics are those of an event of its own, so no two steps share one.
LEMMA StepsAreEvents ==
  ASSUME LogInv
  PROVE  /\ IsFiniteSet(TurnKeys)
         /\ DOMAIN Tokens(StepMetrics) = TurnKeys /\ Observed \subseteq TurnKeys
         /\ \A key \in TurnKeys :
              \/ StepMetrics[key] = NoReport
              \/ /\ LastDone(key) \in DOMAIN log /\ KeyOf(LastDone(key)) = key
                 /\ StepMetrics[key] = log[LastDone(key)].report
                 /\ StepMetrics[key] \in TurnReport
         /\ \A key \in TurnKeys : Tokens(StepMetrics)[key] = StepMetrics[key].tokens
<1>1. IsFiniteSet(TurnKeys)
  <2>1. DOMAIN log = 1..Len(log) /\ Len(log) \in Nat
    BY DEF LogInv
  <2>2. IsFiniteSet(DOMAIN log)
    BY <2>1, FS_Interval
  <2> DEFINE keys == [i \in DOMAIN log |-> KeyOf(i)]
  <2>3. keys \in [DOMAIN log -> TurnKeys] /\ \A key \in TurnKeys : \E i \in DOMAIN log : keys[i] = key
    BY DEF TurnKeys
  <2> HIDE DEF keys
  <2>4. keys \in Surjection(DOMAIN log, TurnKeys)
    BY <2>3 DEF Surjection
  <2> QED
    BY <2>2, <2>4, FS_Surjection
<1>2. DOMAIN StepMetrics = TurnKeys
  BY DEF StepMetrics
<1>3. /\ DOMAIN Tokens(StepMetrics) = TurnKeys
      /\ \A key \in TurnKeys : Tokens(StepMetrics)[key] = StepMetrics[key].tokens
  BY <1>2 DEF Tokens, Each
<1>4. Observed \subseteq TurnKeys
  BY <1>3 DEF Observed, Known
<1>5. \A key \in TurnKeys :
        \/ StepMetrics[key] = NoReport
        \/ /\ LastDone(key) \in DOMAIN log /\ KeyOf(LastDone(key)) = key
           /\ StepMetrics[key] = log[LastDone(key)].report
           /\ StepMetrics[key] \in TurnReport
  <2> SUFFICES ASSUME NEW key \in TurnKeys, StepMetrics[key] # NoReport
               PROVE  /\ LastDone(key) \in DOMAIN log /\ KeyOf(LastDone(key)) = key
                      /\ StepMetrics[key] = log[LastDone(key)].report
                      /\ StepMetrics[key] \in TurnReport
    OBVIOUS
  <2>1. StepMetrics[key] =
          IF \E i \in EventsOf(key) : log[i].done THEN log[LastDone(key)].report ELSE NoReport
    BY DEF StepMetrics
  <2>2. \E i \in EventsOf(key) : log[i].done
    BY <2>1
  <2>3. /\ LastDone(key) \in DOMAIN log /\ KeyOf(LastDone(key)) = key
        /\ log[LastDone(key)].report \in TurnReport
    BY <2>2, LastDoneIs
  <2> QED
    BY <2>1, <2>2, <2>3
<1> QED
  BY <1>1, <1>3, <1>4, <1>5

\* Steps with tokens are different events.
LEMMA StepsReindexed ==
  ASSUME LogInv
  PROVE  /\ IsFiniteSet(Observed)
         /\ Reindexes(LastOf, Observed, Tokens(StepMetrics), Tokens(ReportsIn(log)))
         /\ Image(LastOf, Observed) \subseteq Known(Tokens(ReportsIn(log)))
<1>1. /\ IsFiniteSet(TurnKeys) /\ Observed \subseteq TurnKeys
      /\ DOMAIN Tokens(StepMetrics) = TurnKeys
      /\ \A key \in TurnKeys :
           \/ StepMetrics[key] = NoReport
           \/ /\ LastDone(key) \in DOMAIN log /\ KeyOf(LastDone(key)) = key
              /\ StepMetrics[key] = log[LastDone(key)].report
              /\ StepMetrics[key] \in TurnReport
      /\ \A key \in TurnKeys : Tokens(StepMetrics)[key] = StepMetrics[key].tokens
  BY StepsAreEvents
<1>2. IsFiniteSet(Observed)
  BY <1>1, FS_Subset
<1>3. /\ log \in Seq(LogEntry) /\ ReportsIn(log) \in Seq(TurnReport)
      /\ Len(ReportsIn(log)) = Len(log) /\ DOMAIN log = 1..Len(log)
      /\ \A i \in 1..Len(log) : ReportsIn(log)[i] = log[i].report
  BY EntriesReport, ReportsInType DEF LogInv
<1>4. /\ DOMAIN Tokens(ReportsIn(log)) = DOMAIN log
      /\ \A i \in DOMAIN log : Tokens(ReportsIn(log))[i] = log[i].report.tokens
  <2> DEFINE rs == ReportsIn(log)
  <2>1. rs \in Seq(TurnReport) /\ Len(rs) = Len(log) /\ \A i \in 1..Len(log) : rs[i] = log[i].report
    BY <1>3
  <2> HIDE DEF rs
  <2>2. DOMAIN Tokens(rs) = 1..Len(log) /\ \A i \in 1..Len(log) : Tokens(rs)[i] = rs[i].tokens
    BY <2>1, TokensType
  <2>3. DOMAIN Tokens(rs) = DOMAIN log /\ \A i \in DOMAIN log : Tokens(rs)[i] = log[i].report.tokens
    BY <1>3, <2>1, <2>2
  <2> QED
    BY <2>3 DEF rs
<1>5. NoReport.tokens = Missing
  BY DEF NoReport
<1>6. \A key \in Observed :
        /\ key \in TurnKeys /\ LastOf[key] = LastDone(key)
        /\ LastDone(key) \in DOMAIN log /\ KeyOf(LastDone(key)) = key
        /\ Tokens(StepMetrics)[key] = Tokens(ReportsIn(log))[LastDone(key)]
        /\ Tokens(StepMetrics)[key] \in Int /\ Tokens(StepMetrics)[key] # Missing
  <2> SUFFICES ASSUME NEW key \in Observed
               PROVE  /\ key \in TurnKeys /\ LastOf[key] = LastDone(key)
                      /\ LastDone(key) \in DOMAIN log /\ KeyOf(LastDone(key)) = key
                      /\ Tokens(StepMetrics)[key] = Tokens(ReportsIn(log))[LastDone(key)]
                      /\ Tokens(StepMetrics)[key] \in Int /\ Tokens(StepMetrics)[key] # Missing
    OBVIOUS
  <2>1. key \in TurnKeys /\ Tokens(StepMetrics)[key] # Missing
    BY <1>1 DEF Observed, Known
  <2>2. LastOf[key] = LastDone(key)
    BY DEF LastOf
  <2>3. Tokens(StepMetrics)[key] = StepMetrics[key].tokens /\ StepMetrics[key] # NoReport
    BY <1>1, <1>5, <2>1
  <2>4. /\ LastDone(key) \in DOMAIN log /\ KeyOf(LastDone(key)) = key
        /\ StepMetrics[key] = log[LastDone(key)].report
        /\ StepMetrics[key] \in TurnReport
    BY <1>1, <2>1, <2>3
  <2>5. StepMetrics[key].tokens \in Amount
    BY <2>4 DEF TurnReport
  <2>6. StepMetrics[key].tokens \in Int
    BY <2>1, <2>3, <2>5 DEF Amount
  <2> QED
    BY <1>4, <2>1, <2>2, <2>3, <2>4, <2>6
<1>7. Reindexes(LastOf, Observed, Tokens(StepMetrics), Tokens(ReportsIn(log)))
  BY <1>6 DEF Reindexes
<1>8. Image(LastOf, Observed) \subseteq Known(Tokens(ReportsIn(log)))
  BY <1>4, <1>6 DEF Image, Known
<1> QED
  BY <1>2, <1>7, <1>8

\* The trajectory's tokens are some of the log's.
LEMMA TrajectoryIsPart ==
  ASSUME WorkflowInv, LogInv
  PROVE  TrajectoryIsWithinUse
<1> DEFINE f == Tokens(StepMetrics)
           h == Tokens(ReportsIn(log))
           image == Image(LastOf, Observed)
<1>1. /\ IsFiniteSet(Observed) /\ Reindexes(LastOf, Observed, f, h)
      /\ image \subseteq Known(h)
  BY StepsReindexed
<1>2. ReportsIn(log) \in Seq(TurnReport)
  BY EntriesReport, ReportsInType DEF LogInv
<1>3. /\ h \in Seq(Amount) /\ DOMAIN h = 1..Len(ReportsIn(log))
      /\ UsedIn(ReportsIn(log)) \in Nat
  BY <1>2, TokensType
<1>4. IsFiniteSet(Known(h)) /\ \A i \in Known(h) : h[i] \in Nat
  <2>1. Len(ReportsIn(log)) \in Nat
    BY <1>2
  <2>2. IsFiniteSet(DOMAIN h)
    BY <1>3, <2>1, FS_Interval
  <2>3. \A i \in DOMAIN h : h[i] \in Amount
    BY <1>3
  <2> HIDE DEF h
  <2> QED
    BY <2>2, <2>3, KnownFinite
<1>5. SumFunctionOnSet(f, Observed) = SumFunctionOnSet(h, image)
  <2> HIDE DEF f, h
  <2> QED
    BY <1>1, SumReindex
<1>6. SumFunctionOnSet(h, image) <= SumFunctionOnSet(h, Known(h))
  <2> HIDE DEF f, h, image
  <2> QED
    BY <1>1, <1>4, SumOfPart
<1>7. SumFunctionOnSet(h, Known(h)) = UsedIn(ReportsIn(log))
  BY DEF UsedIn, KnownSum
<1>8. TrajectoryObserved = IF Observed = {} THEN Missing ELSE SumFunctionOnSet(f, Observed)
  BY DEF TrajectoryObserved, SumKnown, SumAt, Observed
<1>9. UsedIn(ReportsIn(log)) <= ReallyUsed
  BY DEF LogInv
<1>10. ReallyUsed \in Nat
  BY ReportsAsked
<1>11. SumFunctionOnSet(h, image) \in Nat
  <2>1. IsFiniteSet(image) /\ \A i \in image : h[i] \in Nat
    BY <1>1, <1>4, FS_Subset
  <2> HIDE DEF h, image
  <2> QED
    BY <2>1, SumNat
<1> HIDE DEF f, h, image
<1>12. Observed # {} => TrajectoryObserved <= ReallyUsed
  <2>1. SumFunctionOnSet(f, Observed) <= ReallyUsed
    BY <1>3, <1>5, <1>6, <1>7, <1>9, <1>10, <1>11
  <2> QED
    BY <1>8, <2>1
<1> QED
  BY <1>8, <1>12 DEF TrajectoryIsWithinUse

\* When the log has one entry for each turn and no two are taken for one, they are all.
LEMMA TrajectoryIsWhole ==
  ASSUME WorkflowInv, LogInv, TurnsAreToldApart, EveryTurnIsLogged, TrajectoryTotal # Missing
  PROVE  ReallyComplete /\ TrajectoryTotal = ReallyUsed
<1> DEFINE f == Tokens(StepMetrics)
           h == Tokens(ReportsIn(log))
<1>1. /\ IsFiniteSet(TurnKeys) /\ DOMAIN f = TurnKeys
      /\ \A key \in TurnKeys :
           \/ StepMetrics[key] = NoReport
           \/ /\ LastDone(key) \in DOMAIN log /\ KeyOf(LastDone(key)) = key
              /\ StepMetrics[key] = log[LastDone(key)].report
              /\ StepMetrics[key] \in TurnReport
      /\ \A key \in TurnKeys : f[key] = StepMetrics[key].tokens
  BY StepsAreEvents
<1>2. /\ \A key \in TurnKeys : StepMetrics[key].coverage = "complete"
      /\ TrajectoryTotal = SumFunctionOnSet(f, TurnKeys)
  BY <1>1 DEF TrajectoryTotal, AllComplete, SumFunction
<1>3. NoReport.coverage # "complete"
  BY DEF NoReport
<1>4. \A key \in TurnKeys :
        /\ LastDone(key) \in DOMAIN log /\ KeyOf(LastDone(key)) = key
        /\ log[LastDone(key)].report.coverage = "complete" /\ f[key] # Missing
  <2>1. \A r \in TurnReport : r.coverage = "complete" => r.tokens # Missing
    BY DEF TurnReport
  <2> HIDE DEF f
  <2> QED
    BY <1>1, <1>2, <1>3, <2>1
<1>5. Observed = TurnKeys
  BY <1>1, <1>4 DEF Observed, Known
<1>6. \A i \in DOMAIN log : KeyOf(i) \in TurnKeys /\ LastDone(KeyOf(i)) = i
  <2> SUFFICES ASSUME NEW i \in DOMAIN log PROVE KeyOf(i) \in TurnKeys /\ LastDone(KeyOf(i)) = i
    OBVIOUS
  <2>1. KeyOf(i) \in TurnKeys
    BY DEF TurnKeys
  <2>2. LastDone(KeyOf(i)) \in DOMAIN log /\ KeyOf(LastDone(KeyOf(i))) = KeyOf(i)
    BY <1>4, <2>1
  <2> DEFINE j == LastDone(KeyOf(i))
  <2>3. j \in DOMAIN log /\ KeyOf(j) = KeyOf(i)
    BY <2>2
  <2> HIDE DEF j
  <2>4. log[j].label = log[i].label /\ log[j].session = log[i].session
    BY <2>3 DEF KeyOf
  <2>5. j = i
    BY <2>3, <2>4 DEF TurnsAreToldApart
  <2> QED
    BY <2>1, <2>5 DEF j
<1>7. Image(LastOf, Observed) = DOMAIN log
  <2>1. \A key \in TurnKeys : LastOf[key] = LastDone(key)
    BY <1>5 DEF LastOf
  <2>2. Image(LastOf, TurnKeys) \subseteq DOMAIN log
    BY <1>4, <2>1 DEF Image
  <2>3. \A i \in DOMAIN log : LastOf[KeyOf(i)] = i
    BY <1>6, <2>1
  <2>4. DOMAIN log \subseteq Image(LastOf, TurnKeys)
    BY <1>6, <2>3 DEF Image
  <2> QED
    BY <1>5, <2>2, <2>4
<1>8. /\ DOMAIN log = DOMAIN turns
      /\ \A i \in DOMAIN turns : log[i].report = turns[i].report
  <2>1. DOMAIN log = 1..Len(log) /\ DOMAIN turns = 1..Len(turns)
    BY DEF LogInv, WorkflowInv
  <2> QED
    BY <2>1 DEF EveryTurnIsLogged, LogInv
<1>9. ReallyComplete
  <2>1. \A i \in DOMAIN turns : turns[i].report.coverage = "complete"
    BY <1>4, <1>6, <1>8
  <2>2. \A i \in DOMAIN turns : AllReports[i] = turns[i].report
    BY ReportsAsked
  <2> QED
    BY <2>1, <2>2 DEF ReallyComplete, AllComplete
<1>10. ReportsIn(log) = AllReports
  <2>1. AllReports = [i \in DOMAIN turns |-> turns[i].report]
    BY DEF AllReports, Each
  <2>2. ReportsIn(log) = [i \in DOMAIN log |-> log[i].report]
    BY DEF ReportsIn
  <2> QED
    BY <1>8, <2>1, <2>2
<1>11. /\ IsFiniteSet(Observed) /\ Reindexes(LastOf, Observed, f, h)
       /\ DOMAIN log \subseteq Known(h)
  BY <1>7, StepsReindexed
<1>12. Known(h) = DOMAIN log
  <2>1. Known(h) \subseteq DOMAIN ReportsIn(log)
    BY DEF Known, Tokens, Each
  <2>2. DOMAIN ReportsIn(log) = DOMAIN log
    BY DEF ReportsIn
  <2> QED
    BY <1>11, <2>1, <2>2
<1>13. SumFunctionOnSet(f, Observed) = SumFunctionOnSet(h, DOMAIN log)
  <2> HIDE DEF f, h
  <2> QED
    BY <1>7, <1>11, SumReindex
<1>14. ReallyUsed = SumFunctionOnSet(h, Known(h))
  BY <1>10 DEF ReallyUsed
<1> QED
  BY <1>2, <1>5, <1>9, <1>12, <1>13, <1>14

-----------------------------------------------------------------------------
\* And so the totals are the whole.
LEMMA TotalsFollow ==
  ASSUME TrailInv
  PROVE  TrailTypeOK /\ TrialTotalsAreWhole
<1> USE DEF TrailInv
<1>1. RuntimeAgreesWithReport
  <2> SUFFICES ASSUME NEW r \in TurnRoles
               PROVE  LET again == Account(buckets[r].reports, Each(buckets[r].reports, NativeResolution))
                      IN /\ again.tokenCoverage = buckets[r].coverage
                         /\ again.input # Missing => again.input = buckets[r].input
                         /\ again.reported = buckets[r].cost
                         /\ again.costCoverage = buckets[r].costCoverage
    BY DEF RuntimeAgreesWithReport
  <2> DEFINE mine == buckets[r].reports
  <2>1. mine \in Seq(TurnReport) /\ buckets[r] = Summed(mine)
    BY DEF BucketsInv
  <2> HIDE DEF mine
  <2>2. LET again == Account(mine, Each(mine, NativeResolution))
        IN /\ again.tokenCoverage = buckets[r].coverage
           /\ again.input # Missing => again.input = buckets[r].input
           /\ again.reported = buckets[r].cost
           /\ again.costCoverage = buckets[r].costCoverage
    BY <2>1, ReportAgrees
  <2> QED
    BY <2>2 DEF mine
<1>2. SummaryInput # Missing => ReallyComplete /\ SummaryInput = ReallyUsed
  BY SummaryIsWhole DEF FilledInv
<1>3. SummaryTotalIsWhole
  BY <1>2 DEF SummaryTotalIsWhole, FilledInv
<1>4. TurnsAreToldApart /\ EveryTurnIsLogged => ContextTotalIsWhole
  BY <1>2, TrajectoryIsWhole DEF ContextTotalIsWhole, FilledInv
<1>5. TrajectoryIsWithinUse
  BY TrajectoryIsPart
<1>6. TrailTypeOK
  <2>1. /\ DOMAIN turns = 1..Len(turns)
        /\ \A i \in DOMAIN turns : turns[i].role \in TurnRoles /\ turns[i].report \in TurnReport
    BY ReportsAsked DEF TurnEntry
  <2>2. \A r \in TurnRoles : buckets[r].turns = Cardinality({i \in DOMAIN turns : turns[i].role = r})
    <3> SUFFICES ASSUME NEW r \in TurnRoles
                 PROVE  buckets[r].turns = Cardinality(TurnsOf(r))
      BY DEF TurnsOf
    <3> DEFINE mine == buckets[r].reports
    <3>1. buckets[r] = Summed(mine) /\ Len(mine) = Cardinality(TurnsOf(r))
      BY DEF BucketsInv
    <3> HIDE DEF mine
    <3> QED
      BY <3>1 DEF Summed
  <2> QED
    BY <2>1, <2>2 DEF TrailTypeOK, WorkflowInv, LogInv, FilledInv
<1> QED
  BY <1>1, <1>3, <1>4, <1>5, <1>6 DEF TrialTotalsAreWhole

\* Every step of the trail keeps the invariant.
LEMMA TrailStep ==
  ASSUME ReportsAssumption, WorkflowAssumption, TrailInv, [TrailNext]_trailVars
  PROVE  TrailInv'
<1> USE DEF TrailInv
<1>1. CASE EndSomeTurn
  <2>1. WorkflowInv'
    BY <1>1, WorkflowStep
  <2>2. PICK logged \in {"done", "opened", "nothing"}, report \in TurnReport, s \in Nat :
          /\ logged # "done" => report = NoReport
          /\ RecordTurn(logged, report, s)
    BY <1>1, EndOfTurn
  <2>3. BucketsInv'
    <3>1. PICK me : me = TurnRole(stage)
      OBVIOUS
    <3> QED
      BY <2>2, <3>1, BucketsStep
  <2>4. LogInv'
    BY <2>2, LogStep
  <2>5. FilledInv'
    BY <1>1, FilledStep
  <2> QED
    BY <2>1, <2>3, <2>4, <2>5
<1>2. CASE WriteSummary \/ Killed \/ ReadSummary \/ ReadEvents \/ UNCHANGED trailVars
  <2>0. UNCHANGED <<stage, round, try, turns, buckets, session, sessions, log>>
    BY <1>2 DEF WriteSummary, Killed, ReadSummary, ReadEvents, trailVars
  <2>1. /\ AllReports' = AllReports /\ ReallyUsed' = ReallyUsed /\ (ReallyComplete' <=> ReallyComplete)
        /\ ReportsIn(log)' = ReportsIn(log) /\ UsedIn(ReportsIn(log))' = UsedIn(ReportsIn(log))
    <3>1. AllReports' = AllReports /\ ReportsIn(log)' = ReportsIn(log)
      BY <2>0 DEF AllReports, Each, ReportsIn
    <3>2. ReallyUsed' = ReallyUsed
      BY <3>1 DEF ReallyUsed, Tokens, Known, Each
    <3>3. ReallyComplete' <=> ReallyComplete
      BY <2>0, <3>1 DEF ReallyComplete, AllComplete
    <3>4. UsedIn(ReportsIn(log))' = UsedIn(ReportsIn(log))
      BY <3>1 DEF UsedIn, KnownSum, Tokens, Known, Each
    <3> QED
      BY <3>1, <3>2, <3>3, <3>4
  <2>2. WorkflowInv'
    BY <2>0 DEF WorkflowInv
  <2>3. BucketsInv'
    <3>1. \A r \in TurnRoles : TurnsOf(r)' = TurnsOf(r)
      BY <2>0 DEF TurnsOf
    <3> QED
      BY <2>0, <2>1, <3>1 DEF BucketsInv
  <2>4. LogInv'
    BY <2>0, <2>1 DEF LogInv
  <2>5. FilledInv'
    <3>1. CASE UNCHANGED <<summary, context, at>>
      <4>1. SummaryInput' = SummaryInput
        BY <2>0, <3>1 DEF SummaryInput, ActiveRoles, SummaryComplete
      <4>2. TrajectoryTotal' = TrajectoryTotal
        <5>1. TurnKeys' = TurnKeys /\ \A key : EventsOf(key)' = EventsOf(key)
          BY <2>0 DEF TurnKeys, EventsOf, KeyOf
        <5>2. \A key : LastDone(key)' = LastDone(key)
          BY <2>0, <5>1 DEF LastDone
        <5>3. StepMetrics' = StepMetrics
          BY <2>0, <5>1, <5>2 DEF StepMetrics
        <5> QED
          BY <5>1, <5>3 DEF TrajectoryTotal, AllComplete, Tokens, Each
      <4> QED
        BY <2>0, <3>1, <4>1, <4>2 DEF FilledInv
    <3>2. CASE WriteSummary \/ Killed \/ ReadSummary \/ ReadEvents
      BY <3>2, FilledStep
    <3> QED
      BY <1>2, <3>1, <3>2 DEF trailVars
  <2> QED
    BY <2>2, <2>3, <2>4, <2>5
<1> QED
  BY <1>1, <1>2 DEF TrailNext, TrailDone

\* It holds throughout.
LEMMA TrailInvariance == TrailSpec => []TrailInv
<1>1. TrailInit => TrailInv
  BY TrailStart, WorkflowAssumption
<1>2. TrailInv /\ [TrailNext]_trailVars => TrailInv'
  BY TrailStep, ReportsAssumption, WorkflowAssumption
<1> QED
  BY <1>1, <1>2, PTL DEF TrailSpec

\* The variables of a trial's trail have their types, and each bucket counts its role's turns.
THEOREM TrailTypes == TrailSpec => []TrailTypeOK
<1>1. TrailInv => TrailTypeOK
  BY TotalsFollow
<1> QED
  BY <1>1, TrailInvariance, PTL

\* For every workflow, every bound on turns and sessions, and whatever the turns report: the
\* runtime's buckets agree with token_usage.py; a total read from the summary holds every
\* turn's tokens (populate_context_post_run); so does one from the events, when every turn
\* was logged under a label and session of its own; and the trajectory never has tokens no
\* turn used, nor any twice (events_to_trajectory).
THEOREM TrialTotalsAreWholeHolds == TrailSpec => []TrialTotalsAreWhole
<1>1. TrailInv => TrialTotalsAreWhole
  BY TotalsFollow
<1> QED
  BY <1>1, TrailInvariance, PTL

-----------------------------------------------------------------------------
(* The usage report of a job (UsageReport): sums over rows and roles.       *)

\* The image of a finite set.
LEMMA ImageFinite ==
  ASSUME NEW S, IsFiniteSet(S), NEW f
  PROVE  IsFiniteSet(Image(f, S))
<1> DEFINE g == [x \in S |-> f[x]]
<1>1. g \in [S -> Image(f, S)] /\ \A y \in Image(f, S) : \E x \in S : g[x] = y
  BY DEF Image
<1> HIDE DEF g
<1>2. g \in Surjection(S, Image(f, S))
  BY <1>1 DEF Surjection
<1> QED
  BY <1>2, FS_Surjection

\* The sum over two sets together.
LEMMA SumOfTwo ==
  ASSUME NEW S, IsFiniteSet(S), NEW R, IsFiniteSet(R), R \intersect S = {},
         NEW h, \A x \in R \union S : h[x] \in Int
  PROVE  SumFunctionOnSet(h, R \union S) = SumFunctionOnSet(h, R) + SumFunctionOnSet(h, S)
<1> DEFINE P == {T \in SUBSET S :
                   SumFunctionOnSet(h, R \union T) = SumFunctionOnSet(h, R) + SumFunctionOnSet(h, T)}
<1>0. SumFunctionOnSet(h, R) \in Int
  BY SumType
<1>1. ASSUME NEW T \in SUBSET S, \A x \in T : T \ {x} \in P
      PROVE  T \in P
  <2>1. IsFiniteSet(T) /\ IsFiniteSet(R \union T)
    BY FS_Subset, FS_Union
  <2>2. CASE T = {}
    <3>1. R \union {} = R /\ SumFunctionOnSet(h, {}) = 0
      BY SumEmpty
    <3> HIDE DEF P
    <3>2. SumFunctionOnSet(h, R \union {}) = SumFunctionOnSet(h, R) + SumFunctionOnSet(h, {})
      BY <1>0, <3>1
    <3>3. SumFunctionOnSet(h, R \union T) = SumFunctionOnSet(h, R) + SumFunctionOnSet(h, T)
      BY <2>2, <3>2
    <3> QED
      BY <3>3 DEF P
  <2>3. CASE T # {}
    <3>1. PICK x \in T : TRUE
      BY <2>3
    <3> DEFINE U == T \ {x}
               a == SumFunctionOnSet(h, R)
               b == SumFunctionOnSet(h, U)
    <3>2. SumFunctionOnSet(h, R \union U) = a + b
      BY <1>1
    <3>3. (R \union T) \ {x} = R \union U /\ x \in R \union T
      OBVIOUS
    <3>4. SumFunctionOnSet(h, T) = h[x] + b
      BY <2>1, SumRemove
    <3>5. SumFunctionOnSet(h, R \union T) = h[x] + SumFunctionOnSet(h, R \union U)
      <4>1. \A y \in R \union T : h[y] \in Int
        OBVIOUS
      <4> QED
        BY <2>1, <3>3, <4>1, SumRemove
    <3>6. a \in Int /\ b \in Int /\ h[x] \in Int
      <4>1. IsFiniteSet(U) /\ \A y \in U : h[y] \in Int
        BY <2>1, FS_Subset
      <4> QED
        BY <1>0, <4>1, SumType
    <3> HIDE DEF a, b, U
    <3>7. SumFunctionOnSet(h, R \union T) = a + SumFunctionOnSet(h, T)
      BY <3>2, <3>4, <3>5, <3>6
    <3> QED
      BY <3>7 DEF a
  <2> QED
    BY <2>2, <2>3
<1> HIDE DEF P
<1>2. \A T \in SUBSET S : T \in P
  BY <1>1, SubsetInduction
<1>3. PICK T \in SUBSET S : T = S
  OBVIOUS
<1> QED
  BY <1>2, <1>3 DEF P

\* What has no value in a sum may be left out of it.
Nothing(h, S) == \A x \in S : h[x] = 0
\* A sum of zeros is 0.
LEMMA SumOfNothing ==
  ASSUME NEW S, IsFiniteSet(S), NEW h, Nothing(h, S)
  PROVE  SumFunctionOnSet(h, S) = 0
<1>1. \A x \in S : h[x] = IF x \in {} THEN 1 ELSE 0
  BY DEF Nothing
<1>2. SumFunctionOnSet(h, S) = Cardinality(S \intersect {})
  BY <1>1, SumIndicator
<1>3. S \intersect {} = {}
  OBVIOUS
<1> QED
  BY <1>2, <1>3, FS_EmptySet

\* Pairs of a member of S and one of its own set.
PairsOf(S, T) == UNION {{x} \X T[x] : x \in S}

\* What is such a pair.
LEMMA PairsOfIs ==
  ASSUME NEW S, NEW T
  PROVE  \A p : p \in PairsOf(S, T) <=> \E x \in S : \E y \in T[x] : p = <<x, y>>
BY DEF PairsOf

\* There are finitely many.
LEMMA PairsFinite ==
  ASSUME NEW S, IsFiniteSet(S), NEW T, \A x \in S : IsFiniteSet(T[x])
  PROVE  IsFiniteSet(PairsOf(S, T))
<1> DEFINE row == [x \in S |-> {x} \X T[x]]
<1>1. PairsOf(S, T) = UNION Image(row, S)
  BY DEF PairsOf, Image
<1>2. \A U \in Image(row, S) : IsFiniteSet(U)
  <2> SUFFICES ASSUME NEW x \in S PROVE IsFiniteSet({x} \X T[x])
    BY DEF Image
  <2>1. IsFiniteSet({x}) /\ IsFiniteSet(T[x])
    BY FS_Singleton
  <2> QED
    BY <2>1, FS_Product
<1>3. IsFiniteSet(Image(row, S))
  BY ImageFinite
<1> HIDE DEF row
<1> QED
  BY <1>1, <1>2, <1>3, FS_UNION

\* One row after the other.
RowSums(h, g, S, T) ==
  /\ \A x \in S : IsFiniteSet(T[x])
  /\ \A p \in PairsOf(S, T) : h[p] \in Int
  /\ \A x \in S : g[x] = SumFunctionOnSet([y \in T[x] |-> h[<<x, y>>]], T[x])

\* The sum over a row is that over its pairs.
LEMMA SumOfRow ==
  ASSUME NEW x, NEW T, IsFiniteSet(T), NEW h, \A y \in T : h[<<x, y>>] \in Int
  PROVE  /\ SumFunctionOnSet([y \in T |-> h[<<x, y>>]], T) = SumFunctionOnSet(h, {x} \X T)
         /\ SumFunctionOnSet([y \in T |-> h[<<x, y>>]], T) \in Int
         /\ IsFiniteSet({x} \X T)
<1> DEFINE f == [y \in T |-> h[<<x, y>>]]
           g == [y \in T |-> <<x, y>>]
<1>1. Reindexes(g, T, f, h)
  BY DEF Reindexes
<1>2. Image(g, T) = {x} \X T
  BY DEF Image
<1>3. \A y \in T : f[y] \in Int
  OBVIOUS
<1> HIDE DEF f, g
<1>4. SumFunctionOnSet(f, T) = SumFunctionOnSet(h, Image(g, T)) /\ IsFiniteSet(Image(g, T))
  BY <1>1, SumReindex
<1>5. SumFunctionOnSet(f, T) \in Int
  BY <1>3, SumType
<1> QED
  BY <1>2, <1>4, <1>5 DEF f

\* The sum over the pairs is the sum of the rows' sums.
LEMMA SumNested ==
  ASSUME NEW S, IsFiniteSet(S), NEW T, NEW h, NEW g, RowSums(h, g, S, T)
  PROVE  SumFunctionOnSet(h, PairsOf(S, T)) = SumFunctionOnSet(g, S)
<1> DEFINE P == {R \in SUBSET S : SumFunctionOnSet(h, PairsOf(R, T)) = SumFunctionOnSet(g, R)}
<1>0. /\ \A x \in S : IsFiniteSet(T[x]) /\ \A y \in T[x] : h[<<x, y>>] \in Int
      /\ \A x \in S : g[x] = SumFunctionOnSet(h, {x} \X T[x]) /\ g[x] \in Int
      /\ \A x \in S : IsFiniteSet({x} \X T[x])
  <2>1. \A x \in S : IsFiniteSet(T[x]) /\ \A y \in T[x] : h[<<x, y>>] \in Int
    BY PairsOfIs DEF RowSums
  <2>2. ASSUME NEW x \in S
        PROVE  /\ g[x] = SumFunctionOnSet(h, {x} \X T[x]) /\ g[x] \in Int
               /\ IsFiniteSet({x} \X T[x])
    <3>1. g[x] = SumFunctionOnSet([y \in T[x] |-> h[<<x, y>>]], T[x])
      BY DEF RowSums
    <3>2. IsFiniteSet(T[x]) /\ \A y \in T[x] : h[<<x, y>>] \in Int
      BY <2>1
    <3> DEFINE t == T[x]
    <3>3. g[x] = SumFunctionOnSet([y \in t |-> h[<<x, y>>]], t)
      BY <3>1
    <3>4. IsFiniteSet(t) /\ \A y \in t : h[<<x, y>>] \in Int
      BY <3>2
    <3> HIDE DEF t
    <3>5. /\ SumFunctionOnSet([y \in t |-> h[<<x, y>>]], t) = SumFunctionOnSet(h, {x} \X t)
          /\ SumFunctionOnSet([y \in t |-> h[<<x, y>>]], t) \in Int
          /\ IsFiniteSet({x} \X t)
      BY <3>4, SumOfRow
    <3>6. g[x] = SumFunctionOnSet(h, {x} \X t) /\ g[x] \in Int /\ IsFiniteSet({x} \X t)
      BY <3>3, <3>5
    <3> QED
      BY <3>6 DEF t
  <2> QED
    BY <2>1, <2>2
<1>1. ASSUME NEW R \in SUBSET S, \A x \in R : R \ {x} \in P
      PROVE  R \in P
  <2>1. IsFiniteSet(R)
    BY FS_Subset
  <2>2. CASE R = {}
    <3>1. PairsOf(R, T) = {}
      BY <2>2 DEF PairsOf
    <3> QED
      BY <2>2, <3>1, SumEmpty
  <2>3. CASE R # {}
    <3>1. PICK x \in R : TRUE
      BY <2>3
    <3> DEFINE U == R \ {x}
               A == PairsOf(U, T)
               B == {x} \X T[x]
    <3>2. SumFunctionOnSet(h, A) = SumFunctionOnSet(g, U)
      BY <1>1
    <3>3. PairsOf(R, T) = A \union B /\ A \intersect B = {}
      BY DEF PairsOf
    <3>4. IsFiniteSet(A) /\ IsFiniteSet(B) /\ \A p \in A \union B : h[p] \in Int
      <4>1. IsFiniteSet(U) /\ \A z \in U : IsFiniteSet(T[z])
        BY <1>0, <2>1, FS_Subset
      <4>2. IsFiniteSet(A)
        <5> HIDE DEF U
        <5> QED
          BY <4>1, PairsFinite
      <4>3. \A p \in A : h[p] \in Int
        BY <1>0, PairsOfIs
      <4>4. \A p \in B : h[p] \in Int
        BY <1>0
      <4> QED
        BY <1>0, <4>2, <4>3, <4>4
    <3>5. SumFunctionOnSet(g, R) = g[x] + SumFunctionOnSet(g, U)
      <4>1. \A z \in R : g[z] \in Int
        BY <1>0
      <4> QED
        BY <2>1, <4>1, SumRemove
    <3>6. g[x] = SumFunctionOnSet(h, B) /\ g[x] \in Int
      BY <1>0
    <3>7. SumFunctionOnSet(g, U) \in Int
      <4>1. IsFiniteSet(U) /\ \A z \in U : g[z] \in Int
        BY <1>0, <2>1, FS_Subset
      <4> HIDE DEF U
      <4> QED
        BY <4>1, SumType
    <3> HIDE DEF A, B, U
    <3>8. SumFunctionOnSet(h, B \union A) = SumFunctionOnSet(h, B) + SumFunctionOnSet(h, A)
      <4>1. B \intersect A = {} /\ \A p \in B \union A : h[p] \in Int
        BY <3>3, <3>4
      <4> QED
        BY <3>4, <4>1, SumOfTwo
    <3>9. A \union B = B \union A
      OBVIOUS
    <3>10. SumFunctionOnSet(h, PairsOf(R, T)) = SumFunctionOnSet(g, R)
      BY <3>2, <3>3, <3>5, <3>6, <3>7, <3>8, <3>9
    <3> QED
      BY <3>10
  <2> QED
    BY <2>2, <2>3
<1> HIDE DEF P
<1>2. \A R \in SUBSET S : R \in P
  BY <1>1, SubsetInduction
<1>3. PICK R \in SUBSET S : R = S
  OBVIOUS
<1> QED
  BY <1>2, <1>3 DEF P

\* _sum_known, with nothing for what is missing.
LEMMA ZeroOfKnown ==
  ASSUME NEW values, IsFiniteSet(DOMAIN values), \A i \in DOMAIN values : values[i] \in Amount
  PROVE  /\ Zero(SumKnown(values)) =
              SumFunctionOnSet([i \in DOMAIN values |-> Zero(values[i])], DOMAIN values)
         /\ Zero(SumKnown(values)) \in Nat
<1> DEFINE D == DOMAIN values
           K == Known(values)
           z == [i \in D |-> Zero(values[i])]
<1>1. /\ IsFiniteSet(K) /\ K \subseteq D /\ \A i \in K : values[i] \in Nat
      /\ KnownSum(values) \in Nat
  BY KnownFinite
<1>2. IsFiniteSet(D \ K)
  BY FS_Subset
<1>3. /\ \A i \in D : z[i] \in Nat
      /\ \A i \in K : z[i] = values[i]
      /\ \A i \in D \ K : z[i] = 0
  BY AmountCounts DEF Known, Zero
<1>4. K \union (D \ K) = D /\ K \intersect (D \ K) = {}
  BY <1>1
<1>5. KnownSum(values) = SumFunctionOnSet(values, K)
  BY DEF KnownSum
<1> HIDE DEF z, K, D
<1>6. SumFunctionOnSet(z, K) = SumFunctionOnSet(values, K)
  BY <1>1, <1>3, SumOfEqual
<1>7. SumFunctionOnSet(z, D \ K) = 0
  BY <1>2, <1>3, SumOfNothing DEF Nothing
<1>8. SumFunctionOnSet(z, K \union (D \ K)) = SumFunctionOnSet(z, K) + SumFunctionOnSet(z, D \ K)
  <2> DEFINE rest == D \ K
  <2>1. IsFiniteSet(rest) /\ K \intersect rest = {} /\ \A i \in K \union rest : z[i] \in Int
    BY <1>1, <1>2, <1>3, <1>4
  <2> HIDE DEF rest
  <2>2. SumFunctionOnSet(z, K \union rest) = SumFunctionOnSet(z, K) + SumFunctionOnSet(z, rest)
    BY <1>1, <2>1, SumOfTwo
  <2> QED
    BY <2>2 DEF rest
<1>9. SumFunctionOnSet(z, D) = KnownSum(values)
  BY <1>1, <1>4, <1>5, <1>6, <1>7, <1>8
<1>10. CASE K = {}
  <2>1. KnownSum(values) = 0
    BY <1>5, <1>10, SumEmpty
  <2>2. SumKnown(values) = Missing
    BY <1>10 DEF SumKnown, SumAt, K
  <2> QED
    BY <1>9, <2>1, <2>2 DEF Zero, z, D
<1>11. CASE K # {}
  <2>1. SumKnown(values) = KnownSum(values)
    BY <1>11 DEF SumKnown, SumAt, K, KnownSum
  <2> QED
    BY <1>1, <1>9, <2>1, MissingAssumption DEF Zero, z, D
<1> QED
  BY <1>10, <1>11

\* And over those that are all known.
LEMMA ZeroOfSome ==
  ASSUME NEW values, NEW S, IsFiniteSet(S), \A i \in S : values[i] \in Nat
  PROVE  Zero(SumAt(values, S)) = SumFunctionOnSet(values, S)
<1>1. SumFunctionOnSet(values, S) \in Nat
  BY SumNat
<1>2. CASE S = {}
  BY <1>2, SumEmpty DEF SumAt, Zero
<1>3. CASE S # {}
  BY <1>1, <1>3, MissingAssumption DEF SumAt, Zero
<1> QED
  BY <1>2, <1>3

-----------------------------------------------------------------------------
\* A resolution has an amount unless there was none to be had.
WellResolved(x) ==
  \/ x.kind \in {"reported", "estimated"} /\ x.amount \in Nat
  \/ x.kind = "unavailable" /\ x.amount = Missing

\* An account of reports and resolutions of the same turns.
OfTurns(reports, resolutions) ==
  /\ IsFiniteSet(DOMAIN reports) /\ DOMAIN resolutions = DOMAIN reports
  /\ \A i \in DOMAIN reports : reports[i] \in TurnReport /\ WellResolved(resolutions[i])
\* An account that was made of its own reports and resolutions.
WellFormed(a) ==
  a = Account(a.reports, a.resolutions) /\ OfTurns(a.reports, a.resolutions)

\* _accounting of sound parts gives such an account.
LEMMA AccountOfTurns ==
  ASSUME NEW reports, NEW resolutions, OfTurns(reports, resolutions)
  PROVE  LET a == Account(reports, resolutions)
         IN  WellFormed(a) /\ a.reports = reports /\ a.resolutions = resolutions
<1> DEFINE a == Account(reports, resolutions)
<1>1. a.reports = reports /\ a.resolutions = resolutions
  BY DEF Account
<1> HIDE DEF a
<1>2. WellFormed(a)
  BY <1>1 DEF WellFormed, a
<1> QED
  BY <1>1, <1>2 DEF a

\* An account's numbers are sums over its turns; reported and estimated costs make up all.
LEMMA AccountSums ==
  ASSUME NEW a, WellFormed(a)
  PROVE  LET D == DOMAIN a.reports IN
         /\ a.turns = Cardinality(D) /\ IsFiniteSet(D)
         /\ Zero(a.observed) = SumFunctionOnSet([i \in D |-> Zero(a.reports[i].tokens)], D)
         /\ Zero(a.observedCost) = SumFunctionOnSet([i \in D |-> Zero(a.resolutions[i].amount)], D)
         /\ Zero(a.observed) \in Nat /\ Zero(a.observedCost) \in Nat
         /\ Zero(a.observedCost) = Zero(a.reported) + Zero(a.estimated)
<1> DEFINE reports == a.reports
           res == a.resolutions
           D == DOMAIN reports
           tokens == Tokens(reports)
           amounts == Amounts(res)
<1>1. /\ a = Account(reports, res) /\ IsFiniteSet(D) /\ DOMAIN res = D
      /\ \A i \in D : reports[i] \in TurnReport /\ WellResolved(res[i])
  BY DEF WellFormed, OfTurns
<1> HIDE DEF reports, res
<1>2. /\ a.turns = Cardinality(D)
      /\ a.observed = SumKnown(tokens) /\ a.observedCost = SumKnown(amounts)
      /\ a.reported = SumAt(amounts, OfKind(res, "reported"))
      /\ a.estimated = SumAt(amounts, OfKind(res, "estimated"))
  BY <1>1 DEF Account
<1>3. DOMAIN tokens = D /\ \A i \in D : tokens[i] = reports[i].tokens /\ tokens[i] \in Amount
  BY <1>1 DEF Tokens, Each, TurnReport
<1>4. DOMAIN amounts = D /\ \A i \in D : amounts[i] = res[i].amount /\ amounts[i] \in Amount
  BY <1>1 DEF Amounts, Each, WellResolved, Amount
<1>5. /\ Zero(a.observed) = SumFunctionOnSet([i \in D |-> Zero(reports[i].tokens)], D)
      /\ Zero(a.observed) \in Nat
  <2>1. [i \in D |-> Zero(tokens[i])] = [i \in D |-> Zero(reports[i].tokens)]
    BY <1>3
  <2> HIDE DEF tokens, D
  <2>2. /\ Zero(SumKnown(tokens)) = SumFunctionOnSet([i \in DOMAIN tokens |-> Zero(tokens[i])], DOMAIN tokens)
        /\ Zero(SumKnown(tokens)) \in Nat
    BY <1>1, <1>3, ZeroOfKnown
  <2> QED
    BY <1>2, <1>3, <2>1, <2>2
<1>6. /\ Zero(a.observedCost) = SumFunctionOnSet([i \in D |-> Zero(res[i].amount)], D)
      /\ Zero(a.observedCost) \in Nat
  <2>1. [i \in D |-> Zero(amounts[i])] = [i \in D |-> Zero(res[i].amount)]
    BY <1>4
  <2> HIDE DEF amounts, D
  <2>2. /\ Zero(SumKnown(amounts)) = SumFunctionOnSet([i \in DOMAIN amounts |-> Zero(amounts[i])], DOMAIN amounts)
        /\ Zero(SumKnown(amounts)) \in Nat
    BY <1>1, <1>4, ZeroOfKnown
  <2> QED
    BY <1>2, <1>4, <2>1, <2>2
<1>7. Zero(a.observedCost) = Zero(a.reported) + Zero(a.estimated)
  <2> DEFINE R == OfKind(res, "reported")
             E == OfKind(res, "estimated")
  <2>1. /\ R \subseteq D /\ E \subseteq D /\ R \intersect E = {}
        /\ Known(amounts) = R \union E
        /\ \A i \in R \union E : amounts[i] \in Nat
    <3>1. \A i \in D : /\ res[i].kind = "reported" \/ res[i].kind = "estimated" <=> amounts[i] # Missing
                       /\ res[i].kind \in {"reported", "estimated"} => amounts[i] \in Nat
      <4> SUFFICES ASSUME NEW i \in D
                   PROVE  /\ res[i].kind = "reported" \/ res[i].kind = "estimated" <=> amounts[i] # Missing
                          /\ res[i].kind \in {"reported", "estimated"} => amounts[i] \in Nat
        OBVIOUS
      <4>1. WellResolved(res[i]) /\ amounts[i] = res[i].amount
        BY <1>1, <1>4
      <4> HIDE DEF amounts
      <4> QED
        BY <4>1, MissingAssumption DEF WellResolved
    <3> HIDE DEF amounts
    <3> QED
      BY <1>1, <1>4, <3>1 DEF OfKind, Known
  <2>2. IsFiniteSet(R) /\ IsFiniteSet(E)
    BY <1>1, <2>1, FS_Subset
  <2> HIDE DEF R, E, amounts
  <2>3. Zero(SumAt(amounts, R)) = SumFunctionOnSet(amounts, R)
    BY <2>1, <2>2, ZeroOfSome
  <2>4. Zero(SumAt(amounts, E)) = SumFunctionOnSet(amounts, E)
    BY <2>1, <2>2, ZeroOfSome
  <2>5. SumFunctionOnSet(amounts, R \union E) = SumFunctionOnSet(amounts, R) + SumFunctionOnSet(amounts, E)
    <3>1. \A i \in R \union E : amounts[i] \in Int
      BY <2>1
    <3> QED
      BY <2>1, <2>2, <3>1, SumOfTwo
  <2>6. Zero(SumKnown(amounts)) = SumFunctionOnSet(amounts, R \union E)
    <3>1. IsFiniteSet(R \union E)
      BY <2>2, FS_Union
    <3> DEFINE RE == R \union E
    <3>2. IsFiniteSet(RE) /\ \A i \in RE : amounts[i] \in Nat
      BY <2>1, <3>1
    <3> HIDE DEF RE
    <3>3. Zero(SumAt(amounts, RE)) = SumFunctionOnSet(amounts, RE)
      BY <3>2, ZeroOfSome
    <3> QED
      BY <2>1, <3>3 DEF SumKnown, RE
  <2> QED
    BY <1>2, <2>3, <2>4, <2>5, <2>6 DEF R, E
<1> QED
  BY <1>1, <1>2, <1>5, <1>6, <1>7 DEF reports, res

\* What is called complete is whole.
LEMMA AccountWhole ==
  ASSUME NEW a, WellFormed(a)
  PROVE  LET D == DOMAIN a.reports IN
         /\ a.input # Missing =>
              /\ \A i \in D : a.reports[i].coverage = "complete" /\ a.reports[i].tokens \in Nat
              /\ a.input = SumFunctionOnSet([i \in D |-> a.reports[i].tokens], D)
         /\ a.cost # Missing =>
              \A i \in D : /\ a.resolutions[i].amount # Missing
                           /\ a.resolutions[i].kind = "estimated" => a.resolutions[i].coverage = "complete"
<1> DEFINE reports == a.reports
           res == a.resolutions
           D == DOMAIN reports
           tokens == Tokens(reports)
           amounts == Amounts(res)
<1>1. /\ a = Account(reports, res) /\ IsFiniteSet(D) /\ DOMAIN res = D
      /\ \A i \in D : reports[i] \in TurnReport /\ WellResolved(res[i])
  BY DEF WellFormed, OfTurns
<1> HIDE DEF reports, res
<1>2. DOMAIN tokens = D /\ \A i \in D : tokens[i] = reports[i].tokens /\ tokens[i] \in Amount
  BY <1>1 DEF Tokens, Each, TurnReport
<1>3. DOMAIN amounts = D /\ \A i \in D : amounts[i] = res[i].amount /\ amounts[i] \in Amount
  BY <1>1 DEF Amounts, Each, WellResolved, Amount
<1>4. ASSUME a.input # Missing
      PROVE  /\ \A i \in D : reports[i].coverage = "complete" /\ reports[i].tokens \in Nat
             /\ a.input = SumFunctionOnSet([i \in D |-> reports[i].tokens], D)
  <2>1. a.input = IF ReportsCoverage(reports) = "complete" THEN SumKnown(tokens) ELSE Missing
    BY <1>1 DEF Account
  <2>2. ReportsCoverage(reports) = "complete" /\ a.input = SumKnown(tokens)
    BY <1>4, <2>1
  <2> DEFINE K == Known(tokens)
  <2>3. K \in SUBSET D
    BY <1>2 DEF Known
  <2>4. Cardinality(K) # 0 /\ Cardinality(K) = Cardinality(D) /\ AllComplete(reports, K)
    BY <2>2 DEF ReportsCoverage, Coverage
  <2>5. K = D /\ K # {}
    <3> HIDE DEF K, D
    <3>1. K = D
      BY <1>1, <2>3, <2>4, FS_Subset
    <3> QED
      BY <2>4, <3>1, FS_EmptySet
  <2>6. \A i \in D : reports[i].coverage = "complete" /\ reports[i].tokens \in Nat
    <3>1. \A i \in D : reports[i].coverage = "complete"
      BY <2>4, <2>5 DEF AllComplete
    <3>2. \A i \in D : tokens[i] # Missing
      BY <2>5 DEF Known
    <3> QED
      BY <1>2, <3>1, <3>2 DEF Amount
  <2>7. a.input = SumFunctionOnSet(tokens, D)
    BY <2>2, <2>5 DEF SumKnown, SumAt
  <2>8. tokens = [i \in D |-> reports[i].tokens]
    BY DEF Tokens, Each
  <2> QED
    BY <2>6, <2>7, <2>8
<1>5. ASSUME a.cost # Missing
      PROVE  \A i \in D : res[i].amount # Missing /\ (res[i].kind = "estimated" => res[i].coverage = "complete")
  <2> DEFINE K == Known(amounts)
             E == OfKind(res, "estimated")
             c == Coverage(Cardinality(K), Cardinality(D), AllComplete(res, E))
  <2>1. a.cost = IF c = "complete" THEN SumKnown(amounts) ELSE Missing
    BY <1>1 DEF Account
  <2>2. c = "complete"
    BY <1>5, <2>1
  <2>3. Cardinality(K) = Cardinality(D) /\ AllComplete(res, E)
    BY <2>2 DEF Coverage
  <2>4. K \in SUBSET D
    BY <1>3 DEF Known
  <2>5. K = D
    <3> HIDE DEF K, D
    <3> QED
      BY <1>1, <2>3, <2>4, FS_Subset
  <2>6. \A i \in D : amounts[i] # Missing
    BY <2>5 DEF Known
  <2>7. \A i \in D : res[i].kind = "estimated" => res[i].coverage = "complete"
    BY <1>1, <2>3 DEF AllComplete, OfKind
  <2> QED
    BY <1>3, <2>6, <2>7
<1> QED
  BY <1>4, <1>5 DEF reports, res

\* The turns of several accounts.
TurnsIn(accounts) == [k \in DOMAIN accounts |-> DOMAIN accounts[k].reports]
\* Where they are in the aggregate.
PlacesIn(accounts) == PairsOf(DOMAIN accounts, TurnsIn(accounts))

\* _aggregate keeps every turn of every account, once, with its report and resolution.
LEMMA AggregateIs ==
  ASSUME NEW accounts, IsFiniteSet(DOMAIN accounts), \A k \in DOMAIN accounts : WellFormed(accounts[k])
  PROVE  LET a == Aggregate(accounts) IN
         /\ WellFormed(a) /\ DOMAIN a.reports = PlacesIn(accounts) /\ DOMAIN a.resolutions = PlacesIn(accounts)
         /\ \A k \in DOMAIN accounts : \A i \in DOMAIN accounts[k].reports :
              /\ <<k, i>> \in PlacesIn(accounts)
              /\ a.reports[<<k, i>>] = accounts[k].reports[i]
              /\ a.resolutions[<<k, i>>] = accounts[k].resolutions[i]
<1> DEFINE S == DOMAIN accounts
           P == PlacesIn(accounts)
           reports == [s \in P |-> accounts[s[1]].reports[s[2]]]
           res == [s \in P |-> accounts[s[1]].resolutions[s[2]]]
<1>1. \A k \in S : /\ IsFiniteSet(DOMAIN accounts[k].reports)
                   /\ DOMAIN accounts[k].resolutions = DOMAIN accounts[k].reports
                   /\ \A i \in DOMAIN accounts[k].reports :
                        accounts[k].reports[i] \in TurnReport /\ WellResolved(accounts[k].resolutions[i])
  BY DEF WellFormed, OfTurns
<1>2. P = UNION {{k} \X DOMAIN accounts[k].reports : k \in S}
  BY DEF PlacesIn, PairsOf, TurnsIn
<1>3. P = UNION {{k} \X DOMAIN accounts[k].resolutions : k \in S}
  BY <1>1, <1>2
<1>4. \A p : p \in P <=> \E k \in S : \E i \in DOMAIN accounts[k].reports : p = <<k, i>>
  BY <1>2
<1>5. Aggregate(accounts) = Account(reports, res)
  <2>1. Together(accounts, LAMBDA a : a.reports) = reports
    BY <1>2 DEF Together
  <2>2. Together(accounts, LAMBDA a : a.resolutions) = res
    BY <1>3 DEF Together
  <2> HIDE DEF reports, res
  <2> QED
    BY <2>1, <2>2 DEF Aggregate
<1>6. IsFiniteSet(P)
  <2> DEFINE T == TurnsIn(accounts)
  <2>1. \A k \in S : IsFiniteSet(T[k])
    BY <1>1 DEF TurnsIn
  <2> HIDE DEF T
  <2>2. IsFiniteSet(PairsOf(S, T))
    BY <2>1, PairsFinite
  <2> QED
    BY <2>2 DEF PlacesIn, T
<1>7. /\ DOMAIN reports = P /\ DOMAIN res = P
      /\ \A k \in S : \A i \in DOMAIN accounts[k].reports :
           <<k, i>> \in P /\ reports[<<k, i>>] = accounts[k].reports[i]
                          /\ res[<<k, i>>] = accounts[k].resolutions[i]
  <2> HIDE DEF P
  <2> QED
    BY <1>4
<1> HIDE DEF reports, res, P
<1>8. OfTurns(reports, res)
  <2>1. \A p \in P : reports[p] \in TurnReport /\ WellResolved(res[p])
    <3> SUFFICES ASSUME NEW p \in P PROVE reports[p] \in TurnReport /\ WellResolved(res[p])
      OBVIOUS
    <3>1. PICK k \in S : \E i \in DOMAIN accounts[k].reports : p = <<k, i>>
      BY <1>4
    <3>2. PICK i \in DOMAIN accounts[k].reports : p = <<k, i>>
      BY <3>1
    <3> QED
      BY <1>1, <1>7, <3>2
  <2> QED
    BY <1>6, <1>7, <2>1 DEF OfTurns
<1>9. LET a == Account(reports, res)
      IN  WellFormed(a) /\ a.reports = reports /\ a.resolutions = res
  BY <1>8, AccountOfTurns
<1> QED
  BY <1>5, <1>7, <1>9 DEF P

\* The sums of an aggregate are those of its accounts added up.
LEMMA AggregateSums ==
  ASSUME NEW accounts, IsFiniteSet(DOMAIN accounts), \A k \in DOMAIN accounts : WellFormed(accounts[k])
  PROVE  LET S == DOMAIN accounts IN
         /\ Zero(Aggregate(accounts).observed) = SumFunctionOnSet([k \in S |-> Zero(accounts[k].observed)], S)
         /\ Zero(Aggregate(accounts).observedCost) =
              SumFunctionOnSet([k \in S |-> Zero(accounts[k].observedCost)], S)
<1> DEFINE S == DOMAIN accounts
           a == Aggregate(accounts)
           T == TurnsIn(accounts)
           P == PlacesIn(accounts)
<1>1. /\ WellFormed(a) /\ DOMAIN a.reports = P
      /\ \A k \in S : \A i \in DOMAIN accounts[k].reports :
           /\ <<k, i>> \in P
           /\ a.reports[<<k, i>>] = accounts[k].reports[i]
           /\ a.resolutions[<<k, i>>] = accounts[k].resolutions[i]
  BY AggregateIs
<1> HIDE DEF a
<1>2. /\ Zero(a.observed) = SumFunctionOnSet([p \in P |-> Zero(a.reports[p].tokens)], P)
      /\ Zero(a.observedCost) = SumFunctionOnSet([p \in P |-> Zero(a.resolutions[p].amount)], P)
  BY <1>1, AccountSums
<1>3. \A k \in S : T[k] = DOMAIN accounts[k].reports /\ IsFiniteSet(T[k])
  BY DEF TurnsIn, WellFormed, OfTurns
<1>4. P = PairsOf(S, T)
  BY DEF PlacesIn
<1>5. \A k \in S :
        /\ Zero(accounts[k].observed) =
             SumFunctionOnSet([i \in T[k] |-> Zero(accounts[k].reports[i].tokens)], T[k])
        /\ Zero(accounts[k].observedCost) =
             SumFunctionOnSet([i \in T[k] |-> Zero(accounts[k].resolutions[i].amount)], T[k])
  <2> SUFFICES ASSUME NEW k \in S
               PROVE  /\ Zero(accounts[k].observed) =
                           SumFunctionOnSet([i \in T[k] |-> Zero(accounts[k].reports[i].tokens)], T[k])
                      /\ Zero(accounts[k].observedCost) =
                           SumFunctionOnSet([i \in T[k] |-> Zero(accounts[k].resolutions[i].amount)], T[k])
    OBVIOUS
  <2> DEFINE b == accounts[k]
             D == DOMAIN b.reports
  <2>1. WellFormed(b) /\ T[k] = D
    BY <1>3
  <2> HIDE DEF b
  <2>2. /\ Zero(b.observed) = SumFunctionOnSet([i \in D |-> Zero(b.reports[i].tokens)], D)
        /\ Zero(b.observedCost) = SumFunctionOnSet([i \in D |-> Zero(b.resolutions[i].amount)], D)
    BY <2>1, AccountSums
  <2> HIDE DEF D, T
  <2>3. /\ Zero(b.observed) = SumFunctionOnSet([i \in T[k] |-> Zero(b.reports[i].tokens)], T[k])
        /\ Zero(b.observedCost) = SumFunctionOnSet([i \in T[k] |-> Zero(b.resolutions[i].amount)], T[k])
    BY <2>1, <2>2
  <2> QED
    BY <2>3 DEF b
<1>6. \A p \in P : Zero(a.reports[p].tokens) \in Int /\ Zero(a.resolutions[p].amount) \in Int
  <2>1. DOMAIN a.reports = P /\ OfTurns(a.reports, a.resolutions)
    BY <1>1 DEF WellFormed
  <2>2. \A p \in P : a.reports[p].tokens \in Amount /\ a.resolutions[p].amount \in Amount
    BY <2>1 DEF OfTurns, TurnReport, WellResolved, Amount
  <2>3. \A v \in Amount : Zero(v) \in Int
    BY AmountCounts
  <2> QED
    BY <2>2, <2>3
<1>7. Zero(a.observed) = SumFunctionOnSet([k \in S |-> Zero(accounts[k].observed)], S)
  <2> DEFINE h == [p \in P |-> Zero(a.reports[p].tokens)]
             g == [k \in S |-> Zero(accounts[k].observed)]
  <2>1. RowSums(h, g, S, T)
    <3>1. \A p \in PairsOf(S, T) : h[p] \in Int
      BY <1>4, <1>6
    <3>2. ASSUME NEW k \in S
          PROVE  g[k] = SumFunctionOnSet([i \in T[k] |-> h[<<k, i>>]], T[k])
      <4> DEFINE rows1 == [i \in T[k] |-> h[<<k, i>>]]
                 rows2 == [i \in T[k] |-> Zero(accounts[k].reports[i].tokens)]
      <4>1. \A i \in T[k] : <<k, i>> \in P /\ h[<<k, i>>] = Zero(accounts[k].reports[i].tokens)
        BY <1>1, <1>3
      <4> HIDE DEF h
      <4>2. rows1 = rows2
        BY <4>1
      <4>3. g[k] = SumFunctionOnSet(rows2, T[k])
        BY <1>5
      <4> QED
        BY <4>2, <4>3
    <3> HIDE DEF h, g, T
    <3> QED
      BY <1>3, <3>1, <3>2 DEF RowSums
  <2> HIDE DEF h, g, T, S, P
  <2>2. SumFunctionOnSet(h, PairsOf(S, T)) = SumFunctionOnSet(g, S)
    BY <2>1, SumNested DEF S
  <2> QED
    BY <1>2, <1>4, <2>2 DEF h, g
<1>8. Zero(a.observedCost) = SumFunctionOnSet([k \in S |-> Zero(accounts[k].observedCost)], S)
  <2> DEFINE h == [p \in P |-> Zero(a.resolutions[p].amount)]
             g == [k \in S |-> Zero(accounts[k].observedCost)]
  <2>1. RowSums(h, g, S, T)
    <3>1. \A p \in PairsOf(S, T) : h[p] \in Int
      BY <1>4, <1>6
    <3>2. ASSUME NEW k \in S
          PROVE  g[k] = SumFunctionOnSet([i \in T[k] |-> h[<<k, i>>]], T[k])
      <4> DEFINE rows1 == [i \in T[k] |-> h[<<k, i>>]]
                 rows2 == [i \in T[k] |-> Zero(accounts[k].resolutions[i].amount)]
      <4>1. \A i \in T[k] : <<k, i>> \in P /\ h[<<k, i>>] = Zero(accounts[k].resolutions[i].amount)
        BY <1>1, <1>3
      <4> HIDE DEF h
      <4>2. rows1 = rows2
        BY <4>1
      <4>3. g[k] = SumFunctionOnSet(rows2, T[k])
        BY <1>5
      <4> QED
        BY <4>2, <4>3
    <3> HIDE DEF h, g, T
    <3> QED
      BY <1>3, <3>1, <3>2 DEF RowSums
  <2> HIDE DEF h, g, T, S, P
  <2>2. SumFunctionOnSet(h, PairsOf(S, T)) = SumFunctionOnSet(g, S)
    BY <2>1, SumNested DEF S
  <2> QED
    BY <1>2, <1>4, <2>2 DEF h, g
<1> QED
  BY <1>7, <1>8 DEF a

-----------------------------------------------------------------------------
(* What holds throughout the report.                                        *)

\* Two sequences, one after the other.
LEMMA ConcatIs ==
  ASSUME NEW S, NEW s \in Seq(S), NEW t \in Seq(S)
  PROVE  /\ s \o t \in Seq(S) /\ Len(s \o t) = Len(s) + Len(t)
         /\ DOMAIN (s \o t) = 1..Len(s) + Len(t)
         /\ \A i \in 1..Len(s) : (s \o t)[i] = s[i]
         /\ \A i \in 1..Len(t) : (s \o t)[Len(s) + i] = t[i]
OBVIOUS

\* The elements of a finite set in some order.
LEMMA SetToSeqIs ==
  ASSUME NEW S, IsFiniteSet(S)
  PROVE  /\ SetToSeq(S) \in Seq(S)
         /\ DOMAIN SetToSeq(S) = 1..Len(SetToSeq(S)) /\ Len(SetToSeq(S)) \in Nat
         /\ \A i \in 1..Len(SetToSeq(S)) : SetToSeq(S)[i] \in S
         /\ \A x \in S : \E i \in 1..Len(SetToSeq(S)) : SetToSeq(S)[i] = x
<1> DEFINE n == Cardinality(S)
           f == SetToSeq(S)
<1>1. n \in Nat /\ ExistsBijection(1..n, S)
  BY FS_CardinalityType
<1>2. \E g \in [1..n -> S] : IsInjective(g)
  BY <1>1 DEF ExistsBijection, Bijection, Injection
<1>3. f \in [1..n -> S] /\ IsInjective(f)
  BY <1>2 DEF SetToSeq
<1> HIDE DEF f
<1>4. f \in Injection(1..n, S)
  BY <1>3 DEF Injection
<1>5. Cardinality(1..n) = n
  BY <1>1, FS_Interval
<1>6. f \in Surjection(1..n, S)
  BY <1>4, <1>5, FS_Injection
<1>7. f \in Seq(S) /\ Len(f) = n /\ DOMAIN f = 1..n
  BY <1>1, <1>3
<1>8. \A x \in S : \E i \in 1..n : f[i] = x
  BY <1>6 DEF Surjection
<1> QED
  BY <1>1, <1>3, <1>7, <1>8 DEF f

-----------------------------------------------------------------------------
\* Where an answer of the batch goes, and what it answers.
Place == [row : Nat, role : DOMAIN Price, turn : Nat]
Request == [report : TurnReport, role : DOMAIN Price]
\* Until the report is written, or there is none.
Reading == exit \in {Running, "2"}
\* The reports of a role of the row's trial, as the job has them.
ReportsAt(k, r) == job[rows[k].trial].roles[r].reports

\* The job is a sequence of trials.
JobInv ==
  /\ job = [k \in 1..Len(job) |-> job[k]] /\ Len(job) \in Nat
  /\ \A k \in 1..Len(job) : IsTrial(job[k])

\* Each trial read so far was sound, and has a row unless it was skipped.
ReadInv ==
  /\ next \in 1..Len(job) + 1
  /\ skipped \subseteq 1..next - 1
  /\ \A i \in 1..next - 1 :
       /\ i \in skipped <=> Active(job[i]) = {}
       /\ Active(job[i]) # {} => \E k \in DOMAIN rows : rows[k].trial = i
       /\ \A r \in Active(job[i]) : Sound(job[i].roles[r])

\* Each row is of one trial, no other row is, and has its active roles with their reports.
RowsInv ==
  /\ \E S : rows \in Seq(S)
  /\ \A k \in DOMAIN rows :
       /\ rows[k].trial \in 1..next - 1
       /\ Active(job[rows[k].trial]) # {}
       /\ DOMAIN rows[k].usage = Active(job[rows[k].trial])
       /\ \A r \in DOMAIN rows[k].usage : rows[k].usage[r].reports = ReportsAt(k, r)
  /\ \A k, l \in DOMAIN rows : rows[k].trial = rows[l].trial => k = l

\* Requests and places are in step: each place is a turn without a cost, its request has
\* that turn's report, and every turn without a cost has a place.
BatchInv ==
  /\ pending \in Seq(Place) /\ requests \in Seq(Request) /\ Len(requests) = Len(pending)
  /\ \A i \in DOMAIN pending :
       /\ pending[i].row \in DOMAIN rows
       /\ pending[i].role \in DOMAIN rows[pending[i].row].usage
       /\ pending[i].turn \in Unpriced(ReportsAt(pending[i].row, pending[i].role))
       /\ requests[i] =
            [report |-> ReportsAt(pending[i].row, pending[i].role)[pending[i].turn], role |-> pending[i].role]
  /\ \A k \in DOMAIN rows : \A r \in DOMAIN rows[k].usage : \A t \in Unpriced(ReportsAt(k, r)) :
       \E i \in DOMAIN pending : pending[i] = [row |-> k, role |-> r, turn |-> t]
\* An answer is one to the request at its position.
AnswersInv ==
  answers = <<>> \/
    /\ next > Len(job) /\ Len(answers) = Len(requests) /\ DOMAIN answers = DOMAIN requests
    /\ \A i \in DOMAIN requests : answers[i] \in Answers(requests[i])

\* The resolution of a turn is its own: its reported cost, or an answer for its report.
Resolves(resolution, report, r) ==
  \/ resolution = NativeResolution(report) /\ report.cost # Missing
  \/ report.cost = Missing /\ resolution \in Answers([report |-> report, role |-> r])
\* What the rows and the totals hold, before the report is written and after.
UsageInv ==
  /\ exit \in {Running, "0", "1", "2"}
  /\ Reading =>
       /\ \A k \in DOMAIN rows : \A r \in DOMAIN rows[k].usage :
            rows[k].usage[r] = FirstAccount(ReportsAt(k, r))
       /\ DOMAIN roleTotals = {}
  /\ Finished =>
       /\ next > Len(job)
       /\ \A k \in DOMAIN rows : \A r \in DOMAIN rows[k].usage :
            /\ WellFormed(rows[k].usage[r])
            /\ \A t \in DOMAIN ReportsAt(k, r) :
                 Resolves(rows[k].usage[r].resolutions[t], ReportsAt(k, r)[t], r)
       /\ roleTotals = [r \in RolesOf(rows) |-> Aggregate(RoleAccounts(rows, r))]
       /\ total = Downgraded(Aggregate(roleTotals))

\* Inductive, and what JobReportAddsUp follows from.
ReportInv == JobInv /\ ReadInv /\ RowsInv /\ BatchInv /\ AnswersInv /\ UsageInv

-----------------------------------------------------------------------------
\* The active roles of a trial are finitely many, with a price, and have reports.
LEMMA ActiveRolesIs ==
  ASSUME JobInv, NEW i \in 1..Len(job)
  PROVE  /\ IsTrial(job[i]) /\ IsFiniteSet(Active(job[i])) /\ Active(job[i]) \subseteq DOMAIN Price
         /\ \A r \in Active(job[i]) :
              /\ job[i].roles # Missing /\ r \in DOMAIN job[i].roles
              /\ job[i].roles[r].reports \in Seq(TurnReport)
              /\ DOMAIN job[i].roles[r].reports = 1..Len(job[i].roles[r].reports)
              /\ Len(job[i].roles[r].reports) \in Nat
<1>1. IsTrial(job[i])
  BY DEF JobInv
<1>2. CASE Readable(job[i])
  <2>1. /\ job[i].roles # Missing /\ Active(job[i]) \in SUBSET DOMAIN job[i].roles
    BY <1>2 DEF Readable, Active
  <2>2. /\ IsFiniteSet(DOMAIN job[i].roles) /\ DOMAIN job[i].roles \subseteq DOMAIN Price
        /\ \A r \in DOMAIN job[i].roles : job[i].roles[r].reports \in Seq(TurnReport)
    BY <1>1, <2>1 DEF IsTrial
  <2>3. IsFiniteSet(Active(job[i]))
    BY <2>1, <2>2, FS_Subset
  <2> QED
    BY <1>1, <2>1, <2>2, <2>3
<1>3. CASE ~Readable(job[i])
  <2>1. Active(job[i]) = {}
    BY <1>3 DEF Active
  <2> QED
    BY <1>1, <2>1, FS_EmptySet
<1> QED
  BY <1>2, <1>3

\* So are the roles of a row.
LEMMA RowIs ==
  ASSUME JobInv, ReadInv, RowsInv, NEW k \in DOMAIN rows
  PROVE  /\ DOMAIN rows = 1..Len(rows) /\ Len(rows) \in Nat
         /\ rows[k].trial \in 1..Len(job)
         /\ IsFiniteSet(DOMAIN rows[k].usage) /\ DOMAIN rows[k].usage \subseteq DOMAIN Price
         /\ \A r \in DOMAIN rows[k].usage :
              /\ r \in DOMAIN job[rows[k].trial].roles
              /\ ReportsAt(k, r) \in Seq(TurnReport)
              /\ DOMAIN ReportsAt(k, r) = 1..Len(ReportsAt(k, r)) /\ Len(ReportsAt(k, r)) \in Nat
<1>1. DOMAIN rows = 1..Len(rows) /\ Len(rows) \in Nat
  BY DEF RowsInv
<1>2. rows[k].trial \in 1..next - 1 /\ DOMAIN rows[k].usage = Active(job[rows[k].trial])
  BY DEF RowsInv
<1>3. rows[k].trial \in 1..Len(job)
  BY <1>2 DEF ReadInv, JobInv
<1> QED
  BY <1>1, <1>2, <1>3, ActiveRolesIs DEF ReportsAt

\* Before any estimate a turn has the cost it reported.
LEMMA FirstAccountIs ==
  ASSUME NEW reports
  PROVE  /\ FirstAccount(reports).reports = reports
         /\ \A t \in DOMAIN reports : FirstAccount(reports).resolutions[t] = NativeResolution(reports[t])
BY DEF FirstAccount, Account, Each

\* A turn's own resolution has an amount unless there was none to be had.
LEMMA ResolvesWell ==
  ASSUME JobsAssumption, NEW report \in TurnReport, NEW r \in DOMAIN Price, NEW x, Resolves(x, report, r)
  PROVE  WellResolved(x)
<1>1. CASE x = NativeResolution(report) /\ report.cost # Missing
  <2>1. report.cost \in Nat
    BY <1>1 DEF TurnReport, Amount
  <2>2. x = [kind |-> "reported", amount |-> report.cost, coverage |-> "complete"]
    BY <1>1 DEF NativeResolution
  <2> QED
    BY <2>1, <2>2 DEF WellResolved
<1>2. CASE x = Unavailable
  BY <1>2 DEF Unavailable, Unresolved, WellResolved
<1>3. CASE x = EstimateOf([report |-> report, role |-> r]) /\ report.tokens # Missing
  <2>1. x = [kind |-> "estimated", coverage |-> report.coverage, amount |-> Price[r] * report.tokens]
    BY <1>3 DEF EstimateOf
  <2>2. Price[r] \in Nat /\ report.tokens \in Nat
    BY <1>3 DEF JobsAssumption, TurnReport, Amount
  <2> DEFINE p == Price[r]
             q == report.tokens
  <2> HIDE DEF p, q
  <2>3. p * q \in Nat
    <3>1. p \in Nat /\ q \in Nat
      BY <2>2 DEF p, q
    <3> QED
      BY <3>1
  <2> QED
    BY <2>1, <2>3 DEF WellResolved, p, q
<1> QED
  BY <1>1, <1>2, <1>3 DEF Resolves, Answers

\* At first nothing is read.
LEMMA ReportStart ==
  ASSUME JobInv, NothingRead
  PROVE  ReportInv
<1>1. /\ next = 1 /\ rows = <<>> /\ skipped = {} /\ requests = <<>> /\ pending = <<>> /\ answers = <<>>
      /\ DOMAIN roleTotals = {} /\ exit = Running
  BY DEF NothingRead
<1>2. DOMAIN <<>> = {} /\ Len(<<>>) = 0 /\ 1..0 = {}
  OBVIOUS
<1>3. ReadInv
  BY <1>1, <1>2 DEF ReadInv, JobInv
<1>4. RowsInv
  <2>1. <<>> \in Seq({})
    OBVIOUS
  <2> QED
    BY <1>1, <1>2, <2>1 DEF RowsInv
<1>5. BatchInv
  <2>1. <<>> \in Seq(Place) /\ <<>> \in Seq(Request)
    OBVIOUS
  <2> QED
    BY <1>1, <1>2, <2>1 DEF BatchInv
<1>6. AnswersInv /\ UsageInv
  BY <1>1, <1>2 DEF AnswersInv, UsageInv, Running, Finished, Reading
<1> QED
  BY <1>3, <1>4, <1>5, <1>6 DEF ReportInv

\* The batch is left alone.
LEMMA BatchStays ==
  ASSUME BatchInv, UNCHANGED <<job, rows, requests, pending>>
  PROVE  BatchInv'
<1>1. /\ job' = job /\ rows' = rows /\ requests' = requests /\ pending' = pending
  OBVIOUS
<1>2. pending' \in Seq(Place) /\ requests' \in Seq(Request) /\ Len(requests') = Len(pending')
  BY <1>1 DEF BatchInv
<1>3. ASSUME NEW i \in DOMAIN pending'
      PROVE  /\ pending'[i].row \in DOMAIN rows'
             /\ pending'[i].role \in DOMAIN rows'[pending'[i].row].usage
             /\ pending'[i].turn \in Unpriced(job'[rows'[pending'[i].row].trial].roles[pending'[i].role].reports)
             /\ requests'[i] =
                  [report |-> job'[rows'[pending'[i].row].trial].roles[pending'[i].role].reports[pending'[i].turn],
                   role |-> pending'[i].role]
  BY <1>1, <1>3 DEF BatchInv, ReportsAt
<1>4. ASSUME NEW k \in DOMAIN rows', NEW r \in DOMAIN rows'[k].usage,
             NEW t \in Unpriced(job'[rows'[k].trial].roles[r].reports)
      PROVE  \E i \in DOMAIN pending' : pending'[i] = [row |-> k, role |-> r, turn |-> t]
  <2>1. k \in DOMAIN rows /\ r \in DOMAIN rows[k].usage /\ t \in Unpriced(ReportsAt(k, r))
    BY <1>1 DEF ReportsAt
  <2>2. PICK i \in DOMAIN pending : pending[i] = [row |-> k, role |-> r, turn |-> t]
    BY <2>1 DEF BatchInv
  <2> QED
    BY <1>1, <2>2
<1> QED
  BY <1>2, <1>3, <1>4 DEF BatchInv, ReportsAt

\* A trial is skipped.
LEMMA SkipStep ==
  ASSUME ReportInv, exit = Running, next <= Len(job), Active(job[next]) = {},
         skipped' = skipped \union {next}, next' = next + 1,
         UNCHANGED <<job, rows, requests, pending, exit, answers, roleTotals, total>>
  PROVE  ReportInv'
<1> USE DEF ReportInv
<1>0. next \in Nat /\ Len(job) \in Nat /\ next >= 1
  BY DEF ReadInv, JobInv
<1>1. JobInv'
  BY DEF JobInv
<1>2. ReadInv'
  <2>1. next' \in 1..Len(job) + 1 /\ skipped' \subseteq 1..next' - 1
    BY <1>0 DEF ReadInv
  <2>2. ASSUME NEW i \in 1..next' - 1
        PROVE  /\ i \in skipped' <=> Active(job[i]) = {}
               /\ Active(job[i]) # {} => \E k \in DOMAIN rows : rows[k].trial = i
               /\ \A r \in Active(job[i]) : Sound(job[i].roles[r])
    <3>1. CASE i = next
      BY <3>1
    <3>2. CASE i \in 1..next - 1
      BY <1>0, <3>2 DEF ReadInv
    <3> QED
      BY <1>0, <3>1, <3>2
  <2> QED
    BY <2>1, <2>2 DEF ReadInv
<1>3. RowsInv'
  <2>1. \A k \in DOMAIN rows : rows[k].trial \in 1..next' - 1
    BY <1>0 DEF RowsInv
  <2> QED
    BY <2>1 DEF RowsInv, ReportsAt
<1>4. BatchInv'
  BY BatchStays
<1>5. AnswersInv'
  BY <1>0 DEF AnswersInv
<1>6. UsageInv'
  BY DEF UsageInv, Reading, Finished, Running, ReportsAt
<1> QED
  BY <1>1, <1>2, <1>3, <1>4, <1>5, <1>6

\* An unsound trial ends the report.
LEMMA EndedStep ==
  ASSUME ReportInv, Reading, Reading',
         UNCHANGED <<job, next, rows, skipped, requests, pending, answers, roleTotals>>
  PROVE  ReportInv'
<1> USE DEF ReportInv
<1>0. JobInv' /\ ReadInv'
  BY DEF JobInv, ReadInv
<1>4. RowsInv'
  BY DEF RowsInv, ReportsAt
<1>5. AnswersInv'
  BY DEF AnswersInv
<1>1. JobInv' /\ ReadInv' /\ RowsInv' /\ AnswersInv'
  BY <1>0, <1>4, <1>5
<1>3. BatchInv'
  BY BatchStays
<1>2. UsageInv'
  BY DEF UsageInv, Reading, Finished, Running, ReportsAt
<1> QED
  BY <1>1, <1>2, <1>3

\* The places of a trial are its turns without a cost.
LEMMA PlacesIs ==
  ASSUME JobInv, NEW i \in 1..Len(job), NEW row \in Nat
  PROVE  /\ IsFiniteSet(Places(job[i], row)) /\ Places(job[i], row) \subseteq Place
         /\ \A p \in Places(job[i], row) :
              /\ p.row = row /\ p.role \in Active(job[i])
              /\ p.turn \in Unpriced(job[i].roles[p.role].reports)
         /\ \A r \in Active(job[i]) : \A t \in Unpriced(job[i].roles[r].reports) :
              [row |-> row, role |-> r, turn |-> t] \in Places(job[i], row)
<1> DEFINE A == Active(job[i])
           T == [r \in A |-> Unpriced(job[i].roles[r].reports)]
           placeOf == [p \in PairsOf(A, T) |-> [row |-> row, role |-> p[1], turn |-> p[2]]]
<1>1. /\ IsFiniteSet(A) /\ A \subseteq DOMAIN Price
      /\ \A r \in A : /\ DOMAIN job[i].roles[r].reports = 1..Len(job[i].roles[r].reports)
                      /\ Len(job[i].roles[r].reports) \in Nat
  BY ActiveRolesIs
<1>2. \A r \in A : T[r] = Unpriced(job[i].roles[r].reports) /\ T[r] \in SUBSET Nat /\ IsFiniteSet(T[r])
  <2> SUFFICES ASSUME NEW r \in A
               PROVE  /\ T[r] = Unpriced(job[i].roles[r].reports) /\ T[r] \in SUBSET Nat /\ IsFiniteSet(T[r])
    OBVIOUS
  <2>1. T[r] = Unpriced(job[i].roles[r].reports)
    OBVIOUS
  <2>2. T[r] \in SUBSET (1..Len(job[i].roles[r].reports))
    BY <1>1, <2>1 DEF Unpriced
  <2>3. IsFiniteSet(1..Len(job[i].roles[r].reports))
    <3> DEFINE n == Len(job[i].roles[r].reports)
    <3>1. n \in Nat
      BY <1>1
    <3> HIDE DEF n
    <3>2. IsFiniteSet(1..n)
      BY <3>1, FS_Interval
    <3> QED
      BY <3>2 DEF n
  <2>4. IsFiniteSet(T[r])
    BY <2>2, <2>3, FS_Subset
  <2> QED
    BY <1>1, <2>1, <2>2, <2>4
<1>3. IsFiniteSet(PairsOf(A, T))
  <2> HIDE DEF A, T
  <2> QED
    BY <1>1, <1>2, PairsFinite
<1>4. Places(job[i], row) = UNION {{[row |-> row, role |-> r, turn |-> t] : t \in T[r]} : r \in A}
  BY DEF Places
<1> HIDE DEF T, A
<1>5. \A p \in PairsOf(A, T) : placeOf[p] = [row |-> row, role |-> p[1], turn |-> p[2]]
  OBVIOUS
<1>6. Places(job[i], row) = Image(placeOf, PairsOf(A, T))
  <2>1. ASSUME NEW q \in Places(job[i], row)
        PROVE  q \in Image(placeOf, PairsOf(A, T))
    <3>0. PICK r \in A : \E t \in T[r] : q = [row |-> row, role |-> r, turn |-> t]
      BY <1>4
    <3>1. PICK t \in T[r] : q = [row |-> row, role |-> r, turn |-> t]
      BY <3>0
    <3>2. <<r, t>> \in PairsOf(A, T)
      BY DEF PairsOf
    <3>3. placeOf[<<r, t>>] = q
      BY <1>5, <3>1, <3>2
    <3> QED
      BY <3>2, <3>3 DEF Image
  <2>2. ASSUME NEW q \in Image(placeOf, PairsOf(A, T))
        PROVE  q \in Places(job[i], row)
    <3>1. PICK p \in PairsOf(A, T) : q = placeOf[p]
      BY DEF Image
    <3>0. PICK r \in A : \E t \in T[r] : p = <<r, t>>
      BY PairsOfIs
    <3>2. PICK t \in T[r] : p = <<r, t>>
      BY <3>0
    <3>3. q = [row |-> row, role |-> r, turn |-> t]
      BY <1>5, <3>1, <3>2
    <3> QED
      BY <1>4, <3>3
  <2> QED
    BY <2>1, <2>2
<1>7. IsFiniteSet(Places(job[i], row))
  <2> HIDE DEF placeOf
  <2> QED
    BY <1>3, <1>6, ImageFinite
<1>8. ASSUME NEW q \in Places(job[i], row)
      PROVE  q \in Place /\ q.row = row /\ q.role \in A /\ q.turn \in T[q.role]
  <2>0. PICK r \in A : \E t \in T[r] : q = [row |-> row, role |-> r, turn |-> t]
    BY <1>4
  <2>1. PICK t \in T[r] : q = [row |-> row, role |-> r, turn |-> t]
    BY <2>0
  <2>2. r \in DOMAIN Price /\ t \in Nat
    BY <1>1, <1>2
  <2> QED
    BY <2>1, <2>2 DEF Place
<1>9. \A r \in A : \A t \in T[r] : [row |-> row, role |-> r, turn |-> t] \in Places(job[i], row)
  BY <1>4
<1> QED
  BY <1>2, <1>7, <1>8, <1>9 DEF A

\* Their requests are requests.
LEMMA RequestsIs ==
  ASSUME JobInv, NEW i \in 1..Len(job), NEW row \in Nat, NEW places \in Seq(Places(job[i], row))
  PROVE  LET q == [j \in DOMAIN places |->
                    [report |-> job[i].roles[places[j].role].reports[places[j].turn], role |-> places[j].role]]
         IN  q \in Seq(Request) /\ Len(q) = Len(places) /\ DOMAIN q = DOMAIN places
<1> DEFINE n == Len(places)
           q == [j \in DOMAIN places |->
                    [report |-> job[i].roles[places[j].role].reports[places[j].turn], role |-> places[j].role]]
<1>1. n \in Nat /\ DOMAIN places = 1..n /\ \A j \in 1..n : places[j] \in Places(job[i], row)
  OBVIOUS
<1>2. ASSUME NEW j \in 1..n
      PROVE  [report |-> job[i].roles[places[j].role].reports[places[j].turn], role |-> places[j].role] \in Request
  <2> DEFINE r == places[j].role
             t == places[j].turn
  <2>1. r \in Active(job[i]) /\ t \in Unpriced(job[i].roles[r].reports)
    BY <1>1, PlacesIs
  <2>2. t \in DOMAIN job[i].roles[r].reports
    BY <2>1 DEF Unpriced
  <2> HIDE DEF r, t
  <2>3. job[i].roles[r].reports \in Seq(TurnReport) /\ r \in DOMAIN Price
    BY <2>1, ActiveRolesIs
  <2>4. job[i].roles[r].reports[t] \in TurnReport
    BY <2>2, <2>3
  <2> QED
    BY <2>3, <2>4 DEF Request, r, t
<1>3. q \in [1..n -> Request]
  BY <1>1, <1>2
<1>4. q \in Seq(Request)
  BY <1>1, <1>3
<1> QED
  BY <1>1, <1>3, <1>4

\* A trial is read: the two lists grow in step.
LEMMA AddRowStep ==
  ASSUME ReportInv, exit = Running, next <= Len(job), Active(job[next]) # {},
         \A r \in Active(job[next]) : Sound(job[next].roles[r]),
         AddRow(job[next]), next' = next + 1,
         UNCHANGED <<job, skipped, exit, answers, roleTotals, total>>
  PROVE  ReportInv'
<1> USE DEF ReportInv
<1> DEFINE m == Len(rows)
           A == Active(job[next])
           e == [trial |-> next, usage |-> [r \in A |-> FirstAccount(job[next].roles[r].reports)]]
           Of(k, r) == job'[rows'[k].trial].roles[r].reports
<1>0. /\ next \in Nat /\ Len(job) \in Nat /\ next >= 1 /\ next \in 1..Len(job)
      /\ DOMAIN rows = 1..m /\ m \in Nat
      /\ job' = job /\ skipped' = skipped /\ exit' = exit /\ answers' = answers
      /\ roleTotals' = roleTotals /\ total' = total
  BY DEF ReadInv, JobInv, RowsInv
<1>1. /\ \E S : rows' \in Seq(S)
      /\ DOMAIN rows' = 1..m + 1
      /\ \A k \in 1..m : rows'[k] = rows[k]
      /\ rows'[m + 1] = e
  <2>1. PICK S : rows \in Seq(S)
    BY DEF RowsInv
  <2>2. rows \in Seq(S \union {e}) /\ e \in S \union {e}
    BY <2>1
  <2>3. rows' = Append(rows, e)
    BY DEF AddRow
  <2> HIDE DEF e
  <2> QED
    BY <2>2, <2>3, AppendIs
<1>2. e.trial = next /\ DOMAIN e.usage = A /\ \A r \in A : e.usage[r] = FirstAccount(job[next].roles[r].reports)
  OBVIOUS
<1> HIDE DEF e, A
<1>3. /\ \A k \in 1..m : \A r : Of(k, r) = ReportsAt(k, r)
      /\ \A r : Of(m + 1, r) = job[next].roles[r].reports
  BY <1>0, <1>1, <1>2 DEF ReportsAt
<1>4. JobInv'
  BY <1>0 DEF JobInv
<1>5. ReadInv'
  <2>1. next' \in 1..Len(job) + 1 /\ skipped' \subseteq 1..next' - 1
    BY <1>0 DEF ReadInv
  <2>2. ASSUME NEW i \in 1..next' - 1
        PROVE  /\ i \in skipped' <=> Active(job[i]) = {}
               /\ Active(job[i]) # {} => \E k \in DOMAIN rows' : rows'[k].trial = i
               /\ \A r \in Active(job[i]) : Sound(job[i].roles[r])
    <3>1. CASE i = next
      <4>1. next \notin skipped
        BY <1>0 DEF ReadInv
      <4>2. m + 1 \in DOMAIN rows' /\ rows'[m + 1].trial = next
        BY <1>0, <1>1, <1>2
      <4> QED
        BY <1>0, <3>1, <4>1, <4>2
    <3>2. CASE i \in 1..next - 1
      <4>1. (\E k \in DOMAIN rows : rows[k].trial = i) => \E k \in DOMAIN rows' : rows'[k].trial = i
        BY <1>0, <1>1
      <4> QED
        BY <1>0, <3>2, <4>1 DEF ReadInv
    <3> QED
      BY <1>0, <3>1, <3>2
  <2> QED
    BY <1>0, <2>1, <2>2 DEF ReadInv
<1>6. RowsInv'
  <2>1. ASSUME NEW k \in DOMAIN rows'
        PROVE  /\ rows'[k].trial \in 1..next' - 1
               /\ Active(job[rows'[k].trial]) # {}
               /\ DOMAIN rows'[k].usage = Active(job[rows'[k].trial])
               /\ \A r \in DOMAIN rows'[k].usage : rows'[k].usage[r].reports = Of(k, r)
    <3>1. CASE k \in 1..m
      <4>1. /\ rows[k].trial \in 1..next - 1
            /\ Active(job[rows[k].trial]) # {}
            /\ DOMAIN rows[k].usage = Active(job[rows[k].trial])
            /\ \A r \in DOMAIN rows[k].usage : rows[k].usage[r].reports = ReportsAt(k, r)
        BY <1>0, <3>1 DEF RowsInv
      <4> HIDE DEF Of, m
      <4> QED
        BY <1>0, <1>1, <1>3, <3>1, <4>1
    <3>2. CASE k = m + 1
      <4>1. \A r \in A : e.usage[r].reports = job[next].roles[r].reports
        BY <1>2, FirstAccountIs
      <4> HIDE DEF Of, m
      <4>2. \A r \in A : Of(m + 1, r) = job[next].roles[r].reports
        BY <1>3
      <4> QED
        BY <1>0, <1>1, <1>2, <3>2, <4>1, <4>2 DEF A
    <3> QED
      BY <1>0, <1>1, <3>1, <3>2
  <2>2. ASSUME NEW k \in DOMAIN rows', NEW l \in DOMAIN rows', rows'[k].trial = rows'[l].trial
        PROVE  k = l
    <3>1. ASSUME NEW x \in 1..m
          PROVE  rows'[x] = rows[x] /\ rows[x].trial # next
      BY <1>0, <1>1 DEF RowsInv
    <3>2. CASE k \in 1..m /\ l \in 1..m
      BY <1>0, <2>2, <3>1, <3>2 DEF RowsInv
    <3>3. CASE k = m + 1 \/ l = m + 1
      BY <1>0, <1>1, <1>2, <2>2, <3>1, <3>3
    <3> QED
      BY <1>0, <1>1, <3>2, <3>3
  <2> QED
    BY <1>0, <1>1, <2>1, <2>2 DEF RowsInv, ReportsAt
<1>7. BatchInv'
  <2> DEFINE P == Places(job[next], m + 1)
             places == SetToSeq(P)
             q == [i \in DOMAIN places |->
                    [report |-> job[next].roles[places[i].role].reports[places[i].turn], role |-> places[i].role]]
             b == Len(pending)
             n == Len(places)
  <2>0. b \in Nat /\ DOMAIN pending = 1..b /\ pending \in Seq(Place) /\ requests \in Seq(Request)
        /\ Len(requests) = b /\ DOMAIN requests = 1..b /\ m + 1 \in Nat
    BY <1>0 DEF BatchInv
  <2>1. /\ IsFiniteSet(P) /\ P \subseteq Place
        /\ \A p \in P : /\ p.row = m + 1 /\ p.role \in A
                        /\ p.turn \in Unpriced(job[next].roles[p.role].reports)
        /\ \A r \in A : \A t \in Unpriced(job[next].roles[r].reports) :
              [row |-> m + 1, role |-> r, turn |-> t] \in P
    <3> DEFINE w == m + 1
    <3>1. w \in Nat /\ next \in 1..Len(job) /\ JobInv
      BY <1>0
    <3> HIDE DEF w
    <3>2. /\ IsFiniteSet(Places(job[next], w)) /\ Places(job[next], w) \subseteq Place
          /\ \A p \in Places(job[next], w) :
               /\ p.row = w /\ p.role \in Active(job[next])
               /\ p.turn \in Unpriced(job[next].roles[p.role].reports)
          /\ \A r \in Active(job[next]) : \A t \in Unpriced(job[next].roles[r].reports) :
               [row |-> w, role |-> r, turn |-> t] \in Places(job[next], w)
      BY <3>1, PlacesIs
    <3> QED
      BY <3>2 DEF w, A
  <2>2. pending' = pending \o places /\ requests' = requests \o q
    <3>1. requests' = requests \o Each(places, LAMBDA p : [report |-> job[next].roles[p.role].reports[p.turn],
                                                           role |-> p.role])
      BY DEF AddRow
    <3>2. Each(places, LAMBDA p : [report |-> job[next].roles[p.role].reports[p.turn], role |-> p.role]) = q
      BY DEF Each
    <3> QED
      BY <3>1, <3>2 DEF AddRow
  <2>3. /\ places \in Seq(P) /\ n \in Nat /\ DOMAIN places = 1..n
        /\ \A i \in 1..n : places[i] \in P
        /\ \A x \in P : \E i \in 1..n : places[i] = x
    <3> HIDE DEF P
    <3> QED
      BY <2>1, SetToSeqIs
  <2>4. q \in Seq(Request) /\ Len(q) = n /\ DOMAIN q = 1..n
    <3> HIDE DEF places
    <3> QED
      BY <1>0, <2>0, <2>3, RequestsIs
  <2>5. \A i \in 1..n : q[i] = [report |-> job[next].roles[places[i].role].reports[places[i].turn],
                                role |-> places[i].role]
    BY <2>3
  <2> HIDE DEF q, places, P
  <2>6. places \in Seq(Place)
    BY <2>1, <2>3
  <2> HIDE DEF m, b, n, Of
  <2>7. /\ pending' \in Seq(Place) /\ Len(pending') = b + n /\ DOMAIN pending' = 1..b + n
        /\ \A i \in 1..b : pending'[i] = pending[i]
        /\ \A i \in 1..n : pending'[b + i] = places[i]
    BY <2>2, <2>0, <2>6, ConcatIs DEF b, n
  <2>8. /\ requests' \in Seq(Request) /\ Len(requests') = b + n
        /\ \A i \in 1..b : requests'[i] = requests[i]
        /\ \A i \in 1..n : requests'[b + i] = q[i]
    BY <2>2, <2>0, <2>4, ConcatIs
  <2>9. ASSUME NEW i \in DOMAIN pending'
        PROVE  /\ pending'[i].row \in DOMAIN rows'
               /\ pending'[i].role \in DOMAIN rows'[pending'[i].row].usage
               /\ pending'[i].turn \in Unpriced(Of(pending'[i].row, pending'[i].role))
               /\ requests'[i] =
                    [report |-> Of(pending'[i].row, pending'[i].role)[pending'[i].turn],
                     role |-> pending'[i].role]
    <3>1. CASE i \in 1..b
      <4>1. /\ pending[i].row \in 1..m
            /\ pending[i].role \in DOMAIN rows[pending[i].row].usage
            /\ pending[i].turn \in Unpriced(ReportsAt(pending[i].row, pending[i].role))
            /\ requests[i] =
                 [report |-> ReportsAt(pending[i].row, pending[i].role)[pending[i].turn], role |-> pending[i].role]
        BY <1>0, <2>0, <3>1 DEF BatchInv
      <4>2. pending'[i] = pending[i] /\ requests'[i] = requests[i]
        BY <2>7, <2>8, <3>1
      <4>3. Of(pending[i].row, pending[i].role) = ReportsAt(pending[i].row, pending[i].role)
            /\ rows'[pending[i].row] = rows[pending[i].row]
        BY <1>1, <1>3, <4>1
      <4>4. pending[i].row \in 1..m + 1
        BY <1>0, <4>1
      <4> QED
        BY <1>1, <4>1, <4>2, <4>3, <4>4
    <3>2. CASE i \in b + 1..b + n
      <4> DEFINE j == i - b
                 p == places[j]
      <4>1. j \in 1..n /\ i = b + j
        BY <2>0, <2>3, <3>2
      <4>2. pending'[i] = p /\ requests'[i] = q[j] /\ p \in P
        BY <2>3, <2>7, <2>8, <4>1
      <4>3. q[j] = [report |-> job[next].roles[p.role].reports[p.turn], role |-> p.role]
        BY <2>5, <4>1
      <4> HIDE DEF p
      <4>4. p.row = m + 1 /\ p.role \in A /\ p.turn \in Unpriced(job[next].roles[p.role].reports)
        BY <2>1, <4>2
      <4>5. Of(m + 1, p.role) = job[next].roles[p.role].reports
        BY <1>3
      <4>6. m + 1 \in DOMAIN rows' /\ p.role \in DOMAIN rows'[m + 1].usage
        BY <1>0, <1>1, <1>2, <4>4
      <4> QED
        BY <4>2, <4>3, <4>4, <4>5, <4>6
    <3> QED
      BY <2>0, <2>3, <2>7, <3>1, <3>2
  <2>10. ASSUME NEW k \in DOMAIN rows', NEW r \in DOMAIN rows'[k].usage, NEW t \in Unpriced(Of(k, r))
         PROVE  \E i \in DOMAIN pending' : pending'[i] = [row |-> k, role |-> r, turn |-> t]
    <3>1. CASE k \in 1..m
      <4>1. r \in DOMAIN rows[k].usage /\ t \in Unpriced(ReportsAt(k, r))
        BY <1>1, <1>3, <3>1
      <4>2. PICK i \in DOMAIN pending : pending[i] = [row |-> k, role |-> r, turn |-> t]
        BY <1>0, <3>1, <4>1 DEF BatchInv
      <4>3. i \in DOMAIN pending' /\ pending'[i] = pending[i]
        BY <2>0, <2>3, <2>7
      <4> QED
        BY <4>2, <4>3
    <3>2. CASE k = m + 1
      <4>1. r \in A /\ t \in Unpriced(job[next].roles[r].reports)
        BY <1>1, <1>2, <1>3, <3>2
      <4>2. PICK j \in 1..n : places[j] = [row |-> m + 1, role |-> r, turn |-> t]
        BY <2>1, <2>3, <4>1
      <4>3. b + j \in DOMAIN pending' /\ pending'[b + j] = places[j]
        BY <2>0, <2>3, <2>7
      <4> QED
        BY <3>2, <4>2, <4>3
    <3> QED
      BY <1>0, <1>1, <3>1, <3>2
  <2> QED
    BY <2>7, <2>8, <2>9, <2>10 DEF BatchInv, ReportsAt, Of
<1>8. AnswersInv'
  <2>1. answers = <<>>
    BY <1>0 DEF AnswersInv
  <2> QED
    BY <1>0, <2>1 DEF AnswersInv
<1>9. UsageInv'
  <2>1. ASSUME NEW k \in DOMAIN rows', NEW r \in DOMAIN rows'[k].usage
        PROVE  rows'[k].usage[r] = FirstAccount(Of(k, r))
    <3> HIDE DEF Of, m
    <3>1. CASE k \in 1..m
      <4>1. r \in DOMAIN rows[k].usage
        BY <1>1, <3>1
      <4>2. rows[k].usage[r] = FirstAccount(ReportsAt(k, r))
        BY <1>0, <3>1, <4>1 DEF UsageInv, Reading
      <4> QED
        BY <1>1, <1>3, <3>1, <4>2
    <3>2. CASE k = m + 1
      BY <1>1, <1>2, <1>3, <3>2
    <3> QED
      BY <1>0, <1>1, <3>1, <3>2
  <2>2. DOMAIN roleTotals = {} /\ ~(Finished') /\ exit' = Running
    BY <1>0 DEF UsageInv, Reading, Finished, Running
  <2> QED
    BY <1>0, <2>1, <2>2 DEF UsageInv, ReportsAt
<1> QED
  BY <1>4, <1>5, <1>6, <1>7, <1>8, <1>9

\* The batch is answered.
LEMMA EstimateStep ==
  ASSUME ReportInv, Estimate
  PROVE  ReportInv'
<1> USE DEF ReportInv
<1>0. /\ job' = job /\ next' = next /\ rows' = rows /\ skipped' = skipped /\ requests' = requests
      /\ pending' = pending /\ roleTotals' = roleTotals /\ total' = total /\ exit' = exit
      /\ exit = Running /\ next > Len(job)
  BY DEF Estimate
<1>1. JobInv' /\ ReadInv'
  BY <1>0 DEF JobInv, ReadInv
<1>2. RowsInv'
  BY <1>0 DEF RowsInv, ReportsAt
<1>3. BatchInv'
  BY <1>0, BatchStays
<1>4. AnswersInv'
  <2> DEFINE n == Len(requests)
             V == {answers'[i] : i \in 1..n}
  <2>1. PICK priced \in SUBSET {i \in DOMAIN requests : requests[i].report.tokens # Missing} :
          answers' = [i \in DOMAIN requests |-> IF i \in priced THEN EstimateOf(requests[i]) ELSE Unavailable]
    BY DEF Estimate
  <2>2. n \in Nat /\ DOMAIN requests = 1..n
    BY DEF BatchInv
  <2>3. answers' \in [1..n -> V]
    BY <2>1, <2>2
  <2> HIDE DEF V
  <2>4. answers' \in Seq(V) /\ Len(answers') = n /\ DOMAIN answers' = 1..n
    BY <2>2, <2>3
  <2>5. \A i \in DOMAIN requests : answers'[i] \in Answers(requests[i])
    BY <2>1 DEF Answers
  <2> QED
    BY <1>0, <2>2, <2>4, <2>5 DEF AnswersInv
<1>5. UsageInv'
  <2>1. ~(Finished') /\ exit' = Running /\ DOMAIN roleTotals' = {}
    BY <1>0 DEF UsageInv, Reading, Finished, Running
  <2>2. \A k \in DOMAIN rows : \A r \in DOMAIN rows[k].usage : rows[k].usage[r] = FirstAccount(ReportsAt(k, r))
    BY <1>0 DEF UsageInv, Reading
  <2> QED
    BY <1>0, <2>1, <2>2 DEF UsageInv, ReportsAt
<1> QED
  BY <1>1, <1>2, <1>3, <1>4, <1>5

\* Each turn gets its own resolution, whichever of its places is looked up.
LEMMA ResolutionIs ==
  ASSUME ReportInv, Reading, requests = <<>> \/ answers # <<>>,
         NEW k \in DOMAIN rows, NEW r \in DOMAIN rows[k].usage, NEW t \in DOMAIN ReportsAt(k, r)
  PROVE  Resolves(Resolution(k, r, t), ReportsAt(k, r)[t], r)
<1> USE DEF ReportInv
<1> DEFINE waiting == PlacesOf(k, r, t)
           report == ReportsAt(k, r)[t]
<1>1. CASE waiting = {}
  <2>1. t \notin Unpriced(ReportsAt(k, r))
    <3>1. ASSUME t \in Unpriced(ReportsAt(k, r))
          PROVE  FALSE
      <4>1. PICK i \in DOMAIN pending : pending[i] = [row |-> k, role |-> r, turn |-> t]
        BY <3>1 DEF BatchInv
      <4> QED
        BY <1>1, <4>1 DEF PlacesOf
    <3> QED
      BY <3>1
  <2>2. report.cost # Missing
    BY <2>1 DEF Unpriced
  <2>3. rows[k].usage[r] = FirstAccount(ReportsAt(k, r))
    BY DEF UsageInv
  <2>4. rows[k].usage[r].resolutions[t] = NativeResolution(report)
    BY <2>3, FirstAccountIs
  <2> QED
    BY <1>1, <2>2, <2>4 DEF Resolves, Resolution
<1>2. CASE waiting # {}
  <2> DEFINE i == CHOOSE i \in waiting : TRUE
  <2>1. i \in DOMAIN pending /\ pending[i] = [row |-> k, role |-> r, turn |-> t]
    <3>1. i \in waiting
      BY <1>2
    <3> HIDE DEF i
    <3> QED
      BY <3>1 DEF PlacesOf
  <2>2. Resolution(k, r, t) = answers[i]
    BY <1>2 DEF Resolution
  <2> HIDE DEF i
  <2>3. /\ t \in Unpriced(ReportsAt(k, r))
        /\ requests[i] = [report |-> report, role |-> r]
        /\ DOMAIN requests = DOMAIN pending
    BY <2>1 DEF BatchInv
  <2>4. answers # <<>>
    BY <2>1, <2>3 DEF BatchInv
  <2>5. answers[i] \in Answers(requests[i])
    BY <2>1, <2>3, <2>4 DEF AnswersInv
  <2>6. report.cost = Missing
    BY <2>3 DEF Unpriced
  <2> QED
    BY <2>2, <2>3, <2>5, <2>6 DEF Resolves
<1> QED
  BY <1>1, <1>2

\* So the rows' accounts become well-formed ones.
LEMMA ResolvedIs ==
  ASSUME ReportInv, Reading, requests = <<>> \/ answers # <<>>,
         NEW k \in DOMAIN rows, NEW r \in DOMAIN rows[k].usage
  PROVE  /\ WellFormed(ResolvedAccount(k, r))
         /\ ResolvedAccount(k, r).reports = ReportsAt(k, r)
         /\ \A t \in DOMAIN ReportsAt(k, r) :
              Resolves(ResolvedAccount(k, r).resolutions[t], ReportsAt(k, r)[t], r)
<1> USE DEF ReportInv
<1> DEFINE reports == ReportsAt(k, r)
           resolutions == [t \in DOMAIN reports |-> Resolution(k, r, t)]
<1>1. /\ reports \in Seq(TurnReport) /\ DOMAIN reports = 1..Len(reports) /\ Len(reports) \in Nat
      /\ r \in DOMAIN Price
  BY RowIs
<1>2. IsFiniteSet(DOMAIN reports)
  <2> DEFINE n == Len(reports)
  <2>1. n \in Nat
    BY <1>1
  <2> HIDE DEF n
  <2>2. IsFiniteSet(1..n)
    BY <2>1, FS_Interval
  <2> QED
    BY <1>1, <2>2 DEF n
<1>3. \A t \in DOMAIN reports : Resolves(resolutions[t], reports[t], r)
  BY ResolutionIs
<1>4. \A t \in DOMAIN reports : reports[t] \in TurnReport
  BY <1>1
<1>5. ResolvedAccount(k, r) = Account(reports, resolutions)
  <2>1. rows[k].usage[r].reports = ReportsAt(k, r)
    BY DEF RowsInv
  <2> QED
    BY <2>1 DEF ResolvedAccount
<1>6. DOMAIN resolutions = DOMAIN reports
  OBVIOUS
<1> HIDE DEF reports, resolutions
<1>7. \A t \in DOMAIN reports : WellResolved(resolutions[t])
  BY <1>1, <1>3, <1>4, JobsAssumption, ResolvesWell
<1>8. OfTurns(reports, resolutions)
  BY <1>2, <1>4, <1>6, <1>7 DEF OfTurns
<1> QED
  BY <1>3, <1>5, <1>8, AccountOfTurns DEF reports

\* The report is written.
LEMMA WriteStep ==
  ASSUME ReportInv, WriteReport
  PROVE  ReportInv'
<1> USE DEF ReportInv
<1>0. /\ job' = job /\ next' = next /\ skipped' = skipped /\ requests' = requests
      /\ pending' = pending /\ answers' = answers
      /\ exit = Running /\ next > Len(job) /\ exit' \in {"0", "1"}
      /\ requests = <<>> \/ answers # <<>>
  BY DEF WriteReport
<1>1. /\ DOMAIN rows' = DOMAIN rows
      /\ \A k \in DOMAIN rows : /\ rows'[k].trial = rows[k].trial
                                /\ DOMAIN rows'[k].usage = DOMAIN rows[k].usage
                                /\ \A r \in DOMAIN rows[k].usage : rows'[k].usage[r] = ResolvedAccount(k, r)
  BY DEF WriteReport, ResolvedRow
<1>2. \A k \in DOMAIN rows : \A r \in DOMAIN rows[k].usage :
        /\ WellFormed(ResolvedAccount(k, r))
        /\ ResolvedAccount(k, r).reports = ReportsAt(k, r)
        /\ \A t \in DOMAIN ReportsAt(k, r) :
             Resolves(ResolvedAccount(k, r).resolutions[t], ReportsAt(k, r)[t], r)
  BY <1>0, ResolvedIs DEF Reading
<1> DEFINE Of(k, r) == job'[rows'[k].trial].roles[r].reports
<1>3. \A k \in DOMAIN rows : \A r : Of(k, r) = ReportsAt(k, r)
  BY <1>0, <1>1 DEF ReportsAt
<1>4. JobInv'
  BY <1>0 DEF JobInv
<1>5. ReadInv'
  <2>1. \A i : (\E k \in DOMAIN rows : rows[k].trial = i) => \E k \in DOMAIN rows' : rows'[k].trial = i
    BY <1>1
  <2> QED
    BY <1>0, <2>1 DEF ReadInv
<1>6. RowsInv'
  <2>1. \E S : rows' \in Seq(S)
    <3> DEFINE n == Len(rows)
               S == {rows'[k] : k \in 1..n}
    <3>1. n \in Nat /\ DOMAIN rows = 1..n
      BY DEF RowsInv
    <3>2. rows' \in [1..n -> S]
      BY <3>1 DEF WriteReport
    <3> HIDE DEF S
    <3>3. rows' \in Seq(S)
      BY <3>1, <3>2
    <3> QED
      BY <3>3
  <2>2. ASSUME NEW k \in DOMAIN rows'
        PROVE  /\ rows'[k].trial \in 1..next' - 1
               /\ Active(job[rows'[k].trial]) # {}
               /\ DOMAIN rows'[k].usage = Active(job[rows'[k].trial])
               /\ \A r \in DOMAIN rows'[k].usage : rows'[k].usage[r].reports = Of(k, r)
    <3>1. k \in DOMAIN rows
      BY <1>1
    <3>2. /\ rows[k].trial \in 1..next - 1
          /\ Active(job[rows[k].trial]) # {}
          /\ DOMAIN rows[k].usage = Active(job[rows[k].trial])
      BY <3>1 DEF RowsInv
    <3> HIDE DEF Of
    <3>3. rows'[k].trial = rows[k].trial /\ DOMAIN rows'[k].usage = DOMAIN rows[k].usage
      BY <1>1, <3>1
    <3>4. \A r \in DOMAIN rows[k].usage : rows'[k].usage[r].reports = Of(k, r)
      BY <1>1, <1>2, <1>3, <3>1
    <3> QED
      BY <1>0, <3>2, <3>3, <3>4
  <2>3. \A k, l \in DOMAIN rows' : rows'[k].trial = rows'[l].trial => k = l
    BY <1>1 DEF RowsInv
  <2> QED
    BY <1>0, <2>1, <2>2, <2>3 DEF RowsInv, ReportsAt
<1>7. BatchInv'
  <2>1. pending' \in Seq(Place) /\ requests' \in Seq(Request) /\ Len(requests') = Len(pending')
    BY <1>0 DEF BatchInv
  <2>2. ASSUME NEW i \in DOMAIN pending'
        PROVE  /\ pending'[i].row \in DOMAIN rows'
               /\ pending'[i].role \in DOMAIN rows'[pending'[i].row].usage
               /\ pending'[i].turn \in Unpriced(Of(pending'[i].row, pending'[i].role))
               /\ requests'[i] =
                    [report |-> Of(pending'[i].row, pending'[i].role)[pending'[i].turn],
                     role |-> pending'[i].role]
    <3>1. /\ pending[i].row \in DOMAIN rows
          /\ pending[i].role \in DOMAIN rows[pending[i].row].usage
          /\ pending[i].turn \in Unpriced(ReportsAt(pending[i].row, pending[i].role))
          /\ requests[i] =
               [report |-> ReportsAt(pending[i].row, pending[i].role)[pending[i].turn], role |-> pending[i].role]
      BY <1>0 DEF BatchInv
    <3> HIDE DEF Of
    <3>2. Of(pending[i].row, pending[i].role) = ReportsAt(pending[i].row, pending[i].role)
      BY <1>3, <3>1
    <3> QED
      BY <1>0, <1>1, <3>1, <3>2
  <2>3. ASSUME NEW k \in DOMAIN rows', NEW r \in DOMAIN rows'[k].usage, NEW t \in Unpriced(Of(k, r))
        PROVE  \E i \in DOMAIN pending' : pending'[i] = [row |-> k, role |-> r, turn |-> t]
    <3> HIDE DEF Of
    <3>1. k \in DOMAIN rows /\ r \in DOMAIN rows[k].usage /\ t \in Unpriced(ReportsAt(k, r))
      BY <1>1, <1>3
    <3> QED
      BY <1>0, <3>1 DEF BatchInv
  <2> QED
    BY <2>1, <2>2, <2>3 DEF BatchInv, ReportsAt
<1>8. AnswersInv'
  BY <1>0 DEF AnswersInv
<1>9. UsageInv'
  <2>1. ASSUME NEW k \in DOMAIN rows', NEW r \in DOMAIN rows'[k].usage
        PROVE  /\ WellFormed(rows'[k].usage[r])
               /\ \A t \in DOMAIN Of(k, r) :
                    Resolves(rows'[k].usage[r].resolutions[t], Of(k, r)[t], r)
    <3> HIDE DEF Of
    <3> QED
      BY <1>1, <1>2, <1>3
  <2>2. RolesOf(rows') = RolesOf(rows)
    BY <1>1 DEF RolesOf
  <2>3. roleTotals' = [r \in RolesOf(rows') |-> Aggregate(RoleAccounts(rows', r))]
    BY <2>2 DEF WriteReport
  <2>4. total' = Downgraded(Aggregate(roleTotals'))
    BY DEF WriteReport
  <2>5. ~(Reading')
    BY <1>0 DEF Reading, Running
  <2> QED
    BY <1>0, <2>1, <2>3, <2>4, <2>5 DEF UsageInv, ReportsAt, Downgraded
<1> QED
  BY <1>4, <1>5, <1>6, <1>7, <1>8, <1>9

\* Every step keeps the invariant.
LEMMA ReportStep ==
  ASSUME ReportInv, [ReportNext]_reportVars
  PROVE  ReportInv'
<1>1. CASE UNCHANGED reportVars
  <2>1. /\ job' = job /\ next' = next /\ rows' = rows /\ skipped' = skipped /\ requests' = requests
        /\ pending' = pending /\ answers' = answers /\ roleTotals' = roleTotals /\ total' = total /\ exit' = exit
    BY <1>1 DEF reportVars
  <2>2. JobInv' /\ ReadInv'
    BY <2>1 DEF ReportInv, JobInv, ReadInv
  <2>3. RowsInv'
    BY <2>1 DEF ReportInv, RowsInv, ReportsAt
  <2>4. BatchInv'
    BY <2>1, BatchStays DEF ReportInv
  <2>5. AnswersInv'
    BY <2>1 DEF ReportInv, AnswersInv
  <2>6. UsageInv'
    BY <2>1 DEF ReportInv, UsageInv, Reading, Finished, ReportsAt, Downgraded
  <2> QED
    BY <2>2, <2>3, <2>4, <2>5, <2>6 DEF ReportInv
<1>2. CASE ReportDone
  BY <1>1, <1>2 DEF ReportDone
<1>3. CASE Estimate
  BY <1>3, EstimateStep
<1>4. CASE WriteReport
  BY <1>4, WriteStep
<1>5. CASE ReadTrial
  <2>1. /\ exit = Running /\ next <= Len(job)
        /\ job' = job /\ answers' = answers /\ roleTotals' = roleTotals /\ total' = total
    BY <1>5 DEF ReadTrial
  <2>2. CASE /\ Active(job[next]) = {}
             /\ skipped' = skipped \union {next} /\ next' = next + 1
             /\ UNCHANGED <<rows, requests, pending, exit>>
    BY <2>1, <2>2, SkipStep
  <2>3. CASE /\ Active(job[next]) # {}
             /\ \A r \in Active(job[next]) : Sound(job[next].roles[r])
             /\ AddRow(job[next]) /\ next' = next + 1
             /\ UNCHANGED <<skipped, exit>>
    BY <2>1, <2>3, AddRowStep
  <2>4. CASE exit' = "2" /\ UNCHANGED <<next, rows, skipped, requests, pending>>
    BY <2>1, <2>4, EndedStep DEF Reading
  <2> QED
    BY <1>5, <2>2, <2>3, <2>4 DEF ReadTrial
<1> QED
  BY <1>1, <1>2, <1>3, <1>4, <1>5 DEF ReportNext

\* T and U are one relation between S and R, read both ways.
Transposes(S, T, R, U) ==
  /\ \A x \in S : \A y \in T[x] : y \in R /\ x \in U[y]
  /\ \A y \in R : \A x \in U[y] : x \in S /\ y \in T[x]
\* And h2 is h read the other way.
Mirrors(h2, h, S, T) == \A x \in S : \A y \in T[x] : h2[<<y, x>>] = h[<<x, y>>]

\* The rows' sums and the columns' sums come to the same.
LEMMA SumSwapped ==
  ASSUME NEW S, IsFiniteSet(S), NEW T, NEW R, IsFiniteSet(R), NEW U, Transposes(S, T, R, U),
         NEW h, NEW g, RowSums(h, g, S, T), NEW h2, NEW g2, RowSums(h2, g2, R, U),
         Mirrors(h2, h, S, T)
  PROVE  SumFunctionOnSet(g, S) = SumFunctionOnSet(g2, R)
<1> DEFINE P == PairsOf(S, T)
           swap == [p \in P |-> <<p[2], p[1]>>]
<1>0. \A p : p \in P <=> \E x \in S : \E y \in T[x] : p = <<x, y>>
  BY PairsOfIs
<1>1. \A q : q \in PairsOf(R, U) <=> \E y \in R : \E x \in U[y] : q = <<y, x>>
  BY PairsOfIs
<1> HIDE DEF P
<1>2. \A x \in S : \A y \in T[x] : <<x, y>> \in P /\ swap[<<x, y>>] = <<y, x>>
  BY <1>0
<1>3. DOMAIN swap = P
  OBVIOUS
<1> HIDE DEF swap
<1>4. Image(swap, P) = PairsOf(R, U)
  <2>1. ASSUME NEW q \in Image(swap, P)
        PROVE  q \in PairsOf(R, U)
    <3>1. PICK p \in P : q = swap[p]
      BY DEF Image
    <3>2. PICK x \in S : \E y \in T[x] : p = <<x, y>>
      BY <1>0
    <3>3. PICK y \in T[x] : p = <<x, y>>
      BY <3>2
    <3>4. q = <<y, x>> /\ y \in R /\ x \in U[y]
      BY <1>2, <3>1, <3>3 DEF Transposes
    <3> QED
      BY <1>1, <3>4
  <2>2. ASSUME NEW q \in PairsOf(R, U)
        PROVE  q \in Image(swap, P)
    <3>1. PICK y \in R : \E x \in U[y] : q = <<y, x>>
      BY <1>1
    <3>2. PICK x \in U[y] : q = <<y, x>>
      BY <3>1
    <3>3. x \in S /\ y \in T[x]
      BY DEF Transposes
    <3>4. <<x, y>> \in P /\ swap[<<x, y>>] = q
      BY <1>2, <3>2, <3>3
    <3> QED
      BY <3>4 DEF Image
  <2> QED
    BY <2>1, <2>2
<1>5. Reindexes(swap, P, h, h2)
  <2>1. ASSUME NEW p \in P, NEW q \in P, swap[p] = swap[q]
        PROVE  p = q
    <3>1. PICK x \in S : \E y \in T[x] : p = <<x, y>>
      BY <1>0
    <3>2. PICK y \in T[x] : p = <<x, y>>
      BY <3>1
    <3>3. PICK v \in S : \E w \in T[v] : q = <<v, w>>
      BY <1>0
    <3>4. PICK w \in T[v] : q = <<v, w>>
      BY <3>3
    <3> QED
      BY <1>2, <2>1, <3>2, <3>4
  <2>2. ASSUME NEW p \in P
        PROVE  h[p] \in Int /\ h2[swap[p]] = h[p]
    <3>1. PICK x \in S : \E y \in T[x] : p = <<x, y>>
      BY <1>0
    <3>2. PICK y \in T[x] : p = <<x, y>>
      BY <3>1
    <3>3. h2[<<y, x>>] = h[<<x, y>>]
      BY DEF Mirrors
    <3>4. h[p] \in Int
      BY DEF RowSums, P
    <3> QED
      BY <1>2, <3>2, <3>3, <3>4
  <2> QED
    BY <2>1, <2>2 DEF Reindexes
<1>6. IsFiniteSet(P)
  <2>1. \A x \in S : IsFiniteSet(T[x])
    BY DEF RowSums
  <2> QED
    BY <2>1, PairsFinite DEF P
<1>7. SumFunctionOnSet(h, P) = SumFunctionOnSet(h2, PairsOf(R, U))
  BY <1>4, <1>5, <1>6, SumReindex
<1>8. SumFunctionOnSet(h, P) = SumFunctionOnSet(g, S)
  BY SumNested DEF P
<1>9. SumFunctionOnSet(h2, PairsOf(R, U)) = SumFunctionOnSet(g2, R)
  BY SumNested
<1> QED
  BY <1>7, <1>8, <1>9

-----------------------------------------------------------------------------
\* A role's total is the aggregate of well-formed accounts.
LEMMA RoleIs ==
  ASSUME ReportInv, Finished
  PROVE  /\ IsFiniteSet(DOMAIN rows) /\ IsFiniteSet(DOMAIN roleTotals)
         /\ \A k \in DOMAIN rows : IsFiniteSet(DOMAIN rows[k].usage)
         /\ \A r \in DOMAIN roleTotals :
              /\ DOMAIN RoleAccounts(rows, r) = {k \in DOMAIN rows : r \in DOMAIN rows[k].usage}
              /\ IsFiniteSet(DOMAIN RoleAccounts(rows, r))
              /\ \A k \in DOMAIN RoleAccounts(rows, r) :
                   /\ RoleAccounts(rows, r)[k] = rows[k].usage[r]
                   /\ WellFormed(RoleAccounts(rows, r)[k])
              /\ roleTotals[r] = Aggregate(RoleAccounts(rows, r))
              /\ WellFormed(roleTotals[r])
         /\ \A k \in DOMAIN rows : \A r \in DOMAIN rows[k].usage : r \in DOMAIN roleTotals
<1> USE DEF ReportInv
<1>1. IsFiniteSet(DOMAIN rows)
  <2> DEFINE n == Len(rows)
  <2>1. n \in Nat /\ DOMAIN rows = 1..n
    BY DEF RowsInv
  <2> HIDE DEF n
  <2> QED
    BY <2>1, FS_Interval
<1>2. \A k \in DOMAIN rows : IsFiniteSet(DOMAIN rows[k].usage)
  BY RowIs
<1>3. /\ DOMAIN roleTotals = RolesOf(rows)
      /\ \A r \in RolesOf(rows) : roleTotals[r] = Aggregate(RoleAccounts(rows, r))
      /\ \A k \in DOMAIN rows : \A r \in DOMAIN rows[k].usage : WellFormed(rows[k].usage[r])
  BY DEF UsageInv
<1>4. RolesOf(rows) = UNION Image([k \in DOMAIN rows |-> DOMAIN rows[k].usage], DOMAIN rows)
  BY DEF RolesOf, Image
<1>5. IsFiniteSet(RolesOf(rows))
  <2> DEFINE f == [k \in DOMAIN rows |-> DOMAIN rows[k].usage]
  <2>1. \A U \in Image(f, DOMAIN rows) : IsFiniteSet(U)
    BY <1>2 DEF Image
  <2> HIDE DEF f
  <2>2. IsFiniteSet(Image(f, DOMAIN rows))
    BY <1>1, ImageFinite
  <2>3. IsFiniteSet(UNION Image(f, DOMAIN rows))
    BY <2>1, <2>2, FS_UNION
  <2> QED
    BY <1>4, <2>3 DEF f
<1>6. ASSUME NEW r \in DOMAIN roleTotals
      PROVE  /\ DOMAIN RoleAccounts(rows, r) = {k \in DOMAIN rows : r \in DOMAIN rows[k].usage}
             /\ IsFiniteSet(DOMAIN RoleAccounts(rows, r))
             /\ \A k \in DOMAIN RoleAccounts(rows, r) :
                  /\ RoleAccounts(rows, r)[k] = rows[k].usage[r]
                  /\ WellFormed(RoleAccounts(rows, r)[k])
             /\ roleTotals[r] = Aggregate(RoleAccounts(rows, r))
             /\ WellFormed(roleTotals[r])
  <2> DEFINE accounts == RoleAccounts(rows, r)
  <2>1. /\ DOMAIN accounts = {k \in DOMAIN rows : r \in DOMAIN rows[k].usage}
        /\ \A k \in DOMAIN accounts : accounts[k] = rows[k].usage[r]
    BY DEF RoleAccounts
  <2>2. IsFiniteSet(DOMAIN accounts)
    <3>1. {k \in DOMAIN rows : r \in DOMAIN rows[k].usage} \in SUBSET DOMAIN rows
      OBVIOUS
    <3> QED
      BY <1>1, <2>1, <3>1, FS_Subset
  <2>3. \A k \in DOMAIN accounts : WellFormed(accounts[k])
    BY <1>3, <2>1
  <2>4. roleTotals[r] = Aggregate(accounts)
    BY <1>3
  <2> HIDE DEF accounts
  <2>5. WellFormed(Aggregate(accounts))
    BY <2>2, <2>3, AggregateIs
  <2> QED
    BY <2>1, <2>2, <2>3, <2>4, <2>5 DEF accounts
<1>7. \A k \in DOMAIN rows : \A r \in DOMAIN rows[k].usage : r \in DOMAIN roleTotals
  BY <1>3 DEF RolesOf
<1> QED
  BY <1>1, <1>2, <1>3, <1>5, <1>6, <1>7

\* The account of the whole job before it is downgraded.
Whole == Aggregate(roleTotals)

\* The aggregate of the roles' totals has every turn of every row once, with its resolution.
LEMMA WholeIs ==
  ASSUME ReportInv, Finished
  PROVE  /\ WellFormed(Whole) /\ DOMAIN Whole.resolutions = DOMAIN Whole.reports
         /\ \A k \in DOMAIN rows : \A r \in DOMAIN rows[k].usage : \A t \in DOMAIN ReportsAt(k, r) :
              /\ <<r, <<k, t>>>> \in DOMAIN Whole.reports
              /\ Whole.reports[<<r, <<k, t>>>>] = ReportsAt(k, r)[t]
              /\ Whole.resolutions[<<r, <<k, t>>>>] = rows[k].usage[r].resolutions[t]
         /\ \A p \in DOMAIN Whole.reports :
              \E k \in DOMAIN rows : \E r \in DOMAIN rows[k].usage : \E t \in DOMAIN ReportsAt(k, r) :
                p = <<r, <<k, t>>>>
<1>1. /\ IsFiniteSet(DOMAIN roleTotals) /\ \A r \in DOMAIN roleTotals : WellFormed(roleTotals[r])
  BY RoleIs
<1>2. /\ WellFormed(Whole) /\ DOMAIN Whole.reports = PlacesIn(roleTotals)
      /\ DOMAIN Whole.resolutions = PlacesIn(roleTotals)
      /\ \A r \in DOMAIN roleTotals : \A i \in DOMAIN roleTotals[r].reports :
           /\ <<r, i>> \in PlacesIn(roleTotals)
           /\ Whole.reports[<<r, i>>] = roleTotals[r].reports[i]
           /\ Whole.resolutions[<<r, i>>] = roleTotals[r].resolutions[i]
  BY <1>1, AggregateIs DEF Whole
<1>3. \A p \in PlacesIn(roleTotals) :
        \E r \in DOMAIN roleTotals : \E i \in DOMAIN roleTotals[r].reports : p = <<r, i>>
  BY PairsOfIs DEF PlacesIn, TurnsIn
<1>4. ASSUME NEW r \in DOMAIN roleTotals
      PROVE  /\ \A k \in DOMAIN rows : r \in DOMAIN rows[k].usage =>
                  \A t \in DOMAIN ReportsAt(k, r) :
                    /\ <<k, t>> \in DOMAIN roleTotals[r].reports
                    /\ roleTotals[r].reports[<<k, t>>] = ReportsAt(k, r)[t]
                    /\ roleTotals[r].resolutions[<<k, t>>] = rows[k].usage[r].resolutions[t]
             /\ \A i \in DOMAIN roleTotals[r].reports :
                  \E k \in DOMAIN rows : r \in DOMAIN rows[k].usage /\
                    \E t \in DOMAIN ReportsAt(k, r) : i = <<k, t>>
  <2> DEFINE accounts == RoleAccounts(rows, r)
  <2>1. /\ DOMAIN accounts = {k \in DOMAIN rows : r \in DOMAIN rows[k].usage}
        /\ IsFiniteSet(DOMAIN accounts)
        /\ \A k \in DOMAIN accounts : accounts[k] = rows[k].usage[r] /\ WellFormed(accounts[k])
        /\ roleTotals[r] = Aggregate(accounts)
    BY RoleIs
  <2>2. \A k \in DOMAIN accounts : accounts[k].reports = ReportsAt(k, r)
    BY <2>1 DEF ReportInv, RowsInv
  <2> HIDE DEF accounts
  <2>3. /\ DOMAIN roleTotals[r].reports = PlacesIn(accounts)
        /\ \A k \in DOMAIN accounts : \A t \in DOMAIN accounts[k].reports :
             /\ <<k, t>> \in PlacesIn(accounts)
             /\ roleTotals[r].reports[<<k, t>>] = accounts[k].reports[t]
             /\ roleTotals[r].resolutions[<<k, t>>] = accounts[k].resolutions[t]
    BY <2>1, AggregateIs
  <2>4. \A i \in PlacesIn(accounts) :
          \E k \in DOMAIN accounts : \E t \in DOMAIN accounts[k].reports : i = <<k, t>>
    BY PairsOfIs DEF PlacesIn, TurnsIn
  <2>5. ASSUME NEW k \in DOMAIN rows, r \in DOMAIN rows[k].usage, NEW t \in DOMAIN ReportsAt(k, r)
        PROVE  /\ <<k, t>> \in DOMAIN roleTotals[r].reports
               /\ roleTotals[r].reports[<<k, t>>] = ReportsAt(k, r)[t]
               /\ roleTotals[r].resolutions[<<k, t>>] = rows[k].usage[r].resolutions[t]
    <3>1. k \in DOMAIN accounts
      BY <2>1, <2>5
    <3> QED
      BY <2>1, <2>2, <2>3, <3>1
  <2>6. ASSUME NEW i \in DOMAIN roleTotals[r].reports
        PROVE  \E k \in DOMAIN rows : r \in DOMAIN rows[k].usage /\
                 \E t \in DOMAIN ReportsAt(k, r) : i = <<k, t>>
    <3>1. PICK k \in DOMAIN accounts : \E t \in DOMAIN accounts[k].reports : i = <<k, t>>
      BY <2>3, <2>4
    <3> QED
      BY <2>1, <2>2, <3>1
  <2> QED
    BY <2>5, <2>6
<1>5. ASSUME NEW k \in DOMAIN rows, NEW r \in DOMAIN rows[k].usage, NEW t \in DOMAIN ReportsAt(k, r)
      PROVE  /\ <<r, <<k, t>>>> \in DOMAIN Whole.reports
             /\ Whole.reports[<<r, <<k, t>>>>] = ReportsAt(k, r)[t]
             /\ Whole.resolutions[<<r, <<k, t>>>>] = rows[k].usage[r].resolutions[t]
  <2>1. r \in DOMAIN roleTotals
    BY RoleIs
  <2>2. /\ <<k, t>> \in DOMAIN roleTotals[r].reports
        /\ roleTotals[r].reports[<<k, t>>] = ReportsAt(k, r)[t]
        /\ roleTotals[r].resolutions[<<k, t>>] = rows[k].usage[r].resolutions[t]
    BY <1>4, <2>1
  <2> QED
    BY <1>2, <2>1, <2>2
<1>6. ASSUME NEW p \in DOMAIN Whole.reports
      PROVE  \E k \in DOMAIN rows : \E r \in DOMAIN rows[k].usage : \E t \in DOMAIN ReportsAt(k, r) :
               p = <<r, <<k, t>>>>
  <2>1. PICK r \in DOMAIN roleTotals : \E i \in DOMAIN roleTotals[r].reports : p = <<r, i>>
    BY <1>2, <1>3
  <2>2. PICK i \in DOMAIN roleTotals[r].reports : p = <<r, i>>
    BY <2>1
  <2>3. PICK k \in DOMAIN rows : r \in DOMAIN rows[k].usage /\ \E t \in DOMAIN ReportsAt(k, r) : i = <<k, t>>
    BY <1>4
  <2> QED
    BY <2>2, <2>3
<1> QED
  BY <1>2, <1>5, <1>6

\* The job's turn that an entry of the aggregate is about.
SlotOf(p) == <<rows[p[2][1]].trial, p[1], p[2][2]>>
TurnsOfWhole == DOMAIN Whole.reports
SlotsOf == [p \in TurnsOfWhole |-> SlotOf(p)]

\* With no trial skipped these are all the turns there were, each once.
LEMMA SlotsAreTurns ==
  ASSUME ReportInv, Finished, skipped = {}
  PROVE  /\ Image(SlotsOf, TurnsOfWhole) = Slots
         /\ \A p, q \in TurnsOfWhole : SlotsOf[p] = SlotsOf[q] => p = q
         /\ \A p \in TurnsOfWhole : ReportAt(SlotsOf[p]) = Whole.reports[p]
<1> USE DEF ReportInv
<1>0. /\ DOMAIN job = 1..Len(job) /\ Len(job) \in Nat /\ next > Len(job) /\ next \in Nat
      /\ \A k \in 1..Len(job) : k \in 1..next - 1
  BY DEF JobInv, ReadInv, UsageInv
<1>1. ASSUME NEW k \in DOMAIN rows, NEW r \in DOMAIN rows[k].usage, NEW t \in DOMAIN ReportsAt(k, r)
      PROVE  /\ <<r, <<k, t>>>> \in TurnsOfWhole
             /\ SlotsOf[<<r, <<k, t>>>>] = <<rows[k].trial, r, t>>
             /\ Whole.reports[<<r, <<k, t>>>>] = ReportAt(<<rows[k].trial, r, t>>)
             /\ <<rows[k].trial, r, t>> \in Slots
  <2>1. /\ <<r, <<k, t>>>> \in TurnsOfWhole
        /\ Whole.reports[<<r, <<k, t>>>>] = ReportsAt(k, r)[t]
    BY WholeIs DEF TurnsOfWhole
  <2>2. SlotsOf[<<r, <<k, t>>>>] = <<rows[k].trial, r, t>>
    BY <2>1 DEF SlotsOf, SlotOf
  <2>3. ReportAt(<<rows[k].trial, r, t>>) = ReportsAt(k, r)[t]
    BY DEF ReportAt, ReportsAt
  <2>4. rows[k].trial \in 1..Len(job) /\ DOMAIN rows[k].usage = Active(job[rows[k].trial])
    BY RowIs DEF RowsInv
  <2>5. /\ rows[k].trial \in DOMAIN job /\ job[rows[k].trial].roles # Missing
        /\ r \in DOMAIN job[rows[k].trial].roles
    BY <1>0, <2>4, ActiveRolesIs
  <2>6. t \in DOMAIN job[rows[k].trial].roles[r].reports
    BY DEF ReportsAt
  <2> DEFINE j == rows[k].trial
  <2> HIDE DEF j
  <2>7. <<j, r, t>> \in Slots
    BY <2>5, <2>6 DEF Slots, j
  <2> QED
    BY <2>1, <2>2, <2>3, <2>7 DEF j
<1>2. \A p \in TurnsOfWhole :
        \E k \in DOMAIN rows : \E r \in DOMAIN rows[k].usage : \E t \in DOMAIN ReportsAt(k, r) :
          p = <<r, <<k, t>>>>
  BY WholeIs DEF TurnsOfWhole
<1>3. ASSUME NEW s \in Slots
      PROVE  \E k \in DOMAIN rows : \E r \in DOMAIN rows[k].usage : \E t \in DOMAIN ReportsAt(k, r) :
               s = <<rows[k].trial, r, t>>
  <2>1. PICK j \in DOMAIN job : /\ job[j].roles # Missing
                                /\ \E r \in DOMAIN job[j].roles : \E t \in DOMAIN job[j].roles[r].reports :
                                     s = <<j, r, t>>
    BY DEF Slots
  <2>2. PICK r \in DOMAIN job[j].roles : \E t \in DOMAIN job[j].roles[r].reports : s = <<j, r, t>>
    BY <2>1
  <2>3. PICK t \in DOMAIN job[j].roles[r].reports : s = <<j, r, t>>
    BY <2>2
  <2>4. job[j].roles[r].turns # 0
    <3>1. IsTrial(job[j])
      BY <1>0 DEF JobInv
    <3>2. job[j].roles[r].reports # <<>>
      <4>1. DOMAIN <<>> = {}
        OBVIOUS
      <4> QED
        BY <4>1
    <3> QED
      BY <2>1, <3>1, <3>2 DEF IsTrial
  <2>5. Active(job[j]) # {}
    BY <1>0 DEF ReadInv
  <2>6. r \in Active(job[j])
    BY <2>4, <2>5 DEF Active
  <2>7. PICK k \in DOMAIN rows : rows[k].trial = j
    BY <1>0, <2>5 DEF ReadInv
  <2>8. r \in DOMAIN rows[k].usage /\ t \in DOMAIN ReportsAt(k, r)
    BY <2>6, <2>7 DEF RowsInv, ReportsAt
  <2> QED
    BY <2>3, <2>7, <2>8
<1>4. Image(SlotsOf, TurnsOfWhole) = Slots
  <2>1. ASSUME NEW s \in Image(SlotsOf, TurnsOfWhole)
        PROVE  s \in Slots
    <3>1. PICK p \in TurnsOfWhole : s = SlotsOf[p]
      BY DEF Image
    <3>2. PICK k \in DOMAIN rows : \E r \in DOMAIN rows[k].usage : \E t \in DOMAIN ReportsAt(k, r) :
            p = <<r, <<k, t>>>>
      BY <1>2
    <3>3. PICK r \in DOMAIN rows[k].usage : \E t \in DOMAIN ReportsAt(k, r) : p = <<r, <<k, t>>>>
      BY <3>2
    <3>4. PICK t \in DOMAIN ReportsAt(k, r) : p = <<r, <<k, t>>>>
      BY <3>3
    <3> QED
      BY <1>1, <3>1, <3>4
  <2>2. ASSUME NEW s \in Slots
        PROVE  s \in Image(SlotsOf, TurnsOfWhole)
    <3>2. PICK k \in DOMAIN rows : \E r \in DOMAIN rows[k].usage : \E t \in DOMAIN ReportsAt(k, r) :
            s = <<rows[k].trial, r, t>>
      BY <1>3
    <3>3. PICK r \in DOMAIN rows[k].usage : \E t \in DOMAIN ReportsAt(k, r) : s = <<rows[k].trial, r, t>>
      BY <3>2
    <3>4. PICK t \in DOMAIN ReportsAt(k, r) : s = <<rows[k].trial, r, t>>
      BY <3>3
    <3>5. <<r, <<k, t>>>> \in TurnsOfWhole /\ SlotsOf[<<r, <<k, t>>>>] = s
      BY <1>1, <3>4
    <3> QED
      BY <3>5 DEF Image
  <2> QED
    BY <2>1, <2>2
<1>5. ASSUME NEW p \in TurnsOfWhole, NEW q \in TurnsOfWhole, SlotsOf[p] = SlotsOf[q]
      PROVE  p = q
  <2>1. PICK k \in DOMAIN rows : \E r \in DOMAIN rows[k].usage : \E t \in DOMAIN ReportsAt(k, r) :
          p = <<r, <<k, t>>>>
    BY <1>2
  <2>2. PICK r \in DOMAIN rows[k].usage : \E t \in DOMAIN ReportsAt(k, r) : p = <<r, <<k, t>>>>
    BY <2>1
  <2>3. PICK t \in DOMAIN ReportsAt(k, r) : p = <<r, <<k, t>>>>
    BY <2>2
  <2>4. PICK k2 \in DOMAIN rows : \E r2 \in DOMAIN rows[k2].usage : \E t2 \in DOMAIN ReportsAt(k2, r2) :
          q = <<r2, <<k2, t2>>>>
    BY <1>2
  <2>5. PICK r2 \in DOMAIN rows[k2].usage : \E t2 \in DOMAIN ReportsAt(k2, r2) : q = <<r2, <<k2, t2>>>>
    BY <2>4
  <2>6. PICK t2 \in DOMAIN ReportsAt(k2, r2) : q = <<r2, <<k2, t2>>>>
    BY <2>5
  <2>7. <<rows[k].trial, r, t>> = <<rows[k2].trial, r2, t2>>
    BY <1>1, <1>5, <2>3, <2>6
  <2>8. k = k2
    BY <2>7 DEF RowsInv
  <2> QED
    BY <2>3, <2>6, <2>7, <2>8
<1>6. ASSUME NEW p \in TurnsOfWhole
      PROVE  ReportAt(SlotsOf[p]) = Whole.reports[p]
  <2>1. PICK k \in DOMAIN rows : \E r \in DOMAIN rows[k].usage : \E t \in DOMAIN ReportsAt(k, r) :
          p = <<r, <<k, t>>>>
    BY <1>2
  <2>2. PICK r \in DOMAIN rows[k].usage : \E t \in DOMAIN ReportsAt(k, r) : p = <<r, <<k, t>>>>
    BY <2>1
  <2>3. PICK t \in DOMAIN ReportsAt(k, r) : p = <<r, <<k, t>>>>
    BY <2>2
  <2> QED
    BY <1>1, <2>3
<1> QED
  BY <1>4, <1>5, <1>6

\* Downgrading an account leaves what was observed.
LEMMA DowngradedIs ==
  ASSUME NEW a, WellFormed(a)
  PROVE  LET d == Downgraded(a) IN
         /\ d.turns = a.turns /\ d.observed = a.observed /\ d.observedCost = a.observedCost
         /\ d.reported = a.reported /\ d.estimated = a.estimated
         /\ skipped # {} => d.input = Missing /\ d.cost = Missing
         /\ skipped = {} => d = a
<1>1. a = Account(a.reports, a.resolutions)
  BY DEF WellFormed
<1>2. DOMAIN a = {"reports", "resolutions", "turns", "tokenCoverage", "observed", "input", "costCoverage",
                  "reported", "estimated", "observedCost", "cost"}
  BY <1>1 DEF Account
<1> QED
  BY <1>2 DEF Downgraded

\* So a complete total is the whole.
LEMMA TotalIsWhole ==
  ASSUME ReportInv
  PROVE  JobTotalIsWhole /\ JobCostIsWhole
<1> SUFFICES ASSUME Finished PROVE JobTotalIsWhole /\ JobCostIsWhole
  BY DEF JobTotalIsWhole, JobCostIsWhole
<1> DEFINE w == Whole
           D == TurnsOfWhole
           g == SlotsOf
<1>1. total = Downgraded(w)
  BY DEF ReportInv, UsageInv, Whole
<1>2. WellFormed(w)
  BY WholeIs
<1>3. skipped # {} => total.input = Missing /\ total.cost = Missing
  BY <1>1, <1>2, DowngradedIs
<1>4. CASE skipped = {}
  <2>1. total = w
    BY <1>1, <1>2, <1>4, DowngradedIs
  <2>2. /\ Image(g, D) = Slots
        /\ \A p, q \in D : g[p] = g[q] => p = q
        /\ \A p \in D : ReportAt(g[p]) = w.reports[p]
    BY <1>4, SlotsAreTurns
  <2>3. /\ w.turns = Cardinality(D) /\ IsFiniteSet(D) /\ D = DOMAIN w.reports
    BY <1>2, AccountSums DEF TurnsOfWhole
  <2>4. /\ w.input # Missing =>
             /\ \A p \in D : w.reports[p].coverage = "complete" /\ w.reports[p].tokens \in Nat
             /\ w.input = SumFunctionOnSet([p \in D |-> w.reports[p].tokens], D)
        /\ w.cost # Missing =>
             \A p \in D : /\ w.resolutions[p].amount # Missing
                          /\ w.resolutions[p].kind = "estimated" => w.resolutions[p].coverage = "complete"
    BY <1>2, <2>3, AccountWhole
  <2>5. \A s \in Slots : \E p \in D : s = g[p]
    BY <2>2 DEF Image
  <2>6. JobTotalIsWhole
    <3> SUFFICES ASSUME w.input # Missing
                 PROVE  /\ \A s \in Slots : ReportAt(s).coverage = "complete"
                        /\ w.input = SumFunction([s \in Slots |-> ReportAt(s).tokens])
      BY <1>4, <2>1 DEF JobTotalIsWhole
    <3> DEFINE f == [p \in D |-> w.reports[p].tokens]
               h == [s \in Slots |-> ReportAt(s).tokens]
    <3>1. \A s \in Slots : ReportAt(s).coverage = "complete"
      BY <2>2, <2>4, <2>5
    <3>2. Reindexes(g, D, f, h)
      <4>1. \A p \in D : f[p] \in Int /\ f[p] = w.reports[p].tokens
        BY <2>4
      <4>2. \A p \in D : g[p] \in Slots
        BY <2>2 DEF Image
      <4>3. \A p \in D : h[g[p]] = f[p]
        BY <2>2, <4>1, <4>2
      <4> HIDE DEF f, h, g, D
      <4> QED
        BY <2>2, <4>1, <4>3 DEF Reindexes
    <3>3. w.input = SumFunctionOnSet(f, D)
      BY <2>4
    <3>4. SumFunction(h) = SumFunctionOnSet(h, Slots)
      BY DEF SumFunction
    <3> HIDE DEF f, h, g, D
    <3>5. SumFunctionOnSet(f, D) = SumFunctionOnSet(h, Slots)
      BY <2>2, <2>3, <3>2, SumReindex
    <3> QED
      BY <3>1, <3>3, <3>4, <3>5 DEF h
  <2>7. JobCostIsWhole
    <3> SUFFICES ASSUME w.cost # Missing
                 PROVE  /\ w.turns = Cardinality(Slots)
                        /\ \A s \in Slots : ReportAt(s).cost # Missing \/ ReportAt(s).coverage = "complete"
      BY <1>4, <2>1 DEF JobCostIsWhole
    <3>1. Cardinality(D) = Cardinality(Slots)
      <4>1. g \in Bijection(D, Slots)
        <5>1. g \in [D -> Slots]
          <6>1. DOMAIN g = D /\ g = [p \in D |-> g[p]]
            BY DEF SlotsOf
          <6>2. \A p \in D : g[p] \in Slots
            BY <2>2 DEF Image
          <6> HIDE DEF g, D
          <6> QED
            BY <6>1, <6>2
        <5> HIDE DEF g, D
        <5> QED
          BY <2>2, <2>5, <5>1 DEF Bijection, Injection, IsInjective, Surjection
      <4>2. ExistsBijection(D, Slots)
        BY <4>1 DEF ExistsBijection
      <4> QED
        BY <2>3, <4>2, FS_Bijection
    <3>2. ASSUME NEW s \in Slots
          PROVE  ReportAt(s).cost # Missing \/ ReportAt(s).coverage = "complete"
      <4>1. PICK p \in D : s = g[p]
        BY <2>5
      <4>2. PICK k \in DOMAIN rows : \E r \in DOMAIN rows[k].usage : \E t \in DOMAIN ReportsAt(k, r) :
              p = <<r, <<k, t>>>>
        BY WholeIs DEF TurnsOfWhole
      <4>3. PICK r \in DOMAIN rows[k].usage : \E t \in DOMAIN ReportsAt(k, r) : p = <<r, <<k, t>>>>
        BY <4>2
      <4>4. PICK t \in DOMAIN ReportsAt(k, r) : p = <<r, <<k, t>>>>
        BY <4>3
      <4> DEFINE x == rows[k].usage[r].resolutions[t]
                 report == ReportsAt(k, r)[t]
      <4>5. w.reports[p] = report /\ w.resolutions[p] = x
        BY <4>4, WholeIs
      <4>6. Resolves(x, report, r)
        BY DEF ReportInv, UsageInv
      <4>7. ReportAt(s) = report
        BY <2>2, <4>1, <4>5
      <4>8. x.amount # Missing /\ (x.kind = "estimated" => x.coverage = "complete")
        BY <2>4, <4>5
      <4> HIDE DEF x, report
      <4>9. CASE report.cost = Missing
        <5>1. x = EstimateOf([report |-> report, role |-> r])
          BY <4>6, <4>8, <4>9 DEF Resolves, Answers, Unavailable, Unresolved
        <5> QED
          BY <4>7, <4>8, <5>1 DEF EstimateOf
      <4> QED
        BY <4>7, <4>9
    <3> QED
      BY <2>3, <3>1, <3>2
  <2> QED
    BY <2>6, <2>7
<1>5. CASE skipped # {}
  BY <1>3, <1>5 DEF JobTotalIsWhole, JobCostIsWhole
<1> QED
  BY <1>4, <1>5

\* Costs by row and role, added up either way.
CostAt(k, r) == Zero(rows[k].usage[r].observedCost)
RolesOfRow == [k \in DOMAIN rows |-> DOMAIN rows[k].usage]
RowsOfRole == [r \in DOMAIN roleTotals |-> DOMAIN RoleAccounts(rows, r)]
CostOfRows == [k \in DOMAIN rows |->
                 SumFunctionOnSet([r \in RolesOfRow[k] |-> CostAt(k, r)], RolesOfRow[k])]
CostOfRoles == [r \in DOMAIN roleTotals |->
                  SumFunctionOnSet([k \in RowsOfRole[r] |-> CostAt(k, r)], RowsOfRole[r])]

\* They come to the same.
LEMMA CostBothWays ==
  ASSUME ReportInv, Finished
  PROVE  SumFunctionOnSet(CostOfRoles, DOMAIN roleTotals) = SumFunctionOnSet(CostOfRows, DOMAIN rows)
<1> DEFINE S == DOMAIN roleTotals
           R == DOMAIN rows
           T == RowsOfRole
           U == RolesOfRow
           h == [p \in PairsOf(S, T) |-> CostAt(p[2], p[1])]
           h2 == [p \in PairsOf(R, U) |-> CostAt(p[1], p[2])]
<1>1. /\ IsFiniteSet(R) /\ IsFiniteSet(S)
      /\ \A k \in R : IsFiniteSet(DOMAIN rows[k].usage)
      /\ \A r \in S : /\ DOMAIN RoleAccounts(rows, r) = {k \in R : r \in DOMAIN rows[k].usage}
                      /\ IsFiniteSet(DOMAIN RoleAccounts(rows, r))
      /\ \A k \in R : \A r \in DOMAIN rows[k].usage : r \in S
  BY RoleIs
<1>2. /\ \A k \in R : U[k] = DOMAIN rows[k].usage /\ IsFiniteSet(U[k])
      /\ \A r \in S : T[r] = {k \in R : r \in DOMAIN rows[k].usage} /\ IsFiniteSet(T[r])
  BY <1>1 DEF RolesOfRow, RowsOfRole
<1>3. \A k \in R : \A r \in DOMAIN rows[k].usage : CostAt(k, r) \in Int
  <2> SUFFICES ASSUME NEW k \in R, NEW r \in DOMAIN rows[k].usage
               PROVE  CostAt(k, r) \in Int
    OBVIOUS
  <2> DEFINE a == rows[k].usage[r]
  <2>1. WellFormed(a)
    BY DEF ReportInv, UsageInv
  <2> HIDE DEF a
  <2>2. Zero(a.observedCost) \in Nat
    BY <2>1, AccountSums
  <2> QED
    BY <2>2 DEF CostAt, a
<1>4. \A p : p \in PairsOf(S, T) <=> \E r \in S : \E k \in T[r] : p = <<r, k>>
  BY PairsOfIs
<1>5. \A p : p \in PairsOf(R, U) <=> \E k \in R : \E r \in U[k] : p = <<k, r>>
  BY PairsOfIs
<1>6. \A r \in S : \A k \in T[r] : <<r, k>> \in PairsOf(S, T) /\ h[<<r, k>>] = CostAt(k, r)
  BY <1>4
<1>7. \A k \in R : \A r \in U[k] : <<k, r>> \in PairsOf(R, U) /\ h2[<<k, r>>] = CostAt(k, r)
  BY <1>5
<1>8. CostOfRoles = [r \in S |-> SumFunctionOnSet([k \in T[r] |-> CostAt(k, r)], T[r])]
  BY DEF CostOfRoles
<1>9. CostOfRows = [k \in R |-> SumFunctionOnSet([r \in U[k] |-> CostAt(k, r)], U[k])]
  BY DEF CostOfRows
<1> HIDE DEF h, h2, S, R, T, U
<1>10. RowSums(h, CostOfRoles, S, T)
  <2>1. \A p \in PairsOf(S, T) : h[p] \in Int
    <3> SUFFICES ASSUME NEW p \in PairsOf(S, T) PROVE h[p] \in Int
      OBVIOUS
    <3>1. PICK r \in S : \E k \in T[r] : p = <<r, k>>
      BY <1>4
    <3>2. PICK k \in T[r] : p = <<r, k>>
      BY <3>1
    <3> QED
      BY <1>2, <1>3, <1>6, <3>2
  <2>2. ASSUME NEW r \in S
        PROVE  CostOfRoles[r] = SumFunctionOnSet([k \in T[r] |-> h[<<r, k>>]], T[r])
    <3>1. [k \in T[r] |-> h[<<r, k>>]] = [k \in T[r] |-> CostAt(k, r)]
      BY <1>6
    <3> QED
      BY <1>8, <3>1
  <2> QED
    BY <1>2, <2>1, <2>2 DEF RowSums
<1>11. RowSums(h2, CostOfRows, R, U)
  <2>1. \A p \in PairsOf(R, U) : h2[p] \in Int
    <3> SUFFICES ASSUME NEW p \in PairsOf(R, U) PROVE h2[p] \in Int
      OBVIOUS
    <3>1. PICK k \in R : \E r \in U[k] : p = <<k, r>>
      BY <1>5
    <3>2. PICK r \in U[k] : p = <<k, r>>
      BY <3>1
    <3> QED
      BY <1>2, <1>3, <1>7, <3>2
  <2>2. ASSUME NEW k \in R
        PROVE  CostOfRows[k] = SumFunctionOnSet([r \in U[k] |-> h2[<<k, r>>]], U[k])
    <3>1. [r \in U[k] |-> h2[<<k, r>>]] = [r \in U[k] |-> CostAt(k, r)]
      BY <1>7
    <3> QED
      BY <1>9, <3>1
  <2> QED
    BY <1>2, <2>1, <2>2 DEF RowSums
<1>12. Transposes(S, T, R, U)
  <2>1. \A r \in S : \A k \in T[r] : k \in R /\ r \in U[k]
    BY <1>2
  <2>2. \A k \in R : \A r \in U[k] : r \in S /\ k \in T[r]
    BY <1>1, <1>2
  <2> QED
    BY <2>1, <2>2 DEF Transposes
<1>13. Mirrors(h2, h, S, T)
  <2>1. ASSUME NEW r \in S, NEW k \in T[r]
        PROVE  h2[<<k, r>>] = h[<<r, k>>]
    <3>1. k \in R /\ r \in U[k]
      BY <1>12 DEF Transposes
    <3> QED
      BY <1>6, <1>7, <3>1
  <2> QED
    BY <2>1 DEF Mirrors
<1>14. SumFunctionOnSet(CostOfRoles, S) = SumFunctionOnSet(CostOfRows, R)
  BY <1>1, <1>10, <1>11, <1>12, <1>13, SumSwapped
<1> QED
  BY <1>14 DEF S, R

\* So the report's sums agree.
LEMMA AllSumsAgree ==
  ASSUME ReportInv
  PROVE  SumsAgree
<1> SUFFICES ASSUME Finished PROVE SumsAgree
  BY DEF SumsAgree
<1> DEFINE w == Whole
           S == DOMAIN roleTotals
<1>1. total = Downgraded(w)
  BY DEF ReportInv, UsageInv, Whole
<1>2. WellFormed(w)
  BY WholeIs
<1>3. /\ total.observed = w.observed /\ total.observedCost = w.observedCost
      /\ total.reported = w.reported /\ total.estimated = w.estimated
  BY <1>1, <1>2, DowngradedIs
<1>4. Zero(w.observedCost) = Zero(w.reported) + Zero(w.estimated)
  BY <1>2, AccountSums
<1>5. IsFiniteSet(S) /\ \A r \in S : WellFormed(roleTotals[r])
  BY RoleIs
<1>6. /\ Zero(w.observed) = SumFunctionOnSet([r \in S |-> Zero(roleTotals[r].observed)], S)
      /\ Zero(w.observedCost) = SumFunctionOnSet([r \in S |-> Zero(roleTotals[r].observedCost)], S)
  BY <1>5, AggregateSums DEF Whole
<1>7. [r \in S |-> Zero(roleTotals[r].observedCost)] = CostOfRoles
  <2>1. ASSUME NEW r \in S
        PROVE  Zero(roleTotals[r].observedCost) =
                 SumFunctionOnSet([k \in RowsOfRole[r] |-> CostAt(k, r)], RowsOfRole[r])
    <3> DEFINE accounts == RoleAccounts(rows, r)
               A == DOMAIN accounts
    <3>1. /\ IsFiniteSet(A)
          /\ \A k \in A : accounts[k] = rows[k].usage[r] /\ WellFormed(accounts[k])
          /\ roleTotals[r] = Aggregate(accounts)
      BY RoleIs
    <3>2. RowsOfRole[r] = A
      BY DEF RowsOfRole
    <3> HIDE DEF accounts
    <3>3. Zero(roleTotals[r].observedCost) = SumFunctionOnSet([k \in A |-> Zero(accounts[k].observedCost)], A)
      BY <3>1, AggregateSums
    <3>4. [k \in A |-> Zero(accounts[k].observedCost)] = [k \in A |-> CostAt(k, r)]
      BY <3>1 DEF CostAt
    <3> QED
      BY <3>2, <3>3, <3>4
  <2> QED
    BY <2>1 DEF CostOfRoles
<1>8. [k \in DOMAIN rows |->
         SumFunction([r \in DOMAIN rows[k].usage |-> Zero(AccountOf(k, r).observedCost)])] = CostOfRows
  <2>1. ASSUME NEW k \in DOMAIN rows
        PROVE  SumFunction([r \in DOMAIN rows[k].usage |-> Zero(AccountOf(k, r).observedCost)]) =
                 SumFunctionOnSet([r \in RolesOfRow[k] |-> CostAt(k, r)], RolesOfRow[k])
    <3>1. RolesOfRow[k] = DOMAIN rows[k].usage
      BY DEF RolesOfRow
    <3>2. [r \in DOMAIN rows[k].usage |-> Zero(AccountOf(k, r).observedCost)] =
            [r \in DOMAIN rows[k].usage |-> CostAt(k, r)]
      BY DEF AccountOf, CostAt
    <3>3. DOMAIN [r \in DOMAIN rows[k].usage |-> CostAt(k, r)] = DOMAIN rows[k].usage
      OBVIOUS
    <3> QED
      BY <3>1, <3>2, <3>3 DEF SumFunction
  <2> QED
    BY <2>1 DEF CostOfRows
<1>9. SumFunction(CostOfRows) = SumFunctionOnSet(CostOfRows, DOMAIN rows)
  BY DEF SumFunction, CostOfRows
<1>10. SumFunction([r \in S |-> Zero(roleTotals[r].observed)]) =
         SumFunctionOnSet([r \in S |-> Zero(roleTotals[r].observed)], S)
  BY DEF SumFunction
<1>11. SumFunctionOnSet(CostOfRoles, S) = SumFunctionOnSet(CostOfRows, DOMAIN rows)
  BY CostBothWays
<1> HIDE DEF w
<1>12. Zero(total.observedCost) = Zero(total.reported) + Zero(total.estimated)
  BY <1>3, <1>4
<1>13. Zero(total.observedCost) =
         SumFunction([k \in DOMAIN rows |->
           SumFunction([r \in DOMAIN rows[k].usage |-> Zero(AccountOf(k, r).observedCost)])])
  BY <1>3, <1>6, <1>7, <1>8, <1>9, <1>11
<1>14. Zero(total.observed) = SumFunction([r \in S |-> Zero(roleTotals[r].observed)])
  BY <1>3, <1>6, <1>10
<1> QED
  BY <1>12, <1>13, <1>14 DEF SumsAgree

\* The invariant has the types in it.
LEMMA ReportTypesHold ==
  ASSUME ReportInv
  PROVE  ReportTypeOK
<1> USE DEF ReportInv
<1>1. next \in 1..Len(job) + 1 /\ skipped \subseteq DOMAIN job
  <2>1. DOMAIN job = 1..Len(job) /\ Len(job) \in Nat
    BY DEF JobInv
  <2> QED
    BY <2>1 DEF ReadInv
<1>2. /\ Len(requests) = Len(pending)
      /\ \A i \in DOMAIN pending :
           pending[i].row \in DOMAIN rows /\ pending[i].role \in DOMAIN rows[pending[i].row].usage
  BY DEF BatchInv
<1>3. Len(answers) \in {0, Len(requests)}
  <2>1. Len(<<>>) = 0
    OBVIOUS
  <2> QED
    BY <2>1 DEF AnswersInv
<1>4. exit \in {Running, "0", "1", "2"}
  BY DEF UsageInv
<1>5. DOMAIN roleTotals \subseteq RolesOf(rows)
  BY <1>4 DEF UsageInv, Reading, Finished
<1> QED
  BY <1>1, <1>2, <1>3, <1>4, <1>5 DEF ReportTypeOK

\* And the rest of the properties.
LEMMA ReportAddsUp ==
  ASSUME ReportInv
  PROVE  JobReportAddsUp
<1> USE DEF ReportInv
<1>1. EstimatesReachTheirTurns
  <2> SUFFICES ASSUME Finished, NEW k \in DOMAIN rows, NEW r \in DOMAIN rows[k].usage,
                      NEW t \in DOMAIN AccountOf(k, r).resolutions
               PROVE  LET report == ReportAt(<<rows[k].trial, r, t>>)
                          resolution == AccountOf(k, r).resolutions[t]
                      IN \/ resolution = NativeResolution(report) /\ report.cost # Missing
                         \/ /\ report.cost = Missing
                            /\ resolution \in Answers([report |-> report, role |-> r])
    BY DEF EstimatesReachTheirTurns
  <2>1. WellFormed(rows[k].usage[r]) /\ rows[k].usage[r].reports = ReportsAt(k, r)
    BY DEF UsageInv, RowsInv
  <2>2. t \in DOMAIN ReportsAt(k, r)
    BY <2>1 DEF WellFormed, OfTurns, AccountOf
  <2>3. Resolves(rows[k].usage[r].resolutions[t], ReportsAt(k, r)[t], r)
    BY <2>2 DEF UsageInv
  <2>4. ReportAt(<<rows[k].trial, r, t>>) = ReportsAt(k, r)[t]
    BY DEF ReportAt, ReportsAt
  <2> QED
    BY <2>3, <2>4 DEF AccountOf, Resolves
<1>2. EveryTrialAccountedFor
  <2> SUFFICES ASSUME Finished PROVE EveryTrialAccountedFor
    BY DEF EveryTrialAccountedFor
  <2>0. /\ DOMAIN job = 1..Len(job) /\ Len(job) \in Nat /\ next > Len(job) /\ next \in 1..Len(job) + 1
    BY DEF JobInv, ReadInv, UsageInv
  <2>1. 1..next - 1 = DOMAIN job
    BY <2>0
  <2>2. \A k \in DOMAIN rows : rows[k].trial \in DOMAIN job /\ rows[k].trial \notin skipped
    BY <2>1 DEF RowsInv, ReadInv
  <2>3. skipped \union {rows[k].trial : k \in DOMAIN rows} = DOMAIN job
    <3>1. ASSUME NEW i \in DOMAIN job, i \notin skipped
          PROVE  \E k \in DOMAIN rows : rows[k].trial = i
      BY <2>1, <3>1 DEF ReadInv
    <3>2. skipped \subseteq DOMAIN job
      BY <2>1 DEF ReadInv
    <3> QED
      BY <2>2, <3>1, <3>2
  <2>4. \A k \in DOMAIN job : \A r \in Active(job[k]) : Len(job[k].roles[r].reports) = job[k].roles[r].turns
    BY <2>1 DEF ReadInv, Sound
  <2> QED
    BY <2>2, <2>3, <2>4 DEF EveryTrialAccountedFor
<1> QED
  BY <1>1, <1>2, TotalIsWhole, AllSumsAgree DEF JobReportAddsUp

\* It holds throughout.
LEMMA ReportInvariance == ReportSpec => []ReportInv
<1>1. ReportInit => ReportInv
  <2> SUFFICES ASSUME ReportInit PROVE ReportInv
    OBVIOUS
  <2>1. job \in Jobs /\ NothingRead
    BY DEF ReportInit
  <2>2. JobInv
    BY <2>1, JobsAssumption DEF JobInv
  <2> QED
    BY <2>1, <2>2, ReportStart
<1>2. ReportInv /\ [ReportNext]_reportVars => ReportInv'
  BY ReportStep
<1> QED
  BY <1>1, <1>2, PTL DEF ReportSpec

\* The report's variables have their types, and the batch's two lists one length.
THEOREM ReportTypes == ReportSpec => []ReportTypeOK
<1>1. ReportInv => ReportTypeOK
  BY ReportTypesHold
<1> QED
  BY <1>1, ReportInvariance, PTL

\* For every job of trials, sound or not, and all prices and answers of the estimator: an
\* estimate reaches the turn it was made for and replaces no reported cost
\* (_trial_rows); a complete total of the job has every turn of every trial and no turn
\* that was partial (build_report); costs come to the same by role, by row and by kind; and
\* every trial is either skipped or counted, once.
THEOREM JobReportAddsUpHolds == ReportSpec => []JobReportAddsUp
<1>1. ReportInv => JobReportAddsUp
  BY ReportAddsUp
<1> QED
  BY <1>1, ReportInvariance, PTL

-----------------------------------------------------------------------------
(* The statistics of the pairs (PairStats).  Sums of indicators for the     *)
(* cells, a least counterexample for what telescopes, the complement of a   *)
(* subset for the two tails of the sign test, and for the interval what a   *)
(* place of a sorted list is: somebody's, and later places no smaller.      *)

\* What the row of a scored trial says.
RowIsSound(row) ==
  /\ row.initial.reward \in {0, 1} /\ row.final.reward \in {0, 1}
  /\ row.delta.known \in BOOLEAN /\ row.delta.reward \in {-1, 0, 1}
  /\ row.delta.known =>
       /\ row.delta.reward = row.final.reward - row.initial.reward
       /\ row.class = IF row.delta.reward > 0 THEN "improved"
                      ELSE IF row.delta.reward < 0 THEN "harmed" ELSE "unchanged"

\* The row of a trial is sound.
LEMMA RowSound ==
  ASSUME NEW trial, IsScored(trial)
  PROVE  RowIsSound(PairRow(trial))
<1> DEFINE n == Len(trial.stages)
           a == trial.stages[1]
           b == trial.stages[n]
           d == Delta(a, b)
           row == PairRow(trial)
<1>1. n \in Nat /\ n >= 1
  BY DEF IsScored
<1>2. a \in StageScore /\ b \in StageScore
  BY <1>1 DEF IsScored
<1>3. row.initial = a /\ row.final = b /\ row.delta = d /\ row.class = Class(d)
  BY DEF PairRow
<1> HIDE DEF n, a, b, row
<1>4. /\ a.known \in BOOLEAN /\ a.reward \in {0, 1}
      /\ b.known \in BOOLEAN /\ b.reward \in {0, 1}
  BY <1>2 DEF StageScore
<1>5. /\ d.known <=> a.known /\ b.known
      /\ d.known \in BOOLEAN
      /\ d.known => d.reward = b.reward - a.reward
      /\ ~d.known => d.reward = 0
  BY <1>4 DEF Delta
<1> HIDE DEF d
<1>6. d.known => Class(d) = IF d.reward > 0 THEN "improved"
                           ELSE IF d.reward < 0 THEN "harmed" ELSE "unchanged"
  BY <1>5, <1>4 DEF Class
<1> QED
  BY <1>3, <1>4, <1>5, <1>6 DEF RowIsSound, row

\* The size of two sets that are apart.
LEMMA CountOfTwo ==
  ASSUME NEW S, IsFiniteSet(S), NEW T, IsFiniteSet(T), S \intersect T = {}
  PROVE  /\ IsFiniteSet(S \union T) /\ Cardinality(S) \in Nat /\ Cardinality(T) \in Nat
         /\ Cardinality(S \union T) = Cardinality(S) + Cardinality(T)
BY FS_Union, FS_EmptySet, FS_CardinalityType

\* The rows of a set of pairs.
RowsSound(some) ==
  /\ IsFiniteSet(some) /\ some \subseteq DOMAIN pairs
  /\ \A i \in some : RowIsSound(pairs[i])

\* The cells of a tally, of sound rows that are all complete.
LEMMA CellsOfComplete ==
  ASSUME NEW C, RowsSound(C), \A i \in C : pairs[i].delta.known
  PROVE  LET I == Classed(C, "improved")
             H == Classed(C, "harmed")
             U == Classed(C, "unchanged")
         IN /\ U = FailedBoth(C) \union PassedBoth(C) /\ FailedBoth(C) \intersect PassedBoth(C) = {}
            /\ C = U \union (I \union H) /\ U \intersect (I \union H) = {} /\ I \intersect H = {}
            /\ FinalPass(C) = I \union PassedBoth(C) /\ I \intersect PassedBoth(C) = {}
            /\ InitialPass(C) = H \union PassedBoth(C) /\ H \intersect PassedBoth(C) = {}
            /\ \A i \in C : Deltas[i] = (-1) * (IF i \in H THEN 1 ELSE 0) + (IF i \in I THEN 1 ELSE 0)
<1> DEFINE I == Classed(C, "improved")
           H == Classed(C, "harmed")
           U == Classed(C, "unchanged")
<1>1. ASSUME NEW i \in C
      PROVE  /\ i \in I <=> ~Passed(pairs[i].initial) /\ Passed(pairs[i].final)
             /\ i \in H <=> Passed(pairs[i].initial) /\ ~Passed(pairs[i].final)
             /\ i \in U <=> (Passed(pairs[i].initial) <=> Passed(pairs[i].final))
             /\ Deltas[i] = (-1) * (IF i \in H THEN 1 ELSE 0) + (IF i \in I THEN 1 ELSE 0)
  <2> DEFINE row == pairs[i]
             a == row.initial.reward
             b == row.final.reward
  <2>1. /\ a \in {0, 1} /\ b \in {0, 1}
        /\ row.delta.reward = b - a
        /\ row.class = IF row.delta.reward > 0 THEN "improved"
                       ELSE IF row.delta.reward < 0 THEN "harmed" ELSE "unchanged"
        /\ i \in DOMAIN pairs
    BY DEF RowsSound, RowIsSound
  <2>2. Deltas[i] = b - a
    BY <2>1 DEF Deltas
  <2>3. /\ i \in I <=> row.class = "improved"
        /\ i \in H <=> row.class = "harmed"
        /\ i \in U <=> row.class = "unchanged"
    BY DEF Classed
  <2> HIDE DEF I, H, U, row
  <2>4. row.class = IF a = b THEN "unchanged" ELSE IF b = 1 THEN "improved" ELSE "harmed"
    BY <2>1
  <2>5. Passed(row.initial) = (a = 1) /\ Passed(row.final) = (b = 1)
    BY DEF Passed
  <2>6. /\ row.class = "improved" <=> a = 0 /\ b = 1
        /\ row.class = "harmed" <=> a = 1 /\ b = 0
        /\ row.class = "unchanged" <=> a = b
    BY <2>4, <2>1
  <2> HIDE DEF a, b
  <2>7. Deltas[i] = (-1) * (IF i \in H THEN 1 ELSE 0) + (IF i \in I THEN 1 ELSE 0)
    BY <2>1, <2>2, <2>3, <2>6
  <2>8. row = pairs[i]
    BY DEF row
  <2> QED
    BY <2>1, <2>3, <2>5, <2>6, <2>7, <2>8
<1>2. I \subseteq C /\ H \subseteq C /\ U \subseteq C
  BY DEF Classed
<1> HIDE DEF I, H, U
<1>3. U = FailedBoth(C) \union PassedBoth(C) /\ FailedBoth(C) \intersect PassedBoth(C) = {}
  BY <1>1, <1>2 DEF FailedBoth, PassedBoth
<1>4. C = U \union (I \union H) /\ U \intersect (I \union H) = {} /\ I \intersect H = {}
  BY <1>1, <1>2
<1>5. FinalPass(C) = I \union PassedBoth(C) /\ I \intersect PassedBoth(C) = {}
  BY <1>1, <1>2 DEF FinalPass, PassedBoth
<1>6. InitialPass(C) = H \union PassedBoth(C) /\ H \intersect PassedBoth(C) = {}
  BY <1>1, <1>2 DEF InitialPass, PassedBoth
<1> QED
  BY <1>1, <1>3, <1>4, <1>5, <1>6 DEF I, H, U

\* The sum of the changes: what improved less what was harmed.
LEMMA SumOfDeltas ==
  ASSUME NEW C, RowsSound(C), \A i \in C : pairs[i].delta.known
  PROVE  SumFunctionOnSet(Deltas, C)
           = Cardinality(Classed(C, "improved")) - Cardinality(Classed(C, "harmed"))
<1> DEFINE I == Classed(C, "improved")
           H == Classed(C, "harmed")
           ofH == [i \in C |-> IF i \in H THEN 1 ELSE 0]
           ofI == [i \in C |-> IF i \in I THEN 1 ELSE 0]
<1>1. IsFiniteSet(C) /\ C \intersect I = I /\ C \intersect H = H
  BY DEF RowsSound, Classed
<1>2. \A i \in C : Deltas[i] = (-1) * (IF i \in H THEN 1 ELSE 0) + (IF i \in I THEN 1 ELSE 0)
  BY CellsOfComplete
<1>3. Cardinality(I) \in Nat /\ Cardinality(H) \in Nat
  BY <1>1, FS_Subset, FS_CardinalityType
<1> HIDE DEF I, H
<1>4. Linear(Deltas, -1, ofH, ofI, C)
  BY <1>2 DEF Linear
<1>5. /\ \A i \in C : ofH[i] = IF i \in H THEN 1 ELSE 0
      /\ \A i \in C : ofI[i] = IF i \in I THEN 1 ELSE 0
  OBVIOUS
<1> HIDE DEF ofH, ofI
<1>6. SumFunctionOnSet(ofH, C) = Cardinality(H)
  BY <1>1, <1>5, SumIndicator
<1>7. SumFunctionOnSet(ofI, C) = Cardinality(I)
  BY <1>1, <1>5, SumIndicator
<1>8. SumFunctionOnSet(Deltas, C) = (-1) * SumFunctionOnSet(ofH, C) + SumFunctionOnSet(ofI, C)
  BY <1>1, <1>4, SumLinear, -1 \in Int
<1>9. SumFunctionOnSet(Deltas, C) = Cardinality(I) - Cardinality(H)
  BY <1>3, <1>6, <1>7, <1>8
<1> QED
  BY <1>9 DEF I, H

\* A tally of sound rows adds up.
LEMMA TallyAddsUp ==
  ASSUME NEW S, RowsSound(S)
  PROVE  CellsAgree(TallyOf(S))
<1> DEFINE C == Complete(S)
           I == Classed(C, "improved")
           H == Classed(C, "harmed")
           U == Classed(C, "unchanged")
           F == FailedBoth(C)
           P == PassedBoth(C)
           t == TallyOf(S)
<1>1. RowsSound(C) /\ (\A i \in C : pairs[i].delta.known) /\ IsFiniteSet(C)
  BY FS_Subset DEF RowsSound, Complete
<1>2. /\ U = F \union P /\ F \intersect P = {}
      /\ C = U \union (I \union H) /\ U \intersect (I \union H) = {} /\ I \intersect H = {}
      /\ FinalPass(C) = I \union P /\ I \intersect P = {}
      /\ InitialPass(C) = H \union P /\ H \intersect P = {}
  BY <1>1, CellsOfComplete
<1>3. SumFunctionOnSet(Deltas, C) = Cardinality(I) - Cardinality(H)
  BY <1>1, SumOfDeltas
<1>4. /\ t.complete = Cardinality(C)
      /\ t.initialPass = Cardinality(InitialPass(C)) /\ t.finalPass = Cardinality(FinalPass(C))
      /\ t.improved = Cardinality(I) /\ t.harmed = Cardinality(H) /\ t.unchanged = Cardinality(U)
      /\ t.failedBoth = Cardinality(F) /\ t.passedBoth = Cardinality(P)
      /\ t.meanDelta = Fraction(SumFunctionOnSet(Deltas, C), Cardinality(C))
  BY DEF TallyOf
<1>5. I \subseteq C /\ H \subseteq C /\ U \subseteq C /\ F \subseteq C /\ P \subseteq C
  BY DEF Classed, FailedBoth, PassedBoth
<1> HIDE DEF C, I, H, U, F, P, t
<1>6. IsFiniteSet(I) /\ IsFiniteSet(H) /\ IsFiniteSet(U) /\ IsFiniteSet(F) /\ IsFiniteSet(P)
  BY <1>1, <1>5, FS_Subset
<1>7. Cardinality(U) = Cardinality(F) + Cardinality(P) /\ Cardinality(F) \in Nat /\ Cardinality(P) \in Nat
  BY <1>2, <1>6, CountOfTwo
<1>8. /\ Cardinality(I \union H) = Cardinality(I) + Cardinality(H) /\ IsFiniteSet(I \union H)
      /\ Cardinality(I) \in Nat /\ Cardinality(H) \in Nat
  BY <1>2, <1>6, CountOfTwo
<1>9. Cardinality(C) = Cardinality(U) + Cardinality(I \union H)
  BY <1>2, <1>6, <1>8, CountOfTwo
<1>10. /\ Cardinality(FinalPass(C)) = Cardinality(I) + Cardinality(P)
       /\ Cardinality(InitialPass(C)) = Cardinality(H) + Cardinality(P)
  BY <1>2, <1>6, CountOfTwo
<1>11. t.complete > 0 => t.meanDelta.num = t.improved - t.harmed
  BY <1>3, <1>4, <1>7, <1>8, <1>9 DEF Fraction
<1> QED
  BY <1>4, <1>7, <1>8, <1>9, <1>10, <1>11 DEF CellsAgree, t

\* The changes of the stages up to m that have another patch than the one before.
ChangedUpTo(trial, m) == {i \in 2..m : trial.changed[i]}
Steps(trial) ==
  [i \in 2..Len(trial.stages) |-> trial.stages[i].reward - trial.stages[i - 1].reward]

\* The stages of a scored trial.
LEMMA StagesAre ==
  ASSUME NEW trial, IsScored(trial)
  PROVE  /\ Len(trial.stages) \in Nat /\ Len(trial.stages) >= 1
         /\ DOMAIN trial.stages = 1..Len(trial.stages)
         /\ \A i \in 1..Len(trial.stages) :
              trial.stages[i].reward \in {0, 1} /\ trial.stages[i].known \in BOOLEAN
<1>1. /\ Len(trial.stages) \in Nat /\ Len(trial.stages) >= 1
      /\ DOMAIN trial.stages = 1..Len(trial.stages)
      /\ \A i \in 1..Len(trial.stages) : trial.stages[i] \in StageScore
  BY DEF IsScored
<1>2. \A s \in StageScore : s.reward \in {0, 1} /\ s.known \in BOOLEAN
  BY DEF StageScore
<1> QED
  BY <1>1, <1>2

\* With a score for every stage, and equal ones for equal patches, the changes telescope.
LEMMA ChangesTelescope ==
  ASSUME NEW trial, IsScored(trial), SameScores(trial)
  PROVE  \A m \in 1..Len(trial.stages) :
           /\ IsFiniteSet(ChangedUpTo(trial, m))
           /\ SumFunctionOnSet(Steps(trial), ChangedUpTo(trial, m))
                = trial.stages[m].reward - trial.stages[1].reward
<1> DEFINE n == Len(trial.stages)
           s == trial.stages
           h == Steps(trial)
           To(m) == ChangedUpTo(trial, m)
           Right(m) == SumFunctionOnSet(h, To(m)) = s[m].reward - s[1].reward
           Bad == {m \in 1..n : ~Right(m)}
<1>1. n \in Nat /\ n >= 1 /\ DOMAIN s = 1..n /\ \A i \in 1..n : s[i].reward \in {0, 1}
  BY StagesAre
<1>2. ASSUME NEW m \in 1..n PROVE To(m) \subseteq 2..m /\ IsFiniteSet(To(m))
  <2>1. IsFiniteSet(2..m)
    BY <1>1, FS_Interval
  <2>2. To(m) \subseteq 2..m
    BY DEF ChangedUpTo
  <2> QED
    BY <2>1, <2>2, FS_Subset
<1>3. \A i \in 2..n : h[i] = s[i].reward - s[i - 1].reward /\ h[i] \in Int
  <2> SUFFICES ASSUME NEW i \in 2..n PROVE h[i] = s[i].reward - s[i - 1].reward /\ h[i] \in Int
    OBVIOUS
  <2>1. i \in 1..n /\ i - 1 \in 1..n
    BY <1>1
  <2>2. h[i] = s[i].reward - s[i - 1].reward
    BY DEF Steps
  <2>3. s[i].reward \in Int /\ s[i - 1].reward \in Int
    BY <1>1, <2>1
  <2> HIDE DEF h, s
  <2> QED
    BY <2>2, <2>3
<1>4. Bad = {}
  <2> SUFFICES ASSUME Bad # {} PROVE FALSE
    OBVIOUS
  <2>1. Bad \in SUBSET Nat
    BY <1>1
  <2>2. PICK m \in Bad : \A k \in Bad : m <= k
    BY <2>1, LeastNumber
  <2>3. m \in 1..n /\ ~Right(m)
    OBVIOUS
  <2>4. CASE m = 1
    <3>1. To(1) = {}
      BY DEF ChangedUpTo
    <3>2. SumFunctionOnSet(h, {}) = 0
      BY SumEmpty
    <3>3. s[1].reward \in Int
      BY <1>1
    <3> HIDE DEF s
    <3>4. s[m].reward - s[1].reward = 0
      BY <2>4, <3>3
    <3>5. SumFunctionOnSet(h, To(m)) = 0
      BY <2>4, <3>1, <3>2
    <3> QED
      BY <2>3, <3>4, <3>5
  <2>5. CASE m > 1
    <3>1. m - 1 \in 1..n /\ m \in 2..n
      BY <1>1, <2>3, <2>5
    <3>2. Right(m - 1)
      BY <2>2, <2>3, <3>1
    <3>3. h[m] = s[m].reward - s[m - 1].reward
      BY <1>3, <3>1
    <3>4. CASE trial.changed[m]
      <4>1. To(m) = To(m - 1) \union {m} /\ m \notin To(m - 1)
        BY <3>1, <3>4, <1>1 DEF ChangedUpTo
      <4>2. \A y \in To(m - 1) \union {m} : h[y] \in Int
        BY <1>2, <1>3, <3>1, <1>1
      <4>3. IsFiniteSet(To(m - 1))
        BY <1>2, <3>1
      <4> HIDE DEF h, To, n, s
      <4>4. SumFunctionOnSet(h, To(m)) = h[m] + SumFunctionOnSet(h, To(m - 1))
        BY <4>1, <4>2, <4>3, SumAdd
      <4> QED
        BY <1>1, <2>3, <3>1, <3>2, <3>3, <4>4
    <3>5. CASE ~trial.changed[m]
      <4>1. To(m) = To(m - 1)
        BY <3>1, <3>5, <1>1 DEF ChangedUpTo
      <4>2. s[m] = s[m - 1]
        BY <3>1, <3>5 DEF SameScores
      <4> HIDE DEF h, To, n, s
      <4> QED
        BY <1>1, <2>3, <3>1, <3>2, <4>1, <4>2
    <3> QED
      BY <3>4, <3>5
  <2> QED
    BY <1>1, <2>3, <2>4, <2>5
<1> HIDE DEF h, To, s
<1>5. \A m \in 1..n : Right(m)
  BY <1>4
<1> QED
  BY <1>2, <1>5 DEF h, To, s, n

\* What a trial gained is the sum of what its revisions did.
LEMMA RowAddsUp ==
  ASSUME NEW trial, IsScored(trial), SameScores(trial)
  PROVE  PairRow(trial).delta.reward = SumFunction(PairRow(trial).revisions)
<1> DEFINE n == Len(trial.stages)
           s == trial.stages
           revisions == RevisionDeltas(s, trial.changed)
           D == ChangedUpTo(trial, n)
<1>1. n \in Nat /\ n >= 1 /\ DOMAIN s = 1..n /\ \A i \in 1..n : s[i].known /\ s[i].reward \in {0, 1}
  BY StagesAre DEF SameScores
<1>2. DOMAIN revisions = D
  BY <1>1 DEF RevisionDeltas, ChangedUpTo
<1>3. \A i \in D : revisions[i] = Steps(trial)[i]
  <2> SUFFICES ASSUME NEW i \in D PROVE revisions[i] = Steps(trial)[i]
    OBVIOUS
  <2>1. i \in 2..n /\ i - 1 \in 1..n /\ i \in 1..n
    BY <1>1 DEF ChangedUpTo
  <2>2. revisions[i] = Delta(s[i - 1], s[i]).reward
    BY <1>2 DEF RevisionDeltas
  <2>3. Delta(s[i - 1], s[i]).reward = s[i].reward - s[i - 1].reward
    BY <1>1, <2>1 DEF Delta
  <2> QED
    BY <2>1, <2>2, <2>3 DEF Steps
<1>4. /\ IsFiniteSet(D)
      /\ SumFunctionOnSet(Steps(trial), D) = s[n].reward - s[1].reward
  BY <1>1, ChangesTelescope
<1>5. PairRow(trial).delta = Delta(s[1], s[n]) /\ PairRow(trial).revisions = revisions
  BY DEF PairRow
<1>6. Delta(s[1], s[n]).reward = s[n].reward - s[1].reward
  BY <1>1 DEF Delta
<1> HIDE DEF D, revisions, s, n
<1>7. SumFunctionOnSet(revisions, D) = SumFunctionOnSet(Steps(trial), D)
  BY <1>3, <1>4, SumOfEqual
<1> QED
  BY <1>2, <1>4, <1>5, <1>6, <1>7 DEF SumFunction

\* The least of two numbers.
LEMMA LeastOfTwo ==
  ASSUME NEW a \in Int, NEW b \in Int
  PROVE  /\ Min({a, b}) = IF a <= b THEN a ELSE b
         /\ Max({a, b}) = IF a >= b THEN a ELSE b
<1>1. ASSUME NEW m, m \in {a, b}, \A y \in {a, b} : m <= y
      PROVE  Min({a, b}) = m
  <2>1. Min({a, b}) \in {a, b} /\ \A y \in {a, b} : Min({a, b}) <= y
    BY <1>1 DEF Min
  <2> QED
    BY <1>1, <2>1
<1>2. ASSUME NEW m, m \in {a, b}, \A y \in {a, b} : m >= y
      PROVE  Max({a, b}) = m
  <2>1. Max({a, b}) \in {a, b} /\ \A y \in {a, b} : Max({a, b}) >= y
    BY <1>2 DEF Max
  <2> QED
    BY <1>2, <2>1
<1>3. CASE a <= b
  BY <1>1, <1>2, <1>3
<1>4. CASE b < a
  BY <1>1, <1>2, <1>4
<1> QED
  BY <1>3, <1>4

\* The subsets of 1..n with at most, and with at least, so many elements.
Small(n, t) == {S \in SUBSET (1..n) : Cardinality(S) <= t}
Large(n, t) == {S \in SUBSET (1..n) : n - Cardinality(S) <= t}

\* The subsets of 1..n are finitely many, each finite, of at most n elements.
LEMMA SubsetsAreFinite ==
  ASSUME NEW n \in Nat
  PROVE  /\ IsFiniteSet(1..n) /\ Cardinality(1..n) = n
         /\ IsFiniteSet(SUBSET (1..n)) /\ Cardinality(SUBSET (1..n)) = 2 ^ n
         /\ \A S \in SUBSET (1..n) : IsFiniteSet(S) /\ Cardinality(S) \in 0..n
         /\ \A S \in SUBSET (1..n) : Cardinality((1..n) \ S) = n - Cardinality(S)
<1>1. IsFiniteSet(1..n) /\ Cardinality(1..n) = n
  BY FS_Interval
<1>2. IsFiniteSet(SUBSET (1..n)) /\ Cardinality(SUBSET (1..n)) = 2 ^ n
  BY <1>1, FS_SUBSET
<1>3. ASSUME NEW S \in SUBSET (1..n) PROVE IsFiniteSet(S) /\ Cardinality(S) \in 0..n
  <2>1. IsFiniteSet(S) /\ Cardinality(S) <= n
    BY <1>1, FS_Subset
  <2>2. Cardinality(S) \in Nat
    BY <2>1, FS_CardinalityType
  <2> QED
    BY <2>1, <2>2
<1>4. ASSUME NEW S \in SUBSET (1..n) PROVE Cardinality((1..n) \ S) = n - Cardinality(S)
  <2>1. (1..n) \intersect S = S
    OBVIOUS
  <2> QED
    BY <1>1, <1>3, <2>1, FS_Difference
<1> QED
  BY <1>1, <1>2, <1>3, <1>4

\* The sum of the ways to choose up to t of n counts the small subsets.
LEMMA WaysAddUp ==
  ASSUME NEW n \in Nat, NEW t \in Nat
  PROVE  SumFunction([k \in 0..t |-> Ways(n, k)]) = Cardinality(Small(n, t))
<1> DEFINE h == [k \in 0..t |-> Ways(n, k)]
           Right(m) == SumFunctionOnSet(h, 0..m) = Cardinality(Small(n, m))
           Bad == {m \in 0..t : ~Right(m)}
<1>1. \A k \in 0..t : h[k] = Cardinality(kSubset(k, 1..n)) /\ IsFiniteSet(kSubset(k, 1..n))
                      /\ Cardinality(kSubset(k, 1..n)) \in Nat
  BY SubsetsAreFinite, FS_Subset, FS_CardinalityType DEF Ways, kSubset
<1>2. \A m \in 0..t : IsFiniteSet(Small(n, m))
  BY SubsetsAreFinite, FS_Subset DEF Small
<1>3. Bad = {}
  <2> SUFFICES ASSUME Bad # {} PROVE FALSE
    OBVIOUS
  <2>0. ASSUME NEW S \in SUBSET (1..n) PROVE Cardinality(S) \in Nat
    <3>1. Cardinality(S) \in 0..n
      BY SubsetsAreFinite
    <3> QED
      BY <3>1
  <2>1. Bad \in SUBSET Nat
    OBVIOUS
  <2>2. PICK m \in Bad : \A k \in Bad : m <= k
    BY <2>1, LeastNumber
  <2>3. m \in 0..t /\ ~Right(m)
    OBVIOUS
  <2>4. CASE m = 0
    <3>1. 0..m = {} \union {0} /\ IsFiniteSet({})
      BY <2>4, FS_EmptySet
    <3>2. Small(n, m) = kSubset(0, 1..n)
      <4>1. \A S \in SUBSET (1..n) : Cardinality(S) <= m <=> Cardinality(S) = 0
        BY <2>0, <2>4
      <4> QED
        BY <4>1, Zenon DEF Small, kSubset
    <3>3. h[0] = Cardinality(Small(n, m)) /\ h[0] \in Int
      BY <1>1, <3>2
    <3> HIDE DEF h
    <3>4. SumFunctionOnSet(h, {} \union {0}) = h[0] + SumFunctionOnSet(h, {})
      BY <3>1, <3>3, SumAdd
    <3>5. SumFunctionOnSet(h, {}) = 0
      BY SumEmpty
    <3> QED
      BY <2>3, <2>4, <3>1, <3>3, <3>4, <3>5
  <2>5. CASE m > 0
    <3>1. m - 1 \in 0..t /\ m \in Nat /\ m \in 0..t
      BY <2>3, <2>5
    <3>2. Right(m - 1)
      BY <2>2, <2>3, <3>1
    <3>3. 0..m = (0..m-1) \union {m} /\ m \notin 0..m-1 /\ IsFiniteSet(0..m-1)
      <4>1. IsFiniteSet(0..m-1)
        BY <3>1, FS_Interval, m - 1 \in Int
      <4> QED
        BY <3>1, <4>1
    <3>4. Small(n, m) = Small(n, m - 1) \union kSubset(m, 1..n)
          /\ Small(n, m - 1) \intersect kSubset(m, 1..n) = {}
      <4>1. \A S \in SUBSET (1..n) :
              /\ Cardinality(S) <= m <=> Cardinality(S) <= m - 1 \/ Cardinality(S) = m
              /\ ~(Cardinality(S) <= m - 1 /\ Cardinality(S) = m)
        BY <2>0, <3>1
      <4> QED
        BY <4>1, Zenon DEF Small, kSubset
    <3>5. Cardinality(Small(n, m)) = Cardinality(Small(n, m - 1)) + h[m]
      <4>1. IsFiniteSet(Small(n, m - 1)) /\ IsFiniteSet(kSubset(m, 1..n))
        BY <1>1, <1>2, <3>1
      <4>2. h[m] = Cardinality(kSubset(m, 1..n))
        BY <1>1, <3>1
      <4> HIDE DEF h
      <4> QED
        BY <3>4, <4>1, <4>2, CountOfTwo
    <3>6. \A y \in (0..m-1) \union {m} : h[y] \in Int
      BY <1>1, <3>1
    <3>7. h[m] \in Nat /\ Cardinality(Small(n, m - 1)) \in Nat
      BY <1>1, <1>2, <3>1, FS_CardinalityType
    <3> HIDE DEF h
    <3>8. SumFunctionOnSet(h, (0..m-1) \union {m}) = h[m] + SumFunctionOnSet(h, 0..m-1)
      BY <3>3, <3>6, SumAdd
    <3>9. SumFunctionOnSet(h, 0..m) = h[m] + SumFunctionOnSet(h, 0..m-1)
      BY <3>3, <3>8
    <3>10. SumFunctionOnSet(h, 0..m-1) = Cardinality(Small(n, m - 1))
      BY <3>2
    <3>11. SumFunctionOnSet(h, 0..m) = Cardinality(Small(n, m))
      BY <3>5, <3>7, <3>9, <3>10
    <3> QED
      BY <2>3, <3>11
  <2> QED
    BY <2>3, <2>4, <2>5
<1>4. Right(t)
  BY <1>3
<1> QED
  BY <1>4 DEF SumFunction

\* The complement of the complement is the set.
LEMMA Complement ==
  ASSUME NEW A, NEW S \in SUBSET A
  PROVE  A \ S \in SUBSET A /\ A \ (A \ S) = S
OBVIOUS

\* The complement turns small subsets into large ones.
LEMMA AsManyLarge ==
  ASSUME NEW n \in Nat, NEW t \in Nat
  PROVE  /\ IsFiniteSet(Small(n, t)) /\ IsFiniteSet(Large(n, t))
         /\ Cardinality(Small(n, t)) = Cardinality(Large(n, t))
         /\ Cardinality(Small(n, t)) \in Nat
<1> DEFINE f == [S \in Small(n, t) |-> (1..n) \ S]
<1>1. IsFiniteSet(Small(n, t)) /\ IsFiniteSet(Large(n, t))
  BY SubsetsAreFinite, FS_Subset DEF Small, Large
<1>2. ASSUME NEW S \in SUBSET (1..n)
      PROVE  /\ (1..n) \ S \in SUBSET (1..n) /\ (1..n) \ ((1..n) \ S) = S
             /\ S \in Small(n, t) <=> (1..n) \ S \in Large(n, t)
  <2> DEFINE U == 1..n
             C == U \ S
  <2>1. \A R \in SUBSET U : Cardinality(R) \in 0..n /\ Cardinality(U \ R) = n - Cardinality(R)
    BY SubsetsAreFinite
  <2>2. S \in SUBSET U /\ U = 1..n /\ C = (1..n) \ S
    OBVIOUS
  <2> HIDE DEF U
  <2>3. C \in SUBSET U /\ U \ C = S
    BY <2>2, Complement
  <2>4. Cardinality(S) \in 0..n /\ Cardinality(C) = n - Cardinality(S)
    BY <2>1, <2>2
  <2>5. n - Cardinality(C) = Cardinality(S)
    BY <2>4
  <2> QED
    <3>1. S \in Small(n, t) <=> Cardinality(S) <= t
      BY <2>2 DEF Small
    <3>2. C \in Large(n, t) <=> n - Cardinality(C) <= t
      BY <2>2, <2>3 DEF Large
    <3> HIDE DEF C
    <3> QED
      BY <2>2, <2>3, <2>5, <3>1, <3>2
<1>3. f \in [Small(n, t) -> Large(n, t)]
  BY <1>2 DEF Small
<1>4. \A S, R \in Small(n, t) : f[S] = f[R] => S = R
  BY <1>2 DEF Small
<1>5. \A L \in Large(n, t) : \E S \in Small(n, t) : f[S] = L
  <2> SUFFICES ASSUME NEW L \in Large(n, t) PROVE \E S \in Small(n, t) : f[S] = L
    OBVIOUS
  <2>1. L \in SUBSET (1..n) /\ (1..n) \ L \in SUBSET (1..n) /\ (1..n) \ ((1..n) \ L) = L
    BY <1>2 DEF Large
  <2>2. (1..n) \ L \in Small(n, t)
    BY <1>2, <2>1
  <2> QED
    BY <2>1, <2>2
<1>6. f \in Bijection(Small(n, t), Large(n, t))
  BY <1>3, <1>4, <1>5 DEF Bijection, Injection, Surjection, IsInjective
<1>7. ExistsBijection(Small(n, t), Large(n, t))
  BY <1>6 DEF ExistsBijection
<1> QED
  BY <1>1, <1>7, FS_Bijection, FS_CardinalityType

\* mcnemar_exact_p is the share of the calls that are at least as uneven.
LEMMA ExactTest ==
  ASSUME NEW a \in Nat, NEW b \in Nat, a + b > 0
  PROVE  LET n == a + b
             uneven(S) == Min({Cardinality(S), n - Cardinality(S)}) <= Min({a, b})
         IN  McNemarExactP(a, b) = Fraction(Cardinality({S \in SUBSET (1..n) : uneven(S)}), 2 ^ n)
<1> DEFINE n == a + b
           t == Min({a, b})
           small == Small(n, t)
           large == Large(n, t)
           uneven == {S \in SUBSET (1..n) : Min({Cardinality(S), n - Cardinality(S)}) <= t}
           sum == SumFunction([k \in 0..t |-> Ways(n, k)])
<1>1. n \in Nat /\ n # 0 /\ t \in Nat /\ t = (IF a <= b THEN a ELSE b)
  BY LeastOfTwo
<1>2. sum = Cardinality(small)
  BY <1>1, WaysAddUp
<1>3. /\ IsFiniteSet(small) /\ IsFiniteSet(large) /\ Cardinality(small) = Cardinality(large)
      /\ Cardinality(small) \in Nat
  BY <1>1, AsManyLarge
<1>4. uneven = small \union large
  <2> SUFFICES ASSUME NEW S \in SUBSET (1..n)
               PROVE  Min({Cardinality(S), n - Cardinality(S)}) <= t
                        <=> Cardinality(S) <= t \/ n - Cardinality(S) <= t
    BY DEF Small, Large
  <2>1. Cardinality(S) \in 0..n
    BY <1>1, SubsetsAreFinite
  <2>2. Min({Cardinality(S), n - Cardinality(S)})
          = IF Cardinality(S) <= n - Cardinality(S) THEN Cardinality(S) ELSE n - Cardinality(S)
    BY <1>1, <2>1, LeastOfTwo
  <2> HIDE DEF n, t
  <2> QED
    BY <1>1, <2>1, <2>2
<1>5. Cardinality(uneven) = Min({2 ^ n, 2 * sum})
  <2>1. IsFiniteSet(SUBSET (1..n)) /\ Cardinality(SUBSET (1..n)) = 2 ^ n /\ 2 ^ n \in Nat
    BY <1>1, SubsetsAreFinite, FS_CardinalityType
  <2>2. small \union large \subseteq SUBSET (1..n)
    BY DEF Small, Large
  <2>3. Cardinality(small \union large) <= 2 ^ n
    <3> DEFINE all == SUBSET (1..n)
               both == small \union large
    <3>1. both \in SUBSET all /\ IsFiniteSet(all) /\ Cardinality(all) = 2 ^ n
      BY <2>1, <2>2
    <3> HIDE DEF all, both
    <3>2. Cardinality(both) <= Cardinality(all)
      BY <3>1, FS_Subset
    <3> QED
      BY <3>1, <3>2 DEF both
  <2>4. Min({2 ^ n, 2 * sum}) = IF 2 ^ n <= 2 * sum THEN 2 ^ n ELSE 2 * sum
    BY <1>2, <1>3, <2>1, LeastOfTwo
  <2>5. Cardinality(small \union large)
          = Cardinality(small) + Cardinality(large) - Cardinality(small \intersect large)
        /\ Cardinality(small \intersect large) \in Nat
    BY <1>3, FS_Union, FS_Subset, FS_CardinalityType
  <2>6. CASE 2 * t < n
    <3>1. small \intersect large = {}
      <4> SUFFICES ASSUME NEW S \in SUBSET (1..n), Cardinality(S) <= t, n - Cardinality(S) <= t
                   PROVE  FALSE
        BY DEF Small, Large
      <4>1. Cardinality(S) \in 0..n
        BY <1>1, SubsetsAreFinite
      <4> HIDE DEF n, t
      <4> QED
        BY <1>1, <2>6, <4>1
    <3>2. Cardinality(small \intersect large) = 0
      BY <3>1, FS_EmptySet
    <3> HIDE DEF n, t, small, large, sum, uneven
    <3> QED
      BY <1>2, <1>3, <1>4, <2>1, <2>3, <2>4, <2>5, <3>2
  <2>7. CASE 2 * t = n
    <3>1. small \union large = SUBSET (1..n)
      <4> SUFFICES ASSUME NEW S \in SUBSET (1..n)
                   PROVE  Cardinality(S) <= t \/ n - Cardinality(S) <= t
        BY DEF Small, Large
      <4>1. Cardinality(S) \in 0..n
        BY <1>1, SubsetsAreFinite
      <4> HIDE DEF n, t
      <4> QED
        BY <1>1, <2>7, <4>1
    <3>2. Cardinality(small \union large) = 2 ^ n
      BY <2>1, <3>1
    <3> HIDE DEF n, t, small, large, sum, uneven
    <3> QED
      BY <1>2, <1>3, <1>4, <2>1, <2>4, <2>5, <3>2
  <2> QED
    BY <1>1, <2>6, <2>7
<1>6. McNemarExactP(a, b) = Fraction(Min({2 ^ n, 2 * sum}), 2 ^ n)
  BY <1>1 DEF McNemarExactP
<1> QED
  BY <1>5, <1>6

\* Fractions are ordered by what they are worth.
IsNumber(p) == p.num \in Int /\ p.den \in Int /\ p.den > 0

\* A product with a positive factor keeps the order.
LEMMA Larger ==
  ASSUME NEW x \in Int, NEW y \in Int, NEW z \in Int, z > 0
  PROVE  x * z <= y * z <=> x <= y
<1>1. CASE x <= y
  <2>1. (y - x) * z >= 0
    BY <1>1
  <2>2. (y - x) * z = y * z - x * z
    OBVIOUS
  <2> QED
    BY <1>1, <2>1, <2>2
<1>2. CASE y < x
  <2>1. (x - y) * z > 0
    BY <1>2
  <2>2. (x - y) * z = x * z - y * z
    OBVIOUS
  <2> QED
    BY <1>2, <2>1, <2>2
<1> QED
  BY <1>1, <1>2

\* The products that compare fractions may be cancelled.
LEMMA Crosswise ==
  ASSUME NEW a \in Int, NEW b \in Int, NEW c \in Int, NEW d \in Int, NEW e \in Int, NEW f \in Int,
         b > 0, d > 0, f > 0, a * d <= c * b, c * f <= e * d
  PROVE  a * f <= e * b
<1>1. (a * d) * f <= (c * b) * f
  BY Larger, a * d \in Int, c * b \in Int
<1>2. (c * f) * b <= (e * d) * b
  BY Larger, c * f \in Int, e * d \in Int
<1>3. /\ (a * d) * f = (a * f) * d /\ (c * b) * f = (c * f) * b /\ (e * d) * b = (e * b) * d
      /\ (a * f) * d \in Int /\ (c * f) * b \in Int /\ (e * b) * d \in Int
  OBVIOUS
<1>4. (a * f) * d <= (e * b) * d
  BY <1>1, <1>2, <1>3
<1> QED
  BY <1>4, Larger, a * f \in Int, e * b \in Int

\* Any two fractions are ordered, a fraction is at most itself, and the order is transitive.
LEMMA FractionsAreOrdered ==
  ASSUME NEW p, IsNumber(p), NEW q, IsNumber(q)
  PROVE  /\ FractionAtMost(p, p)
         /\ FractionAtMost(p, q) \/ FractionAtMost(q, p)
         /\ \A r : IsNumber(r) /\ FractionAtMost(p, q) /\ FractionAtMost(q, r) => FractionAtMost(p, r)
<1>1. FractionAtMost(p, p) /\ (FractionAtMost(p, q) \/ FractionAtMost(q, p))
  <2>1. p.num * q.den \in Int /\ q.num * p.den \in Int /\ p.num * p.den \in Int
    BY DEF IsNumber
  <2> QED
    BY <2>1 DEF FractionAtMost
<1>2. ASSUME NEW r, IsNumber(r), FractionAtMost(p, q), FractionAtMost(q, r)
      PROVE  FractionAtMost(p, r)
  <2>1. /\ p.num \in Int /\ p.den \in Int /\ p.den > 0
        /\ q.num \in Int /\ q.den \in Int /\ q.den > 0
        /\ r.num \in Int /\ r.den \in Int /\ r.den > 0
    BY <1>2 DEF IsNumber
  <2>2. p.num * q.den <= q.num * p.den /\ q.num * r.den <= r.num * q.den
    BY <1>2 DEF FractionAtMost
  <2>3. p.num * r.den <= r.num * p.den
    BY <2>1, <2>2, Crosswise
  <2> QED
    BY <2>3 DEF FractionAtMost
<1> QED
  BY <1>1, <1>2

\* The means drawn are numbers.
MeansAreNumbers ==
  /\ Len(means) \in Nat /\ DOMAIN means = 1..Len(means)
  /\ \A i \in DOMAIN means : IsNumber(means[i])
Count(i) == Cardinality(NotLarger(means[i]))

\* The means below one, and those up to one, are counted.
LEMMA MeansCounted ==
  ASSUME MeansAreNumbers
  PROVE  /\ IsFiniteSet(DOMAIN means) /\ Cardinality(DOMAIN means) = Len(means)
         /\ \A i \in DOMAIN means :
              /\ IsFiniteSet(NotLarger(means[i])) /\ IsFiniteSet(Smaller(means[i]))
              /\ Count(i) \in Nat /\ Cardinality(Smaller(means[i])) \in Nat
<1>1. IsFiniteSet(DOMAIN means) /\ Cardinality(DOMAIN means) = Len(means)
  BY FS_Interval DEF MeansAreNumbers
<1>2. ASSUME NEW i \in DOMAIN means
      PROVE  /\ IsFiniteSet(NotLarger(means[i])) /\ IsFiniteSet(Smaller(means[i]))
             /\ Count(i) \in Nat /\ Cardinality(Smaller(means[i])) \in Nat
  <2>1. NotLarger(means[i]) \subseteq DOMAIN means /\ Smaller(means[i]) \subseteq DOMAIN means
    BY DEF NotLarger, Smaller
  <2>2. IsFiniteSet(NotLarger(means[i])) /\ IsFiniteSet(Smaller(means[i]))
    BY <1>1, <2>1, FS_Subset
  <2> QED
    BY <2>2, FS_CardinalityType DEF Count
<1> QED
  BY <1>1, <1>2

\* A larger mean has more that are not larger.
LEMMA LargerCountsMore ==
  ASSUME MeansAreNumbers, NEW i \in DOMAIN means, NEW k \in DOMAIN means,
         ~FractionAtMost(means[i], means[k])
  PROVE  Count(k) < Count(i)
<1>1. IsNumber(means[i]) /\ IsNumber(means[k])
  BY DEF MeansAreNumbers
<1>2. FractionAtMost(means[k], means[i]) /\ FractionAtMost(means[i], means[i])
  BY <1>1, FractionsAreOrdered
<1>3. i \in NotLarger(means[i]) /\ i \notin NotLarger(means[k])
  BY <1>2 DEF NotLarger
<1>4. NotLarger(means[k]) \subseteq NotLarger(means[i])
  <2> SUFFICES ASSUME NEW j \in NotLarger(means[k]) PROVE j \in NotLarger(means[i])
    OBVIOUS
  <2>1. j \in DOMAIN means /\ IsNumber(means[j]) /\ FractionAtMost(means[j], means[k])
    BY DEF NotLarger, MeansAreNumbers
  <2>2. FractionAtMost(means[j], means[i])
    BY <1>1, <1>2, <2>1, FractionsAreOrdered
  <2> QED
    BY <2>1, <2>2 DEF NotLarger
<1>5. IsFiniteSet(NotLarger(means[i])) /\ Count(i) \in Nat /\ Count(k) \in Nat
  BY MeansCounted
<1> DEFINE more == NotLarger(means[i])
           less == NotLarger(means[k])
<1>6. less \subseteq more \ {i} /\ i \in more
  BY <1>3, <1>4
<1>7. Count(i) = Cardinality(more) /\ Count(k) = Cardinality(less) /\ IsFiniteSet(more)
  BY <1>5 DEF Count
<1> HIDE DEF more, less
<1>8. IsFiniteSet(more \ {i}) /\ Cardinality(more \ {i}) = Cardinality(more) - 1
  BY <1>6, <1>7, FS_RemoveElement
<1>9. Cardinality(less) <= Cardinality(more \ {i})
  BY <1>6, <1>8, FS_Subset
<1> QED
  BY <1>5, <1>7, <1>8, <1>9

\* Of some means there is one that none of them is larger than.
LEMMA LargestMean ==
  ASSUME MeansAreNumbers, NEW T \in SUBSET (DOMAIN means), T # {}
  PROVE  \E k \in T : T \subseteq NotLarger(means[k])
<1> DEFINE count == [i \in T |-> Count(i)]
<1>1. IsFiniteSet(T)
  BY MeansCounted, FS_Subset
<1>2. \A i \in T : count[i] = Count(i) /\ count[i] \in Int
  BY MeansCounted
<1> HIDE DEF count
<1>3. PICK k \in T : \A i \in T : count[i] <= count[k]
  BY <1>1, <1>2, LargestExists
<1>4. ASSUME NEW i \in T PROVE FractionAtMost(means[i], means[k])
  <2> SUFFICES ASSUME ~FractionAtMost(means[i], means[k]) PROVE FALSE
    OBVIOUS
  <2>1. Count(k) < Count(i)
    BY LargerCountsMore
  <2> QED
    BY <1>2, <1>3, <2>1
<1> QED
  BY <1>4 DEF NotLarger

\* Every place of the sorted list is somebody's.
LEMMA PlaceTaken ==
  ASSUME MeansAreNumbers, NEW place \in Nat, place < Len(means)
  PROVE  \E i \in DOMAIN means : IsAt(means[i], place)
<1> DEFINE D == DOMAIN means
           Beyond == {i \in D : place < Count(i)}
           Counts == {Count(i) : i \in Beyond}
<1>1. D # {} /\ IsFiniteSet(D) /\ Cardinality(D) = Len(means) /\ Len(means) \in Nat
  <2>1. D = 1..Len(means) /\ Len(means) \in Nat
    BY DEF MeansAreNumbers
  <2>2. 1 \in D
    BY <2>1
  <2> QED
    BY <2>1, <2>2, MeansCounted
<1>2. Beyond # {}
  <2>1. PICK k \in D : D \subseteq NotLarger(means[k])
    BY <1>1, LargestMean
  <2>2. IsFiniteSet(NotLarger(means[k])) /\ Count(k) \in Nat
    BY MeansCounted
  <2>3. Cardinality(D) <= Count(k)
    BY <2>1, <2>2, FS_Subset DEF Count
  <2> QED
    BY <1>1, <2>2, <2>3
<1>3. Counts \in SUBSET Nat /\ Counts # {}
  BY <1>2, MeansCounted
<1>4. PICK least \in Counts : \A m \in Counts : least <= m
  BY <1>3, LeastNumber
<1>5. PICK i \in Beyond : Count(i) = least
  BY <1>4
<1>6. i \in D /\ place < Count(i) /\ Count(i) \in Nat /\ \A j \in Beyond : Count(i) <= Count(j)
  BY <1>4, <1>5, MeansCounted
<1> DEFINE T == Smaller(means[i])
<1>7. IsFiniteSet(T) /\ Cardinality(T) \in Nat /\ T \subseteq D
  BY <1>6, MeansCounted DEF Smaller
<1>8. Cardinality(T) <= place
  <2> SUFFICES ASSUME place < Cardinality(T) PROVE FALSE
    BY <1>7
  <2>1. T # {}
    BY <1>7, FS_EmptySet
  <2>2. PICK k \in T : T \subseteq NotLarger(means[k])
    BY <1>7, <2>1, LargestMean
  <2>3. k \in D /\ ~FractionAtMost(means[i], means[k])
    BY <1>7, <2>2 DEF Smaller
  <2>4. Count(k) < Count(i)
    BY <1>6, <2>3, LargerCountsMore
  <2>5. IsFiniteSet(NotLarger(means[k])) /\ Count(k) \in Nat
    BY <2>3, MeansCounted
  <2>6. Cardinality(T) <= Count(k)
    BY <2>2, <2>5, FS_Subset DEF Count
  <2>7. k \in Beyond
    BY <1>7, <2>3, <2>5, <2>6
  <2> QED
    BY <1>6, <2>4, <2>5, <2>7
<1> QED
  BY <1>6, <1>8 DEF IsAt, Count

\* Earlier places have means that are not larger.
LEMMA PlacesInOrder ==
  ASSUME MeansAreNumbers, NEW i \in DOMAIN means, NEW k \in DOMAIN means,
         NEW a \in Nat, NEW b \in Nat, a <= b, IsAt(means[i], a), IsAt(means[k], b)
  PROVE  FractionAtMost(means[i], means[k])
<1> SUFFICES ASSUME ~FractionAtMost(means[i], means[k]) PROVE FALSE
  OBVIOUS
<1>1. IsNumber(means[i]) /\ IsNumber(means[k])
  BY DEF MeansAreNumbers
<1>2. NotLarger(means[k]) \subseteq Smaller(means[i])
  <2> SUFFICES ASSUME NEW j \in NotLarger(means[k]), FractionAtMost(means[i], means[j]) PROVE FALSE
    BY DEF NotLarger, Smaller
  <2>1. j \in DOMAIN means /\ IsNumber(means[j]) /\ FractionAtMost(means[j], means[k])
    BY DEF NotLarger, MeansAreNumbers
  <2> QED
    BY <1>1, <2>1, FractionsAreOrdered
<1>3. /\ IsFiniteSet(Smaller(means[i])) /\ Cardinality(Smaller(means[i])) \in Nat
      /\ Cardinality(NotLarger(means[k])) \in Nat
  BY MeansCounted DEF Count
<1>4. Cardinality(NotLarger(means[k])) <= Cardinality(Smaller(means[i]))
  BY <1>2, <1>3, FS_Subset
<1> QED
  BY <1>3, <1>4 DEF IsAt

\* round() keeps the order.
LEMMA RoundedInOrder ==
  ASSUME NEW a \in Int, NEW b \in Int, a <= b
  PROVE  Rounded(a, 1000) \in Int /\ Rounded(a, 1000) <= Rounded(b, 1000)
<1> DEFINE q == a \div 1000
           r == a % 1000
           s == b \div 1000
           t == b % 1000
           odd(n) == n % 2 = 1
           x == Rounded(a, 1000)
           y == Rounded(b, 1000)
<1>1. q \in Int /\ r \in 0..999 /\ a = 1000 * q + r
  BY DivMod
<1>2. s \in Int /\ t \in 0..999 /\ b = 1000 * s + t
  BY DivMod
<1>3. /\ x = IF 2 * r > 1000 \/ (2 * r = 1000 /\ odd(q)) THEN q + 1 ELSE q
      /\ y = IF 2 * t > 1000 \/ (2 * t = 1000 /\ odd(s)) THEN s + 1 ELSE s
  BY DEF Rounded
<1> HIDE DEF q, r, s, t, odd, x, y
<1>4. q < s \/ (q = s /\ r <= t)
  BY <1>1, <1>2
<1>5. x \in {q, q + 1} /\ y \in {s, s + 1}
  BY <1>3
<1>6. CASE q < s
  BY <1>1, <1>2, <1>5, <1>6 DEF x, y
<1>7. CASE q = s /\ r <= t
  <2>1. x <= y
    BY <1>1, <1>2, <1>3, <1>7
  <2> QED
    BY <1>1, <1>5, <2>1 DEF x, y
<1> QED
  BY <1>4, <1>6, <1>7

\* The places of the interval's ends.
LEMMA PlacesAre ==
  ASSUME Len(means) \in Nat, Len(means) > 0
  PROVE  /\ PlaceOf(25) \in Nat /\ PlaceOf(25) < Len(means)
         /\ PlaceOf(975) \in Nat /\ PlaceOf(975) < Len(means)
         /\ PlaceOf(25) <= PlaceOf(975)
<1> DEFINE last == Len(means) - 1
           low == Rounded(25 * last, 1000)
           high == Rounded(975 * last, 1000)
           lowest == Max({0, low})
           highest == Max({0, high})
<1>1. last \in Nat /\ 25 * last \in Int /\ 975 * last \in Int /\ 25 * last <= 975 * last
      /\ Len(means) = last + 1
  OBVIOUS
<1>2. low \in Int /\ high \in Int /\ low <= high
  BY <1>1, RoundedInOrder
<1>3. PlaceOf(25) = Min({last, lowest}) /\ PlaceOf(975) = Min({last, highest})
  BY DEF PlaceOf
<1> HIDE DEF last, low, high
<1>4. lowest = (IF 0 >= low THEN 0 ELSE low) /\ highest = (IF 0 >= high THEN 0 ELSE high)
  BY <1>2, LeastOfTwo, 0 \in Int
<1>5. lowest \in Nat /\ highest \in Nat /\ lowest <= highest
  BY <1>2, <1>4
<1> HIDE DEF lowest, highest
<1>6. /\ Min({last, lowest}) = IF last <= lowest THEN last ELSE lowest
      /\ Min({last, highest}) = IF last <= highest THEN last ELSE highest
  BY <1>1, <1>5, LeastOfTwo
<1> QED
  BY <1>1, <1>3, <1>5, <1>6

\* The interval is one, and its ends are means that were drawn.
LEMMA IntervalIs ==
  ASSUME MeansAreNumbers, Len(means) > 0
  PROVE  /\ FractionAtMost(Low, High)
         /\ \E j \in DOMAIN means : Low = means[j]
         /\ \E j \in DOMAIN means : High = means[j]
<1> DEFINE i == CHOOSE j \in DOMAIN means : IsAt(means[j], PlaceOf(25))
           k == CHOOSE j \in DOMAIN means : IsAt(means[j], PlaceOf(975))
<1>1. /\ PlaceOf(25) \in Nat /\ PlaceOf(25) < Len(means)
      /\ PlaceOf(975) \in Nat /\ PlaceOf(975) < Len(means)
      /\ PlaceOf(25) <= PlaceOf(975)
  BY PlacesAre DEF MeansAreNumbers
<1>2. i \in DOMAIN means /\ IsAt(means[i], PlaceOf(25))
  BY <1>1, PlaceTaken
<1>3. k \in DOMAIN means /\ IsAt(means[k], PlaceOf(975))
  BY <1>1, PlaceTaken
<1>4. Low = means[i] /\ High = means[k]
  BY DEF Low, High, Percentile
<1> HIDE DEF i, k
<1>5. FractionAtMost(means[i], means[k])
  BY <1>1, <1>2, <1>3, PlacesInOrder
<1> QED
  BY <1>2, <1>3, <1>4, <1>5

\* Sums keep the order of what is summed.
LEMMA SumInOrder ==
  ASSUME NEW S, IsFiniteSet(S), NEW f, NEW g, \A x \in S : f[x] \in Nat /\ g[x] \in Nat /\ f[x] <= g[x]
  PROVE  SumFunctionOnSet(f, S) <= SumFunctionOnSet(g, S) /\ SumFunctionOnSet(g, S) \in Nat
<1> DEFINE rest == [x \in S |-> g[x] - f[x]]
<1>1. \A x \in S : rest[x] = g[x] - f[x]
  OBVIOUS
<1> HIDE DEF rest
<1>2. \A x \in S : rest[x] \in Nat
  BY <1>1
<1>3. Linear(g, 1, f, rest, S)
  BY <1>1, <1>2 DEF Linear
<1>4. SumFunctionOnSet(g, S) = 1 * SumFunctionOnSet(f, S) + SumFunctionOnSet(rest, S)
  BY <1>3, SumLinear, 1 \in Int
<1>5. SumFunctionOnSet(rest, S) \in Nat /\ SumFunctionOnSet(f, S) \in Nat /\ SumFunctionOnSet(g, S) \in Nat
  BY <1>2, SumNat
<1> QED
  BY <1>4, <1>5

\* The tasks of some rows, and the rows of each.
LEMMA TasksAre ==
  ASSUME NEW some, RowsSound(some)
  PROVE  /\ IsFiniteSet(Complete(some)) /\ Complete(some) \subseteq DOMAIN pairs
         /\ \A i \in Complete(some) : Deltas[i] \in Int
         /\ IsFiniteSet(TasksOf(some)) /\ Cardinality(TasksOf(some)) \in Nat
         /\ \A k \in TasksOf(some) :
              /\ OfTask(some, k) \subseteq Complete(some)
              /\ Cardinality(OfTask(some, k)) \in Nat /\ Cardinality(OfTask(some, k)) >= 1
              /\ SumFunctionOnSet(Deltas, OfTask(some, k)) \in Int
<1> DEFINE C == Complete(some)
           taskOf == [i \in C |-> pairs[i].task]
<1>1. IsFiniteSet(C) /\ C \subseteq DOMAIN pairs
  BY FS_Subset DEF RowsSound, Complete
<1>2. ASSUME NEW i \in C PROVE Deltas[i] \in Int
  <2>1. RowIsSound(pairs[i]) /\ i \in DOMAIN pairs
    BY <1>1 DEF RowsSound, Complete
  <2>2. Deltas[i] = pairs[i].delta.reward
    BY <2>1 DEF Deltas
  <2> QED
    BY <2>1, <2>2 DEF RowIsSound
<1>3. IsFiniteSet(TasksOf(some)) /\ Cardinality(TasksOf(some)) \in Nat
  <2>1. TasksOf(some) = Image(taskOf, C)
    BY DEF TasksOf, Image
  <2>2. IsFiniteSet(Image(taskOf, C))
    BY <1>1, ImageFinite
  <2> QED
    BY <2>1, <2>2, FS_CardinalityType
<1>4. ASSUME NEW k \in TasksOf(some)
      PROVE  /\ OfTask(some, k) \subseteq C
             /\ Cardinality(OfTask(some, k)) \in Nat /\ Cardinality(OfTask(some, k)) >= 1
             /\ SumFunctionOnSet(Deltas, OfTask(some, k)) \in Int
  <2>1. OfTask(some, k) \subseteq C /\ OfTask(some, k) # {}
    BY DEF OfTask, TasksOf
  <2>2. IsFiniteSet(OfTask(some, k))
    BY <1>1, <2>1, FS_Subset
  <2>3. Cardinality(OfTask(some, k)) \in Nat /\ Cardinality(OfTask(some, k)) # 0
    BY <2>1, <2>2, FS_CardinalityType, FS_EmptySet
  <2>4. SumFunctionOnSet(Deltas, OfTask(some, k)) \in Int
    BY <1>2, <2>1, <2>2, SumType
  <2> QED
    BY <2>1, <2>3, <2>4
<1> QED
  BY <1>1, <1>2, <1>3, <1>4

\* A multiple is a number, and no smaller.
LEMMA TimesSome ==
  ASSUME NEW a \in Nat, NEW b \in Nat, b >= 1
  PROVE  a * b \in Nat /\ a <= a * b
<1>1. a * b - a = a * (b - 1) /\ a * (b - 1) >= 0
  OBVIOUS
<1> QED
  BY <1>1

\* A drawn mean is a number, and with a single task it is the mean of all.
LEMMA DrawnMean ==
  ASSUME NEW some, RowsSound(some), TasksOf(some) # {}, NEW drawn \in Resamples(some)
  PROVE  /\ IsNumber(ResampleMean(some, drawn))
         /\ Cardinality(TasksOf(some)) = 1 => ResampleMean(some, drawn) = TallyOf(some).meanDelta
<1> DEFINE T == TasksOf(some)
           n == Cardinality(T)
           many(k) == Cardinality(OfTask(some, k))
           gain(k) == SumFunctionOnSet(Deltas, OfTask(some, k))
           sizes == [k \in T |-> drawn[k] * many(k)]
           gains == [k \in T |-> drawn[k] * gain(k)]
           num == SumFunctionOnSet(gains, T)
           den == SumFunctionOnSet(sizes, T)
<1>1. /\ IsFiniteSet(T) /\ n \in Nat /\ n # 0
      /\ \A k \in T : many(k) \in Nat /\ many(k) >= 1 /\ gain(k) \in Int
  BY TasksAre, FS_EmptySet
<1>2. /\ drawn \in [T -> 0..n] /\ DOMAIN drawn = T
      /\ SumFunctionOnSet(drawn, T) = n
  BY DEF Resamples, SumFunction
<1>3. ASSUME NEW k \in T
      PROVE  /\ drawn[k] \in Nat /\ gains[k] = drawn[k] * gain(k) /\ gains[k] \in Int
             /\ sizes[k] = drawn[k] * many(k) /\ sizes[k] \in Nat /\ drawn[k] <= sizes[k]
  <2>1. drawn[k] \in Nat
    BY <1>1, <1>2
  <2>2. gains[k] = drawn[k] * gain(k) /\ sizes[k] = drawn[k] * many(k)
    OBVIOUS
  <2>3. many(k) \in Nat /\ many(k) >= 1 /\ gain(k) \in Int
    BY <1>1
  <2> HIDE DEF gains, sizes, many, gain
  <2>4. drawn[k] * many(k) \in Nat /\ drawn[k] <= drawn[k] * many(k)
    BY <2>1, <2>3, TimesSome
  <2>5. drawn[k] * gain(k) \in Int
    BY <2>1, <2>3
  <2> QED
    BY <2>1, <2>2, <2>4, <2>5
<1>4. ResampleMean(some, drawn) = Fraction(num, den)
  BY <1>2 DEF ResampleMean, SumFunction
<1> HIDE DEF T, n, many, gain, sizes, gains
<1>5. num \in Int
  BY <1>1, <1>3, SumType
<1>6. den \in Nat /\ n <= den
  BY <1>1, <1>2, <1>3, SumInOrder
<1>7. ResampleMean(some, drawn) = [num |-> num, den |-> den] /\ den > 0
  BY <1>1, <1>4, <1>6 DEF Fraction
<1>8. IsNumber(ResampleMean(some, drawn))
  BY <1>5, <1>6, <1>7 DEF IsNumber
<1>9. ASSUME n = 1
      PROVE  ResampleMean(some, drawn) = TallyOf(some).meanDelta
  <2>1. PICK k : T = {k}
    BY <1>1, <1>9, FS_Singleton DEF n
  <2>2. IsFiniteSet({}) /\ T = {} \union {k} /\ k \in T /\ k \notin {}
    BY <2>1, FS_EmptySet
  <2>3. /\ SumFunctionOnSet(drawn, T) = drawn[k] + SumFunctionOnSet(drawn, {})
        /\ SumFunctionOnSet(gains, T) = gains[k] + SumFunctionOnSet(gains, {})
        /\ SumFunctionOnSet(sizes, T) = sizes[k] + SumFunctionOnSet(sizes, {})
    <3>1. \A y \in {} \union {k} : drawn[y] \in Int /\ gains[y] \in Int /\ sizes[y] \in Int
      BY <1>3, <2>2
    <3> QED
      BY <2>2, <3>1, SumAdd
  <2>4. /\ SumFunctionOnSet(drawn, {}) = 0 /\ SumFunctionOnSet(gains, {}) = 0
        /\ SumFunctionOnSet(sizes, {}) = 0
    BY SumEmpty
  <2>5. drawn[k] = 1
    BY <1>2, <1>3, <1>9, <2>2, <2>3, <2>4
  <2>6. gain(k) \in Int /\ many(k) \in Int
    BY <1>1, <2>2
  <2>7. num = gain(k) /\ den = many(k)
    BY <1>3, <2>2, <2>3, <2>4, <2>5, <2>6
  <2>8. OfTask(some, k) = Complete(some)
    BY <2>1 DEF T, TasksOf, OfTask
  <2>9. /\ gain(k) = SumFunctionOnSet(Deltas, Complete(some))
        /\ many(k) = Cardinality(Complete(some))
    BY <2>8 DEF gain, many
  <2> HIDE DEF num, den
  <2>10. TallyOf(some).meanDelta = Fraction(num, den)
    BY <2>7, <2>9 DEF TallyOf
  <2> QED
    BY <1>4, <2>10
<1> QED
  BY <1>8, <1>9 DEF n, T

\* The trials of the job are scored.
ScoredInv ==
  /\ Len(scoredJob) \in Nat
  /\ \A k \in 1..Len(scoredJob) : IsScored(scoredJob[k])

\* Every row of the table is its trial's.
Rows == {PairRow(scoredJob[k]) : k \in 1..Len(scoredJob)}
TableInv ==
  /\ pairs \in Seq(Rows) /\ Len(pairs) <= Len(scoredJob)
  /\ \A i \in 1..Len(pairs) : pairs[i] = PairRow(scoredJob[i])

\* Every mean was drawn from the whole table.
Drawn == {ResampleMean(IntentionToTreat, drawn) : drawn \in Resamples(IntentionToTreat)}
MeansInv ==
  /\ scoring \in {"tables", "resampling", "done"}
  /\ means \in Seq(Drawn) /\ Len(means) <= Iterations
  /\ scoring = "tables" => means = <<>>
  /\ scoring = "resampling" => TasksOf(IntentionToTreat) # {} /\ Len(means) < Iterations
  /\ means # <<>> => TasksOf(IntentionToTreat) # {}

PairsInv == ScoredInv /\ TableInv /\ MeansInv

\* A job begins with its trials scored and nothing in the table.
LEMMA PairsStart == PairsInit => PairsInv
<1> SUFFICES ASSUME PairsInit PROVE PairsInv
  OBVIOUS
<1>1. /\ scoredJob \in ScoredJobs /\ pairs = <<>> /\ scoring = "tables" /\ means = <<>>
      /\ Iterations \in Nat \ {0}
  BY ScoredAssumption DEF PairsInit
<1>2. ScoredInv
  BY <1>1, ScoredAssumption DEF ScoredInv
<1>3. TableInv
  BY <1>1, <1>2 DEF TableInv, ScoredInv
<1>4. MeansInv
  BY <1>1 DEF MeansInv
<1> QED
  BY <1>2, <1>3, <1>4 DEF PairsInv

\* What the table and the job do not change, their readers do not.
LEMMA TableStays ==
  ASSUME UNCHANGED <<scoredJob, pairs>>
  PROVE  /\ Rows' = Rows /\ IntentionToTreat' = IntentionToTreat
         /\ TasksOf(IntentionToTreat)' = TasksOf(IntentionToTreat)
         /\ Drawn' = Drawn
         /\ ScoredInv => ScoredInv'
         /\ TableInv => TableInv'
<1>1. Rows' = Rows /\ IntentionToTreat' = IntentionToTreat /\ Deltas' = Deltas
  BY DEF Rows, IntentionToTreat, Deltas
<1>2. \A some : Complete(some)' = Complete(some)
  BY DEF Complete
<1>3. Complete(IntentionToTreat)' = Complete(IntentionToTreat)
  BY <1>1 DEF Complete
<1>4. TasksOf(IntentionToTreat)' = TasksOf(IntentionToTreat)
  BY <1>3 DEF TasksOf
<1>5. Drawn' = Drawn
  BY <1>1 DEF Drawn, Resamples, ResampleMean, TasksOf, OfTask, Complete
<1>6. (ScoredInv => ScoredInv') /\ (TableInv => TableInv')
  BY <1>1 DEF ScoredInv, TableInv
<1> QED
  BY <1>1, <1>4, <1>5, <1>6

\* A row, the end of the table and a resample keep the invariant.
LEMMA PairsStep == PairsInv /\ [PairsNext]_pairVars => PairsInv'
<1> SUFFICES ASSUME PairsInv, [PairsNext]_pairVars PROVE PairsInv'
  OBVIOUS
<1>0. ScoredInv /\ TableInv /\ MeansInv
  BY DEF PairsInv
<1>1. CASE AddPair
  <2>1. /\ scoring = "tables" /\ Len(pairs) < Len(scoredJob)
        /\ pairs' = Append(pairs, PairRow(scoredJob[Len(pairs) + 1]))
        /\ scoredJob' = scoredJob /\ scoring' = scoring /\ means' = means
    BY <1>1 DEF AddPair
  <2>2. ScoredInv'
    BY <1>0, <2>1 DEF ScoredInv
  <2>3. TableInv'
    <3>1. pairs \in Seq(Rows) /\ Len(pairs) \in Nat /\ Len(scoredJob) \in Nat
      BY <1>0 DEF TableInv, ScoredInv
    <3>2. PairRow(scoredJob[Len(pairs) + 1]) \in Rows
      BY <2>1, <3>1 DEF Rows
    <3>3. /\ pairs' \in Seq(Rows) /\ Len(pairs') = Len(pairs) + 1
          /\ \A i \in 1..Len(pairs) : pairs'[i] = pairs[i]
          /\ pairs'[Len(pairs) + 1] = PairRow(scoredJob[Len(pairs) + 1])
      BY <2>1, <3>1, <3>2, AppendIs
    <3>4. Rows' = Rows
      BY <2>1 DEF Rows
    <3>5. \A i \in 1..Len(pairs') : pairs'[i] = PairRow(scoredJob'[i])
      <4> SUFFICES ASSUME NEW i \in 1..Len(pairs') PROVE pairs'[i] = PairRow(scoredJob'[i])
        OBVIOUS
      <4>1. CASE i = Len(pairs) + 1
        BY <2>1, <3>3, <4>1
      <4>2. CASE i \in 1..Len(pairs)
        BY <1>0, <2>1, <3>3, <4>2 DEF TableInv
      <4> QED
        BY <3>1, <3>3, <4>1, <4>2
    <3>6. Len(pairs') <= Len(scoredJob')
      BY <2>1, <3>1, <3>3
    <3> QED
      BY <3>3, <3>4, <3>5, <3>6 DEF TableInv
  <2>4. MeansInv'
    BY <1>0, <2>1, ScoredAssumption DEF MeansInv
  <2> QED
    BY <2>2, <2>3, <2>4 DEF PairsInv
<1>2. CASE TablesDone
  <2>1. /\ scoring = "tables" /\ UNCHANGED <<scoredJob, pairs>> /\ means' = means
        /\ scoring' = IF TasksOf(IntentionToTreat) = {} THEN "done" ELSE "resampling"
    BY <1>2 DEF TablesDone
  <2>2. means = <<>> /\ Len(means) = 0 /\ Iterations \in Nat \ {0}
    BY <1>0, <2>1, ScoredAssumption DEF MeansInv
  <2>3. /\ TasksOf(IntentionToTreat)' = TasksOf(IntentionToTreat)
        /\ ScoredInv' /\ TableInv'
    BY <1>0, <2>1, TableStays
  <2>4. MeansInv'
    BY <2>1, <2>2, <2>3 DEF MeansInv
  <2> QED
    BY <2>3, <2>4 DEF PairsInv
<1>3. CASE Resample
  <2>1. PICK drawn \in Resamples(IntentionToTreat) :
          means' = Append(means, ResampleMean(IntentionToTreat, drawn))
    BY <1>3 DEF Resample
  <2>2. /\ scoring = "resampling" /\ UNCHANGED <<scoredJob, pairs>>
        /\ scoring' = IF Len(means') = Iterations THEN "done" ELSE "resampling"
    BY <1>3 DEF Resample
  <2>3. /\ TasksOf(IntentionToTreat)' = TasksOf(IntentionToTreat)
        /\ Drawn' = Drawn /\ ScoredInv' /\ TableInv'
    BY <1>0, <2>2, TableStays
  <2>4. /\ means \in Seq(Drawn) /\ Len(means) \in Nat /\ Len(means) < Iterations
        /\ TasksOf(IntentionToTreat) # {} /\ Iterations \in Nat
    BY <1>0, <2>2, ScoredAssumption DEF MeansInv
  <2>5. ResampleMean(IntentionToTreat, drawn) \in Drawn
    BY DEF Drawn
  <2>6. means' \in Seq(Drawn) /\ Len(means') = Len(means) + 1
    BY <2>1, <2>4, <2>5, AppendIs
  <2>7. /\ means' \in Seq(Drawn') /\ Len(means') <= Iterations /\ scoring' # "tables"
        /\ scoring' \in {"tables", "resampling", "done"}
        /\ scoring' = "resampling" => Len(means') < Iterations
    BY <2>2, <2>3, <2>4, <2>6
  <2>8. MeansInv'
    BY <2>2, <2>3, <2>4, <2>7 DEF MeansInv
  <2> QED
    BY <2>3, <2>8 DEF PairsInv
<1>4. CASE UNCHANGED pairVars
  <2>1. UNCHANGED <<scoredJob, pairs>> /\ means' = means /\ scoring' = scoring
    BY <1>4 DEF pairVars
  <2>2. /\ TasksOf(IntentionToTreat)' = TasksOf(IntentionToTreat)
        /\ Drawn' = Drawn /\ ScoredInv' /\ TableInv'
    BY <1>0, <2>1, TableStays
  <2>3. MeansInv'
    BY <1>0, <2>1, <2>2 DEF MeansInv
  <2> QED
    BY <2>2, <2>3 DEF PairsInv
<1> QED
  BY <1>1, <1>2, <1>3, <1>4 DEF PairsNext

\* The rows looked at are sound.
LEMMA RowsAreSound ==
  ASSUME PairsInv
  PROVE  RowsSound(IntentionToTreat) /\ RowsSound(CompletedProtocol)
<1>1. /\ Len(pairs) \in Nat /\ DOMAIN pairs = 1..Len(pairs) /\ Len(scoredJob) \in Nat
      /\ Len(pairs) <= Len(scoredJob)
  BY DEF PairsInv, TableInv, ScoredInv
<1>2. IsFiniteSet(DOMAIN pairs)
  BY <1>1, FS_Interval
<1>3. ASSUME NEW i \in DOMAIN pairs PROVE RowIsSound(pairs[i])
  <2>1. i \in 1..Len(scoredJob) /\ pairs[i] = PairRow(scoredJob[i])
    BY <1>1 DEF PairsInv, TableInv
  <2>2. IsScored(scoredJob[i])
    BY <2>1 DEF PairsInv, ScoredInv
  <2> QED
    BY <2>1, <2>2, RowSound
<1>4. IntentionToTreat \subseteq DOMAIN pairs /\ CompletedProtocol \subseteq DOMAIN pairs
  BY DEF IntentionToTreat, CompletedProtocol
<1>5. IsFiniteSet(IntentionToTreat) /\ IsFiniteSet(CompletedProtocol)
  BY <1>2, <1>4, FS_Subset
<1> QED
  BY <1>3, <1>4, <1>5 DEF RowsSound

\* What was drawn are numbers, with a single task all of them the mean.
LEMMA MeansAre ==
  ASSUME PairsInv
  PROVE  /\ MeansAreNumbers
         /\ Cardinality(TasksOf(IntentionToTreat)) = 1 =>
              \A i \in DOMAIN means : means[i] = TallyOf(IntentionToTreat).meanDelta
<1>1. /\ means \in Seq(Drawn)
      /\ means # <<>> => TasksOf(IntentionToTreat) # {}
  BY DEF PairsInv, MeansInv
<1>2. Len(means) \in Nat /\ DOMAIN means = 1..Len(means)
  BY <1>1
<1>3. ASSUME NEW i \in DOMAIN means
      PROVE  /\ IsNumber(means[i])
             /\ Cardinality(TasksOf(IntentionToTreat)) = 1 =>
                  means[i] = TallyOf(IntentionToTreat).meanDelta
  <2>1. means[i] \in Drawn /\ TasksOf(IntentionToTreat) # {}
    <3>1. Len(means) # 0
      BY <1>2
    <3>2. means # <<>>
      BY <3>1
    <3>3. means[i] \in Drawn
      BY <1>1, <1>2
    <3> QED
      BY <1>1, <3>2, <3>3
  <2>2. PICK drawn \in Resamples(IntentionToTreat) : means[i] = ResampleMean(IntentionToTreat, drawn)
    BY <2>1 DEF Drawn
  <2> QED
    BY <2>1, <2>2, RowsAreSound, DrawnMean
<1> QED
  BY <1>2, <1>3 DEF MeansAreNumbers

\* The types follow from the invariant.
LEMMA PairTypesFollow == PairsInv => PairsTypeOK
<1> SUFFICES ASSUME PairsInv PROVE PairsTypeOK
  OBVIOUS
<1>1. \A i \in DOMAIN means : means[i].den > 0
  BY MeansAre DEF MeansAreNumbers, IsNumber
<1> QED
  BY <1>1 DEF PairsInv, TableInv, MeansInv, PairsTypeOK

\* The invariant makes the statistics sound.
LEMMA StatisticsFollow == PairsInv => PairStatisticsSound
<1> SUFFICES ASSUME PairsInv PROVE PairStatisticsSound
  OBVIOUS
<1>1. TwoByTwo
  BY RowsAreSound, TallyAddsUp DEF TwoByTwo
<1>2. RevisionsAddUp
  <2> SUFFICES ASSUME NEW i \in DOMAIN pairs, SameScores(scoredJob[i])
               PROVE  pairs[i].delta.reward = SumFunction(pairs[i].revisions)
    BY DEF RevisionsAddUp
  <2>1. i \in 1..Len(scoredJob) /\ pairs[i] = PairRow(scoredJob[i])
    BY DEF PairsInv, TableInv, ScoredInv
  <2>2. IsScored(scoredJob[i])
    BY <2>1 DEF PairsInv, ScoredInv
  <2>3. PairRow(scoredJob[i]).delta.reward = SumFunction(PairRow(scoredJob[i]).revisions)
    BY <2>2, RowAddsUp
  <2> QED
    BY <2>1, <2>3
<1>3. IntervalSound
  <2> SUFFICES ASSUME means # <<>>
               PROVE  /\ FractionAtMost(Low, High)
                      /\ Cardinality(TasksOf(IntentionToTreat)) = 1 =>
                           LET mean == TallyOf(IntentionToTreat).meanDelta IN
                           /\ FractionAtMost(Low, mean) /\ FractionAtMost(mean, Low)
                           /\ FractionAtMost(High, mean) /\ FractionAtMost(mean, High)
    BY DEF IntervalSound
  <2>1. MeansAreNumbers
    BY MeansAre
  <2>2. Len(means) > 0
    BY DEF PairsInv, MeansInv
  <2>3. PICK i \in DOMAIN means : Low = means[i]
    BY <2>1, <2>2, IntervalIs
  <2>4. PICK k \in DOMAIN means : High = means[k]
    BY <2>1, <2>2, IntervalIs
  <2>5. FractionAtMost(Low, High)
    BY <2>1, <2>2, IntervalIs
  <2>6. ASSUME Cardinality(TasksOf(IntentionToTreat)) = 1
        PROVE  LET mean == TallyOf(IntentionToTreat).meanDelta IN
               /\ FractionAtMost(Low, mean) /\ FractionAtMost(mean, Low)
               /\ FractionAtMost(High, mean) /\ FractionAtMost(mean, High)
    <3> DEFINE mean == TallyOf(IntentionToTreat).meanDelta
    <3>1. Low = mean /\ High = mean
      BY <2>3, <2>4, <2>6, MeansAre
    <3>2. IsNumber(mean)
      BY <2>1, <2>3, <3>1 DEF MeansAreNumbers
    <3> HIDE DEF mean
    <3>3. FractionAtMost(mean, mean)
      BY <3>2, FractionsAreOrdered
    <3> QED
      BY <3>1, <3>3 DEF mean
  <2> QED
    BY <2>5, <2>6
<1>4. McNemarIsSignTest
  <2> DEFINE t == TallyOf(IntentionToTreat)
             C == Complete(IntentionToTreat)
  <2>1. t.improved = Cardinality(Classed(C, "improved")) /\ t.harmed = Cardinality(Classed(C, "harmed"))
    BY DEF TallyOf
  <2>2. IsFiniteSet(C)
    BY RowsAreSound, TasksAre
  <2>3. t.improved \in Nat /\ t.harmed \in Nat
    BY <2>1, <2>2, FS_Subset, FS_CardinalityType DEF Classed
  <2> HIDE DEF t
  <2> QED
    BY <2>3, ExactTest DEF McNemarIsSignTest, t
<1> QED
  BY <1>1, <1>2, <1>3, <1>4 DEF PairStatisticsSound

\* The invariant holds of every job.
LEMMA PairsInvariance == PairsSpec => []PairsInv
BY PairsStart, PairsStep, PTL DEF PairsSpec

\* For every job of scored trials and every number of resamples: the four cells of the pair
\* table are a partition and the means follow from them (_pair_stats), what a trial gained is
\* the sum of what its revisions did, the interval drawn is an interval, with a single task
\* around the mean itself (task_clustered_bootstrap_ci), and the p-value is the share of the
\* ways to call the discordant pairs that are at least as uneven (mcnemar_exact_p).
THEOREM PairStatisticsSoundHolds == PairsSpec => []PairStatisticsSound
BY PairsInvariance, StatisticsFollow, PTL

\* The types of the pair statistics: no mean is drawn of nothing.
THEOREM PairTypes == PairsSpec => []PairsTypeOK
BY PairsInvariance, PairTypesFollow, PTL

-----------------------------------------------------------------------------
(* Side by side (MCSequential): a behaviour is one of the programs while    *)
(* the others stand still, so it is a behaviour of each.                    *)

\* What runs is each of the programs, with steps of the others in between.
LEMMA EachRuns ==
  MCSpec => Spec /\ PlanSpec /\ TrailSpec /\ ReportSpec /\ PairsSpec /\ SelectSpec
<1>1. MCInit => Init /\ PlanInit /\ TrailInit /\ ReportInit /\ PairsInit /\ SelectInit
  BY DEF MCInit
<1>2. [MCNext]_allVars =>
        /\ [Next]_vars /\ [PlanNext]_planVars /\ [TrailNext]_trailVars
        /\ [ReportNext]_reportVars /\ [PairsNext]_pairVars /\ [SelectNext]_selectVars
  BY DEF MCNext, allVars
<1> QED
  BY <1>1, <1>2, PTL DEF MCSpec, Spec, PlanSpec, TrailSpec, ReportSpec, PairsSpec, SelectSpec

\* The types of all six programs together, as the run checks them.
THEOREM TypesOKHolds == MCSpec => []TypesOK
<1>1. PlanTypeOK /\ TypeOK /\ TrailTypeOK /\ ReportTypeOK /\ PairsTypeOK /\ SelectTypeOK => TypesOK
  BY DEF TypesOK
<1> QED
  BY <1>1, EachRuns, PlanningTypeOK, SingleTypes, TrailTypes, ReportTypes, PairTypes,
     SelectionTypeOK, PTL
==============================================================================
