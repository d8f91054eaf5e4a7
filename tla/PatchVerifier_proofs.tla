------------------------ MODULE PatchVerifier_proofs ------------------------
(***************************************************************************)
(* Proofs about PatchVerifier, for any number of attempts and any Pier     *)
(* installations.                                                          *)
(*                                                                         *)
(* NoBoxForgotten is inductive by itself.  RewardIsOwn is not: an answer   *)
(* is made from what was read, and what was read from the file as it was   *)
(* once the attempt had cleared the directory, where only the attempt and  *)
(* surviving containers write.                                             *)
(***************************************************************************)
EXTENDS PatchVerifier, TLAPS

\* An attempt in progress has a number.
AttemptInv == Busy => attempt # 0

Own == {attempt} \union survivors

\* Behind ClearDirs the file is nobody's or of a container that is known.
FileInv == pc \in {"uploading", "testing"} => file = NoFile \/ file.by \in Own

\* What verify() returned is still to be answered.
ReadInv == pc = "stopping" /\ ending = "returned" => read.by \in Own

TypeInv == TypeOK /\ AttemptInv
AnswerInv == FileInv /\ ReadInv /\ RewardIsOwn
IInv == TypeInv /\ NoBoxForgotten /\ AnswerInv

-----------------------------------------------------------------------------
LEMMA InitHolds == Init => IInv
<1> SUFFICES ASSUME Init PROVE IInv
  OBVIOUS
<1>1. TypeOK
  <2>1. NoFile \in RewardFile /\ NoAnswer \in Answer
    BY DEF NoFile, RewardFile, NoAnswer, Answer
  <2>2. 0 \in 0..MaxAttempts
    BY AttemptsAssumption
  <2> QED
    BY <2>1, <2>2 DEF Init, TypeOK, Points, Endings
<1>2. ~Busy /\ boxes = {} /\ answer.status = "none"
  BY DEF Init, Busy, NoAnswer
<1> QED
  BY <1>1, <1>2
     DEF Init, IInv, TypeInv, AttemptInv, AnswerInv, FileInv, ReadInv, RewardIsOwn,
         NoBoxForgotten, Busy

LEMMA BeginCounts == TypeInv /\ Begin => attempt' \in Attempts /\ attempt' # 0
BY AttemptsAssumption, SMT DEF TypeInv, TypeOK, Begin, Attempts

\* Every step keeps the types.
LEMMA StepType == TypeInv /\ [Next]_vars => TypeInv'
<1> SUFFICES ASSUME TypeInv, [Next]_vars PROVE TypeInv'
  OBVIOUS
<1> USE AttemptsAssumption
    DEF TypeInv, TypeOK, AttemptInv, Busy, InTry, Points, Attempts, RewardFile, Endings, Answer
<1>1. CASE CheckContract
  BY <1>1 DEF CheckContract
<1>2. CASE FailEarly
  <2>1. answer' \in Answer
    BY <1>2 DEF FailEarly
  <2>2. attempt' \in Attempts /\ attempt' # 0 /\ started' \in BOOLEAN /\ tested' \in BOOLEAN
    BY <1>2, BeginCounts DEF FailEarly, Begin
  <2> QED
    BY <1>2, <2>1, <2>2 DEF FailEarly
<1>3. CASE Call
  <2>1. answer' \in Answer /\ ending' \in Endings /\ pc' \in Points
    BY <1>3 DEF Call, NoAnswer
  <2>2. attempt' \in Attempts /\ attempt' # 0 /\ started' \in BOOLEAN /\ tested' \in BOOLEAN
    BY <1>3, BeginCounts DEF Call, Begin
  <2> QED
    BY <1>3, <2>1, <2>2 DEF Call
<1>4. CASE StartBox
  BY <1>4 DEF StartBox
<1>5. CASE ClearDirs
  BY <1>5 DEF ClearDirs, ClearedFile, NoFile
<1>6. CASE Upload
  BY <1>6 DEF Upload
<1>7. CASE ReadReward
  BY <1>7 DEF ReadReward, EndTry, AfterTry, NoFile
<1>8. CASE TimeLimit
  BY <1>8 DEF TimeLimit, EndTry, AfterTry
<1>9. CASE StopBox
  BY <1>9 DEF StopBox, Conclude, StatusOf
<1>10. CASE StopFails
  BY <1>10 DEF StopFails, Conclude, StatusOf
<1>11. CASE TestsEnd
  BY <1>11 DEF TestsEnd
<1>12. CASE StrayWrites
  <2>1. PICK b \in boxes : file' = [by |-> b, good |-> TRUE]
    BY <1>12 DEF StrayWrites
  <2>2. b \in Nat
    BY <2>1
  <2> QED
    BY <1>12, <2>1, <2>2 DEF StrayWrites
<1>13. CASE \E e \in {"error", "cancelled"} : CutShort(e)
  <2>1. attempt \in Attempts /\ attempt # 0 /\ pc' = "stopping" /\ ending' \in Endings
    BY <1>13 DEF CutShort, EndTry, AfterTry
  <2>2. boxes' = boxes \/ boxes' = boxes \union {attempt}
    BY <1>13 DEF CutShort
  <2>3. boxes' \subseteq Attempts
    <3> HIDE DEF Attempts
    <3> QED BY <2>1, <2>2
  <2>4. UNCHANGED <<pier, attempt, started, tested, file, answer, read, leaving, survivors>>
    BY <1>13 DEF CutShort
  <2> QED
    BY <2>1, <2>3, <2>4
<1>14. CASE CancelInStop
  BY <1>14 DEF CancelInStop
<1>15. CASE Kill
  BY <1>15 DEF Kill
<1>16. CASE \E b \in Attempts : LateStop(b)
  BY <1>16 DEF LateStop
<1>17. CASE UNCHANGED vars
  BY <1>17 DEF vars
<1> QED
  BY <1>1, <1>2, <1>3, <1>4, <1>5, <1>6, <1>7, <1>8, <1>9, <1>10, <1>11, <1>12, <1>13, <1>14, <1>15, <1>16, <1>17 DEF Next, Step

\* No step forgets a container.
LEMMA StepBoxes == TypeInv /\ NoBoxForgotten /\ [Next]_vars => NoBoxForgotten'
<1> SUFFICES ASSUME TypeInv /\ NoBoxForgotten, [Next]_vars PROVE NoBoxForgotten'
  OBVIOUS
<1> USE DEF TypeInv, TypeOK, NoBoxForgotten, Busy, InTry
<1>1. CASE CheckContract
  BY <1>1 DEF CheckContract
<1>2. CASE FailEarly
  BY <1>2 DEF FailEarly, Begin
<1>3. CASE Call
  BY <1>3 DEF Call, Begin, NoAnswer
<1>4. CASE StartBox
  BY <1>4 DEF StartBox
<1>5. CASE ClearDirs
  BY <1>5 DEF ClearDirs, ClearedFile, NoFile
<1>6. CASE Upload
  BY <1>6 DEF Upload
<1>7. CASE ReadReward
  BY <1>7 DEF ReadReward, EndTry, AfterTry, NoFile
<1>8. CASE TimeLimit
  BY <1>8 DEF TimeLimit, EndTry, AfterTry
<1>9. CASE StopBox
  BY <1>9 DEF StopBox, Conclude, StatusOf
<1>10. CASE StopFails
  BY <1>10 DEF StopFails, Conclude, StatusOf
<1>11. CASE TestsEnd
  BY <1>11 DEF TestsEnd
<1>12. CASE StrayWrites
  BY <1>12 DEF StrayWrites
<1>13. CASE \E e \in {"error", "cancelled"} : CutShort(e)
  BY <1>13 DEF CutShort, EndTry, AfterTry, InTry
<1>14. CASE CancelInStop
  BY <1>14 DEF CancelInStop
<1>15. CASE Kill
  BY <1>15 DEF Kill
<1>16. CASE \E b \in Attempts : LateStop(b)
  BY <1>16 DEF LateStop
<1>17. CASE UNCHANGED vars
  BY <1>17 DEF vars
<1> QED
  BY <1>1, <1>2, <1>3, <1>4, <1>5, <1>6, <1>7, <1>8, <1>9, <1>10, <1>11, <1>12, <1>13, <1>14, <1>15, <1>16, <1>17 DEF Next, Step

\* No step takes another attempt's file for this one's.
LEMMA StepAnswer == TypeInv /\ NoBoxForgotten /\ AnswerInv /\ [Next]_vars => AnswerInv'
<1> SUFFICES ASSUME TypeInv /\ NoBoxForgotten /\ AnswerInv, [Next]_vars PROVE AnswerInv'
  OBVIOUS
<1> USE AttemptsAssumption
    DEF TypeInv, TypeOK, NoBoxForgotten, AnswerInv, FileInv, ReadInv, RewardIsOwn, Own,
        Busy, InTry, Endings, RewardFile, Answer, Attempts
<1>1. CASE CheckContract
  BY <1>1 DEF CheckContract
<1>2. CASE FailEarly
  BY <1>2 DEF FailEarly, Begin
<1>3. CASE Call
  BY <1>3 DEF Call, Begin, NoAnswer
<1>4. CASE StartBox
  BY <1>4 DEF StartBox
<1>5. CASE ClearDirs
  BY <1>5 DEF ClearDirs, ClearedFile, NoFile
<1>6. CASE Upload
  BY <1>6 DEF Upload
<1>7. CASE ReadReward
  BY <1>7 DEF ReadReward, EndTry, AfterTry, NoFile
<1>8. CASE TimeLimit
  BY <1>8 DEF TimeLimit, EndTry, AfterTry
<1>9. CASE StopBox
  BY <1>9 DEF StopBox, Conclude, StatusOf
<1>10. CASE StopFails
  BY <1>10 DEF StopFails, Conclude, StatusOf
<1>11. CASE TestsEnd
  BY <1>11 DEF TestsEnd
<1>12. CASE StrayWrites
  BY <1>12 DEF StrayWrites
<1>13. CASE \E e \in {"error", "cancelled"} : CutShort(e)
  BY <1>13 DEF CutShort, EndTry, AfterTry, InTry
<1>14. CASE CancelInStop
  BY <1>14 DEF CancelInStop
<1>15. CASE Kill
  BY <1>15 DEF Kill
<1>16. CASE \E b \in Attempts : LateStop(b)
  BY <1>16 DEF LateStop
<1>17. CASE UNCHANGED vars
  BY <1>17 DEF vars
<1> QED
  BY <1>1, <1>2, <1>3, <1>4, <1>5, <1>6, <1>7, <1>8, <1>9, <1>10, <1>11, <1>12, <1>13, <1>14, <1>15, <1>16, <1>17 DEF Next, Step

-----------------------------------------------------------------------------
\* The inductive invariant holds for any number of attempts in one directory.
THEOREM VerifierInvariance == Spec => []IInv
<1>1. IInv /\ [Next]_vars => IInv'
  BY StepType, StepBoxes, StepAnswer DEF IInv
<1> QED
  BY InitHolds, <1>1, PTL DEF Spec

\* Every variable has its type in every reachable state.
THEOREM VerifierTypeOK == Spec => []TypeOK
<1>1. IInv => TypeOK
  BY DEF IInv, TypeInv
<1> QED
  BY VerifierInvariance, <1>1, PTL

\* verify_patch forgets no container: what runs on is the attempt in progress
\* or one whose stop failed, was abandoned or never came.
THEOREM NoBoxForgottenHolds == Spec => []NoBoxForgotten
<1>1. IInv => NoBoxForgotten
  BY DEF IInv
<1> QED
  BY VerifierInvariance, <1>1, PTL

\* A success answers with what this attempt's tests wrote, or a container
\* that is known to have survived its own attempt.
THEOREM RewardIsOwnHolds == Spec => []RewardIsOwn
<1>1. IInv => RewardIsOwn
  BY DEF IInv, AnswerInv
<1> QED
  BY VerifierInvariance, <1>1, PTL

=============================================================================
