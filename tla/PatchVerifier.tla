--------------------------- MODULE PatchVerifier ----------------------------
(***************************************************************************)
(* PierPatchVerifier of patch_verifier.py: the attempts to verify one      *)
(* patch, all of them in the same output directory.  An attempt starts a   *)
(* container whose verifier directory is bind-mounted from the output      *)
(* directory, empties that directory, uploads the patch, runs the tests    *)
(* under a time limit, and stops the container under a shield whatever     *)
(* happened.  Every await may throw, the caller may be cancelled at any    *)
(* await, the process may be killed, and a container whose stop failed     *)
(* goes on running.                                                        *)
(*                                                                         *)
(* PatchScoring takes one attempt to be a single answer; this module is    *)
(* why it may.                                                             *)
(***************************************************************************)
EXTENDS Naturals

CONSTANTS
    MaxAttempts,   \* bound on the attempts explored, those of later runs included
    Installed,     \* possible Pier installations: the versions of package and command, and
                   \* whether the package still has the signatures verify_patch relies on
    Pinned,        \* REQUIRED_PIER_VERSION
    NoVersion      \* a command that is absent or does not tell its version

ASSUME AttemptsAssumption == MaxAttempts \in Nat
ASSUME InstalledAssumption ==
    \A i \in Installed :
        i = [package |-> i.package, command |-> i.command, compatible |-> i.compatible]

Attempts == 1..MaxAttempts

VARIABLES
    pier,      \* the installation
    pc,        \* where verify_patch is
    attempt,   \* the attempt in progress, or the last one
    boxes,     \* attempts whose container runs
    started,   \* whether the tests of the attempt have been started
    tested,    \* whether the tests of the attempt have ended
    file,      \* the reward file of the output directory
    ending,    \* how the try block of _verify ended
    answer,    \* the record returned, or "cancelled"
    read,      \* the reward file verify() returned
    leaving,   \* containers whose stop goes on without anyone waiting for it
    survivors  \* history: attempts whose container outlived them

vars == <<pier, pc, attempt, boxes, started, tested, file, ending, answer, read, leaving, survivors>>

Points == {"unchecked", "refused", "idle", "starting", "clearing", "uploading",
           "testing", "stopping"}
NoFile == [by |-> 0, good |-> FALSE]
RewardFile == [by : Nat, good : BOOLEAN]
Endings == {"none", "returned", "malformed", "timeout", "error", "cancelled"}
NoAnswer == [status |-> "none", by |-> 0]
Answer == [status : {"none", "success", "timeout", "error", "cancelled"}, by : Nat]

Busy == pc \in {"starting", "clearing", "uploading", "testing", "stopping"}
InTry == pc \in {"starting", "clearing", "uploading", "testing"}

Init ==
    /\ pier \in Installed
    /\ pc = "unchecked"
    /\ attempt = 0
    /\ boxes = {}
    /\ started = FALSE /\ tested = FALSE
    /\ file = NoFile
    /\ ending = "none"
    /\ answer = NoAnswer
    /\ read = NoFile
    /\ leaving = {}
    /\ survivors = {}

\* check_pier_contract: the pinned package, no command of another version, and
\* every signature in place.
CheckContract ==
    /\ pc = "unchecked"
    /\ pc' = IF pier.package = Pinned /\ pier.command \in {Pinned, NoVersion}
                /\ pier.compatible
             THEN "idle" ELSE "refused"
    /\ UNCHANGED <<pier, attempt, boxes, started, tested, file, ending, answer, read, leaving, survivors>>

Begin ==
    /\ pc = "idle"
    /\ attempt < MaxAttempts
    /\ attempt' = attempt + 1
    /\ started' = FALSE /\ tested' = FALSE

\* The task, the directories, the copy of the patch or the environment object
\* cannot be made: the attempt fails before there is anything to stop.
FailEarly ==
    /\ Begin
    /\ answer' = [status |-> "error", by |-> 0]
    /\ UNCHANGED <<pier, pc, boxes, file, ending, read, leaving, survivors>>

Call ==
    /\ Begin
    /\ pc' = "starting"
    /\ ending' = "none"
    /\ answer' = NoAnswer
    /\ UNCHANGED <<pier, boxes, file, read, leaving, survivors>>

StartBox ==
    /\ pc = "starting"
    /\ boxes' = boxes \union {attempt}
    /\ pc' = "clearing"
    /\ UNCHANGED <<pier, attempt, started, tested, file, ending, answer, read, leaving, survivors>>

\* empty_dirs: the verifier directory is mounted, so this removes the file of
\* an earlier attempt.
ClearedFileMutant == file
ClearedFile == NoFile
ClearDirs ==
    /\ pc = "clearing"
    /\ file' = ClearedFile
    /\ pc' = "uploading"
    /\ UNCHANGED <<pier, attempt, boxes, started, tested, ending, answer, read, leaving, survivors>>

Upload ==
    /\ pc = "uploading"
    /\ pc' = "testing"
    /\ started' = TRUE
    /\ UNCHANGED <<pier, attempt, boxes, tested, file, ending, answer, read, leaving, survivors>>

\* The tests end, with a reward file or without; a file may be malformed.
TestsEnd ==
    /\ started /\ ~tested
    /\ attempt \in boxes
    /\ tested' = TRUE
    /\ \/ \E good \in BOOLEAN : file' = [by |-> attempt, good |-> good]
       \/ UNCHANGED file
    /\ UNCHANGED <<pier, pc, attempt, boxes, started, ending, answer, read, leaving, survivors>>

\* A container left behind finishes its own tests.
StrayWrites ==
    /\ \E b \in boxes \ {attempt} : file' = [by |-> b, good |-> TRUE]
    /\ UNCHANGED <<pier, pc, attempt, boxes, started, tested, ending, answer, read, leaving, survivors>>

\* The finally block stops the container however the try block ended.
AfterTryExceptMutant(e) == IF e = "cancelled" THEN "idle" ELSE "stopping"
AfterTry(e) == "stopping"

EndTry(e) ==
    /\ ending' = e
    /\ pc' = AfterTry(e)

\* verify() reads the reward file: without one it throws, and a result
\* without a canonical reward is an error once the container is stopped.
ReadReward ==
    /\ pc = "testing" /\ tested
    /\ EndTry(IF file = NoFile THEN "error" ELSE IF file.good THEN "returned" ELSE "malformed")
    /\ read' = file
    /\ UNCHANGED <<pier, attempt, boxes, started, tested, file, answer, leaving, survivors>>

NoTimeLimitMutant == FALSE
TimeLimit ==
    /\ pc = "testing"
    /\ EndTry("timeout")
    /\ UNCHANGED <<pier, attempt, boxes, started, tested, file, answer, read, leaving, survivors>>

\* An await of the try block throws, or the caller is cancelled there.  A
\* start that is cut short may have left a container behind.
CutShort(e) ==
    /\ InTry
    /\ EndTry(e)
    /\ \/ UNCHANGED boxes
       \/ pc = "starting" /\ boxes' = boxes \union {attempt}
    /\ UNCHANGED <<pier, attempt, started, tested, file, answer, read, leaving, survivors>>

\* The record of an attempt.
StatusOf(e) ==
    IF e = "returned" THEN "success" ELSE IF e = "malformed" THEN "error" ELSE e
Conclude ==
    /\ answer' = [status |-> StatusOf(ending),
                  by |-> IF ending = "returned" THEN read.by ELSE 0]
    /\ pc' = "idle"

StopBox ==
    /\ pc = "stopping"
    /\ boxes' = boxes \ {attempt}
    /\ Conclude
    /\ UNCHANGED <<pier, attempt, started, tested, file, ending, read, leaving, survivors>>

\* A stop that fails is logged and changes nothing else.
StopFails ==
    /\ pc = "stopping"
    /\ survivors' = survivors \union (boxes \intersect {attempt})
    /\ Conclude
    /\ UNCHANGED <<pier, attempt, boxes, started, tested, file, ending, read, leaving>>

\* The caller is cancelled while it waits for the stop: the shield lets the
\* stop go on, and the attempt is given up at once.
CancelInStop ==
    /\ pc = "stopping"
    /\ leaving' = leaving \union {attempt}
    /\ survivors' = survivors \union (boxes \intersect {attempt})
    /\ answer' = [status |-> "cancelled", by |-> 0]
    /\ pc' = "idle"
    /\ UNCHANGED <<pier, attempt, boxes, started, tested, file, ending, read>>

LateStop(b) ==
    /\ b \in leaving
    /\ leaving' = leaving \ {b}
    /\ boxes' \in {boxes, boxes \ {b}}
    /\ UNCHANGED <<pier, pc, attempt, started, tested, file, ending, answer, read, survivors>>

\* The process dies; the next one checks its installation again.
Kill ==
    /\ Busy
    /\ pc' = "unchecked"
    /\ answer' = [status |-> "cancelled", by |-> 0]
    /\ leaving' = {}
    /\ survivors' = survivors \union boxes
    /\ UNCHANGED <<pier, attempt, boxes, started, tested, file, ending, read>>

Step == StartBox \/ ClearDirs \/ Upload \/ ReadReward \/ TimeLimit \/ StopBox \/ StopFails

Next ==
    \/ CheckContract \/ FailEarly \/ Call
    \/ Step
    \/ TestsEnd \/ StrayWrites
    \/ CutShort("error") \/ CutShort("cancelled")
    \/ CancelInStop \/ Kill
    \/ \E b \in Attempts : LateStop(b)

Spec == Init /\ [][Next]_vars

\* The calls to the container runtime return or throw, and the event loop
\* fires the timer of wait_for.  Nothing is assumed of the tests.
FairSpec == Spec /\ WF_vars(Step)

-----------------------------------------------------------------------------
\* Every variable has its type.
TypeOK ==
    /\ pier \in Installed
    /\ pc \in Points
    /\ attempt \in 0..MaxAttempts
    /\ boxes \subseteq Attempts
    /\ started \in BOOLEAN /\ tested \in BOOLEAN
    /\ file \in RewardFile /\ read \in RewardFile
    /\ ending \in Endings
    /\ answer \in Answer
    /\ leaving \subseteq Attempts
    /\ survivors \subseteq Attempts

\* However an attempt ends, by an answer, an exception, the time limit or a
\* cancellation anywhere in the try block, its container is stopped: those
\* that run on are the ones whose stop itself failed or was abandoned.
NoBoxForgotten ==
    boxes \subseteq survivors \union (IF Busy THEN {attempt} ELSE {})

\* A success reports what the tests of this very attempt wrote, although all
\* attempts share one directory; the exception is a container that survived
\* its own attempt and still writes there.
RewardIsOwn ==
    answer.status = "success" => answer.by \in {attempt} \union survivors

\* No verification is left waiting: tests that never end meet the time limit,
\* and the container's stop is awaited only once.
AttemptEnds == Busy ~> ~Busy

=============================================================================
