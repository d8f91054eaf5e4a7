--------------------------- MODULE MCPatchScoring ---------------------------
\* PatchScoring on small jobs.
EXTENDS PatchScoring

CONSTANTS o1, o2, k1, v1, v2, p1, p2, text

MCOrigins == {o1, o2}
MCTasks == {k1}
MCVersions == {v1, v2}
OneVersion == {v1}
MCPatches == {p1, p2}
MCRewards == {0, 1, text}
MCNumbers == {0, 1}

Trial(origin, stages, eval) ==
    [supported |-> TRUE, eligible |-> TRUE, artifacts |-> FALSE, task |-> k1,
     origin |-> origin, stages |-> stages, eval |-> eval]

\* Two trials of one task and base: one kept its patch, the other revised it.
SharedJob == [t \in Trials |->
    IF t = 1 THEN Trial(o1, <<p1, p1>>, 0) ELSE Trial(o1, <<p1, p2>>, 1)]
\* Two recorded bases: equal patches are different work.  The second has no score of its own.
SeparateJob == [t \in Trials |->
    IF t = 1 THEN Trial(o1, <<p1, p1>>, 1) ELSE Trial(o2, <<p1, p1>>, None)]
\* A trial that needs artifacts, and one of another layout.
ArtifactJob == [SharedJob EXCEPT ![2].artifacts = TRUE]
UnsupportedJob == [SharedJob EXCEPT ![1].supported = FALSE]

MCJobs == {SharedJob, SeparateJob, ArtifactJob, UnsupportedJob}

\* For repeated runs: the revision of the first trial made the patch that is all
\* the second has.
RerunJobs == {[t \in Trials |->
    IF t = 1 THEN Trial(o1, <<p2, p1>>, 1) ELSE Trial(o1, <<p1, p1>>, 0)]}

\* All trials; one, with the final score of the evaluation; all anew.
MCOptions ==
    {[selected |-> Trials, reuse |-> FALSE, force |-> FALSE],
     [selected |-> {2}, reuse |-> TRUE, force |-> FALSE],
     [selected |-> Trials, reuse |-> FALSE, force |-> TRUE]}
\* All trials with any policy, or the second alone, anew or not.
RerunOptions ==
    [selected : {Trials}, reuse : BOOLEAN, force : BOOLEAN]
    \union [selected : {{2}}, reuse : {FALSE}, force : BOOLEAN]
=============================================================================
