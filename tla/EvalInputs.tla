----------------------------- MODULE EvalInputs -----------------------------
(* Command lines, profile files and tasks for EvalPlan.                     *)
EXTENDS EvalPlan

Profile(status, adapter, model, effort, permissions, config) ==
  [status |-> status, adapter |-> adapter, model |-> model, effort |-> effort,
   permissions |-> permissions, config |-> config]

Good ==
  [claude |-> Profile("verified", "claude", "opus", "high", "bypass", "none"),
   gemini |-> Profile("unverified", "gemini", "pro", "high", "auto", "none"),
   kimi |-> Profile("verified", "kimi", "k3", "on", "auto", "A"),
   opencode |-> Profile("verified", "opencode", "deepseek", "max", "auto", "none")]
TwoKimis == [Good EXCEPT !.gemini = Profile("verified", "kimi", "k3", "off", "auto", "A")]
Conflict == [Good EXCEPT !.gemini = Profile("verified", "kimi", "k3", None, "auto", "B")]
Broken ==
  {[Good EXCEPT !.kimi.permissions = "bypass"], [Good EXCEPT !.kimi.config = "bad"],
   [Good EXCEPT !.claude.config = "A"], [Good EXCEPT !.opencode.effort = "ultra"]}
EvalRegistries == {Good, TwoKimis, Conflict} \union Broken

EvalTasks ==
  [t1 |-> [safe |-> TRUE, present |-> TRUE, timeout |-> 6],
   t2 |-> [safe |-> TRUE, present |-> TRUE, timeout |-> 6],
   t3 |-> [safe |-> TRUE, present |-> TRUE, timeout |-> 4],
   t4 |-> [safe |-> TRUE, present |-> TRUE, timeout |-> 0],
   gone |-> [safe |-> TRUE, present |-> FALSE, timeout |-> 6]]

\* claude alone on one task, everything else left out.
PlainLine ==
  [tasks |-> {"t1"}, agent |-> "claude", modifier |-> None, reviewer |-> None,
   model |-> None, effort |-> None, modifierModel |-> None, modifierEffort |-> None,
   reviewerModel |-> None, reviewerEffort |-> None, allowUnverified |-> FALSE,
   multiplier |-> 1, reserve |-> 1, maxReviews |-> None, maxAttempts |-> 2,
   reviewerTimeout |-> None, revisionTimeout |-> None, silence |-> 3, minTurn |-> 2,
   nAttempts |-> 1, nConcurrent |-> 2]
PairLine == [PlainLine EXCEPT !.agent = "collab", !.modifier = "kimi", !.reviewer = "claude"]

Names == {"claude", "gemini", "kimi", "opencode"}
TaskLines == {[PlainLine EXCEPT !.tasks = s] : s \in SUBSET {"t1", "t2", "t3", "t4", "gone"}}
SingleLines ==
  {[PlainLine EXCEPT !.agent = a, !.model = m, !.effort = e, !.allowUnverified = u] :
     a \in Names \union {"unknown"}, m \in {None, "", "openai", "k3"},
     e \in {None, "low", "on", "ultracode"}, u \in BOOLEAN}
PairLines ==
  {[PairLine EXCEPT !.modifier = m, !.reviewer = r, !.modifierModel = mm,
                !.reviewerModel = rm, !.allowUnverified = u] :
     m \in Names \union {None}, r \in Names, mm \in {None, "openai"},
     rm \in {None, "xai"}, u \in BOOLEAN}
Durations == {-1, 0, 1, 2, 3}
BudgetLines ==
  {[p EXCEPT !.reserve = d, !.multiplier = x, !.minTurn = n, !.silence = s] :
     p \in {PlainLine, PairLine}, d \in {0, 1, 5, 6}, x \in {0, 1, 2}, n \in Durations, s \in {0, 1}}
PhaseLines ==
  {[p EXCEPT !.reviewerTimeout = v, !.revisionTimeout = w, !.maxReviews = r, !.maxAttempts = a] :
     p \in {PlainLine, PairLine}, v \in Durations \union {None}, w \in Durations \union {None},
     r \in {None, 0, 1}, a \in {0, 1}}
CrossedLines ==
  {[PlainLine EXCEPT !.modifier = "kimi"], [PlainLine EXCEPT !.reviewerModel = "xai"],
   [PairLine EXCEPT !.model = "xai"], [PlainLine EXCEPT !.nAttempts = 0],
   [PlainLine EXCEPT !.nConcurrent = 0]}

\* float() reads "nan" and "inf" too.
FloatLines ==
  {[PlainLine EXCEPT !.minTurn = n, !.multiplier = x] : n \in {1, NaN, Inf}, x \in {1, NaN, Inf}}

KnownProviders == {"deepseek", "openai", "xai"}

EvalRequests ==
  TaskLines \union SingleLines \union PairLines \union BudgetLines \union PhaseLines
    \union CrossedLines \union FloatLines
=============================================================================
