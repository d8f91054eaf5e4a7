------------------------------ MODULE EvalPlan ------------------------------
(***************************************************************************)
(* How one evaluation's command line becomes an execution plan, and who    *)
(* checks it: the launcher (cli.py, tasks.py, profiles.py, planning.py) on *)
(* the host before anything runs, then for every trial the Pier agent      *)
(* (PierAgent!PlanAccepted) and the runtime's parseConfig inside the       *)
(* container.  A plan the launcher accepts and a later party refuses costs *)
(* a whole job.                                                            *)
(*                                                                         *)
(* Durations are integers, or one of the two values float() also accepts,  *)
(* for which every comparison follows IEEE 754.                            *)
(***************************************************************************)
EXTENDS Integers, FiniteSets

CONSTANTS
  Requests,    \* command lines, see EvalInputs
  Registries,  \* profile files: name -> profile
  TaskTable,   \* task name -> [safe, present, timeout]
  Providers,   \* provider prefixes of OpenCode models
  NaN, Inf,    \* float("nan"), float("inf")
  None         \* an option that was not given

\* What a duration may be, and what an option that may be left out.
Number == Int \union {NaN, Inf}
Optional(S) == S \union {None}

ProfileFields == {"status", "adapter", "model", "effort", "permissions", "config"}

\* float() gives a number or one of two values that are different from every integer
\* and from each other; an option that was not given is none of them.
NumberAssumption == NaN \notin Int /\ Inf \notin Int /\ NaN # Inf /\ None \notin Number

\* What argparse, the task files and the profile file leave to the checks below.
InputAssumption ==
  /\ \A q \in Requests :
       /\ IsFiniteSet(q.tasks) /\ q.tasks \subseteq DOMAIN TaskTable
       /\ {q.multiplier, q.reserve, q.silence, q.minTurn} \subseteq Number
       /\ {q.reviewerTimeout, q.revisionTimeout} \subseteq Optional(Number)
       /\ q.maxAttempts \in Int /\ q.maxReviews \in Optional(Int)
  /\ \A n \in DOMAIN TaskTable : TaskTable[n].timeout \in Int
  /\ \A g \in Registries : \A n \in DOMAIN g : g[n] = [f \in ProfileFields |-> g[n][f]]

ASSUME ConstantsAssumption == NumberAssumption /\ InputAssumption

VARIABLES
  request, registry,   \* the command line and the profile file
  login,               \* a Kimi login exists on the host
  gate,                \* who looks at it next
  timeout,             \* common_agent_timeout
  roles,               \* the resolved profiles
  plan                 \* the execution plan, or None

planVars == <<request, registry, login, gate, timeout, roles, plan>>

NoProfile == [status |-> "none", adapter |-> "none", model |-> "none",
              effort |-> None, permissions |-> "none", config |-> "none"]
NoRoles == [modifier |-> NoProfile, reviewer |-> NoProfile]

\* The agent that the plan is handed to, for its checks and its allowlist; a
\* trial's own state plays no part in them.
AgentRole(p) == [adapter |-> p.adapter, model |-> p.model, config |-> p.config]
AgentPlan(p) ==
  [sound |-> TRUE, topology |-> p.topology, workflow |-> p.workflow,
   modifier |-> AgentRole(p.modifier), reviewer |-> AgentRole(p.reviewer)]
Agent == INSTANCE PierAgent WITH
  Plans <- {}, EnvSets <- {}, MaxCancels <- 0, MaxLost <- 0,
  plan <- AgentPlan(plan), login <- {}, hostEnv <- {}, pc <- "new", copying <- 1,
  remote <- "absent", junk <- FALSE, children <- FALSE, ending <- "none",
  warned <- FALSE, cancels <- 0, lostLogin <- {}, cutShort <- FALSE,
  rewritten <- FALSE

-----------------------------------------------------------------------------
(* Floating-point comparison and arithmetic.                                *)

Finite(x) == x \notin {NaN, Inf}
Less(x, y) ==
  /\ NaN \notin {x, y}
  /\ x # Inf
  /\ Finite(y) => x < y
AtMost(x, y) == NaN \notin {x, y} /\ (x = y \/ Less(x, y))
\* x * y for a positive x.
Times(x, y) ==
  IF NaN \in {x, y} THEN NaN ELSE IF y = Inf THEN Inf ELSE x * y
Minus(x, y) ==
  IF NaN \in {x, y} \/ {x, y} = {Inf} THEN NaN
  ELSE IF x = Inf THEN Inf
  ELSE IF y = Inf THEN 0 ELSE x - y   \* minus infinity is refused like zero

-----------------------------------------------------------------------------
(* Tasks.                                                                   *)

TasksExist(names) ==
  /\ names # {}
  /\ \A n \in names : TaskTable[n].safe /\ TaskTable[n].present

Timeouts(names) == {TaskTable[n].timeout : n \in names}

\* common_agent_timeout
HaveOneTimeout(names) ==
  /\ Cardinality(Timeouts(names)) = 1
  /\ \A t \in Timeouts(names) : t > 0

-----------------------------------------------------------------------------
(* Profiles.                                                                *)

Efforts(adapter) ==
  CASE adapter = "kimi" -> {"off", "on"}
    [] adapter = "claude" -> {"low", "high", "max", "ultracode"}
    [] adapter = "codex" -> {"low", "high", "max", "ultra"}
    [] OTHER -> {"low", "high", "max"}
EffortFits(p) == p.effort # None => p.effort \in Efforts(p.adapter)

\* _parse_profile; a config called "bad" stands for a Kimi registration with any
\* field that _parse_model_config refuses.
ProfileSound(p) ==
  /\ p.status \in {"verified", "unverified"}
  /\ p.adapter \in Agent!Adapters
  /\ p.permissions \in {"auto", "bypass"}
  /\ p.adapter = "kimi" => p.config \notin {"none", "bad"} /\ p.permissions = "auto"
  /\ p.adapter # "kimi" => p.config = "none"
  /\ EffortFits(p)

OverridesFit(p, model, effort) ==
  /\ "" \notin {model, effort}
  /\ p.adapter = "kimi" => model \in {None, p.model}

WithOverrides(p, model, effort) ==
  [p EXCEPT !.model = IF model = None THEN @ ELSE model,
            !.effort = IF effort = None THEN @ ELSE effort]

\* The conditions of ProfileRegistry.resolve.
Resolvable(name, model, effort) ==
  /\ name \in DOMAIN registry
  /\ registry[name].status = "unverified" => request.allowUnverified
  /\ OverridesFit(registry[name], model, effort)
  /\ EffortFits(WithOverrides(registry[name], model, effort))

Resolved(name, model, effort) == WithOverrides(registry[name], model, effort)

-----------------------------------------------------------------------------
(* build_execution_plan.                                                    *)

Collab == request.agent = "collab"
Topology == IF Collab THEN "collab" ELSE "single"
RoleOverrides == {request.modifierModel, request.modifierEffort,
                  request.reviewerModel, request.reviewerEffort}
PhaseTimeouts == {request.reviewerTimeout, request.revisionTimeout} \ {None}

\* What may be given together; the first line is a check of _evaluate.
OptionsFit ==
  /\ ~Collab => request.maxReviews = None
  /\ Collab => /\ None \notin {request.modifier, request.reviewer}
               /\ {request.model, request.effort} = {None}
  /\ ~Collab => /\ {request.modifier, request.reviewer} = {None}
                /\ RoleOverrides = {None}

RolesResolvable ==
  IF Collab
  THEN /\ Resolvable(request.modifier, request.modifierModel, request.modifierEffort)
       /\ Resolvable(request.reviewer, request.reviewerModel, request.reviewerEffort)
  ELSE Resolvable(request.agent, request.model, request.effort)

ResolvedRolesMutant ==
  [modifier |-> IF Collab
                THEN Resolved(request.modifier, request.modifierModel, request.modifierEffort)
                ELSE Resolved(request.agent, request.model, request.effort),
   reviewer |-> IF Collab
                THEN Resolved(request.reviewer, request.modifierModel, request.modifierEffort)
                ELSE NoProfile]
ResolvedRoles ==
  [modifier |-> IF Collab
                THEN Resolved(request.modifier, request.modifierModel, request.modifierEffort)
                ELSE Resolved(request.agent, request.model, request.effort),
   reviewer |-> IF Collab
                THEN Resolved(request.reviewer, request.reviewerModel, request.reviewerEffort)
                ELSE NoProfile]

MaxReviews == IF request.maxReviews = None THEN 3 ELSE request.maxReviews
HardTimeout == Times(timeout, request.multiplier)
SoftDeadline == Minus(HardTimeout, request.reserve)

PhaseTimeoutsFitMutant == \A t \in PhaseTimeouts : ~AtMost(t, 0)
\* Every refusal is a comparison, and none holds of NaN.
PhaseTimeoutsFit ==
  \A t \in PhaseTimeouts : ~AtMost(t, 0) /\ ~Less(t, request.minTurn)

BudgetFits ==
  /\ ~Collab => PhaseTimeouts = {}
  /\ ~AtMost(request.multiplier, 0)
  /\ ~AtMost(request.reserve, 0)
  /\ ~AtMost(SoftDeadline, 0)
  /\ Collab => MaxReviews >= 1
  /\ request.maxAttempts >= 1
  /\ ~AtMost(request.silence, 0)
  /\ ~AtMost(request.minTurn, 0)
  /\ PhaseTimeoutsFit

\* ExecutionPlan.to_dict; an optional timeout that was not given is left out.
NewPlan ==
  [topology |-> Topology,
   workflow |-> IF Collab THEN "review-loop" ELSE "single",
   modifier |-> roles.modifier, reviewer |-> roles.reviewer,
   taskTimeout |-> timeout, multiplier |-> request.multiplier, hard |-> HardTimeout,
   reserve |-> request.reserve, soft |-> SoftDeadline,
   maxReviews |-> IF Collab THEN MaxReviews ELSE 0, maxAttempts |-> request.maxAttempts,
   reviewerTimeout |-> request.reviewerTimeout,
   revisionTimeout |-> request.revisionTimeout,
   silence |-> request.silence, minTurn |-> request.minTurn]

-----------------------------------------------------------------------------
(* parseConfig of the runtime.  JSON has no NaN and no infinity, but        *)
(* Python writes and reads them.                                            *)

Numbers(p) ==
  {p.taskTimeout, p.multiplier, p.hard, p.reserve, p.soft, p.silence, p.minTurn}
    \union ({p.reviewerTimeout, p.revisionTimeout} \ {None})

RuntimeAccepts(p) ==
  /\ \A x \in Numbers(p) : Finite(x)
  /\ p.maxAttempts >= 1
  /\ p.soft > 0 /\ p.silence > 0 /\ p.minTurn > 0
  /\ p.topology = "collab" =>
       /\ p.maxReviews >= 1
       /\ \A t \in {p.reviewerTimeout, p.revisionTimeout} \ {None} :
            t > 0 /\ t >= p.minTurn
  /\ p.topology = "single" => {p.reviewerTimeout, p.revisionTimeout} = {None}

-----------------------------------------------------------------------------
(* _network_policy: what the run manifest says a trial may reach.           *)

Policy(p) ==
  (UNION {Agent!OwnHosts(r.adapter) : r \in {p.modifier, p.reviewer}})
    \union {r.model : r \in {s \in {p.modifier, p.reviewer} :
                               s.adapter = "opencode" /\ s.model \in Providers}}

-----------------------------------------------------------------------------
PlanInit ==
  /\ request \in Requests
  /\ registry \in Registries
  /\ login \in BOOLEAN
  /\ gate = "tasks"
  /\ timeout = 0
  /\ roles = NoRoles
  /\ plan = None

Continue(condition, next) == gate' = IF condition THEN next ELSE "refused"

SelectTasks ==
  /\ gate = "tasks"
  /\ LET fits == TasksExist(request.tasks) /\ HaveOneTimeout(request.tasks)
     IN /\ Continue(fits, "profiles")
        /\ timeout' = IF fits THEN CHOOSE t \in Timeouts(request.tasks) : TRUE ELSE 0
  /\ UNCHANGED <<request, registry, login, roles, plan>>

LoadProfiles ==
  /\ gate = "profiles"
  /\ Continue(DOMAIN registry # {} /\ \A n \in DOMAIN registry : ProfileSound(registry[n]),
              "roles")
  /\ UNCHANGED <<request, registry, login, timeout, roles, plan>>

ResolveRoles ==
  /\ gate = "roles"
  /\ LET fits == OptionsFit /\ RolesResolvable
     IN Continue(fits, "budget") /\ roles' = IF fits THEN ResolvedRoles ELSE roles
  /\ UNCHANGED <<request, registry, login, timeout, plan>>

BuildPlan ==
  /\ gate = "budget"
  /\ Continue(BudgetFits, "launch")
  /\ plan' = IF BudgetFits THEN NewPlan ELSE plan
  /\ UNCHANGED <<request, registry, login, timeout, roles>>

\* The rest of _evaluate: a Kimi role needs a login before the image is prepared.
Launch ==
  /\ gate = "launch"
  /\ Continue(/\ request.nAttempts >= 1 /\ request.nConcurrent >= 1
              /\ "kimi" \in {plan.modifier.adapter, plan.reviewer.adapter} => login,
              "agent")
  /\ UNCHANGED <<request, registry, login, timeout, roles, plan>>

\* The constructor of DeepSweAgent, in every trial.
ConstructAgent ==
  /\ gate = "agent"
  /\ gate' = IF Agent!PlanAccepted(AgentPlan(plan)) THEN "runtime" ELSE "failed"
  /\ UNCHANGED <<request, registry, login, timeout, roles, plan>>

ParseConfig ==
  /\ gate = "runtime"
  /\ gate' = IF RuntimeAccepts(plan) THEN "running" ELSE "failed"
  /\ UNCHANGED <<request, registry, login, timeout, roles, plan>>

PlanDone == gate \in {"refused", "failed", "running"} /\ UNCHANGED planVars

PlanNext == SelectTasks \/ LoadProfiles \/ ResolveRoles \/ BuildPlan \/ Launch
          \/ ConstructAgent \/ ParseConfig \/ PlanDone

PlanSpec == PlanInit /\ [][PlanNext]_planVars

-----------------------------------------------------------------------------
Planned == gate \in {"launch", "agent", "runtime", "running", "failed"}
\* Two Kimi profiles that register one model register it alike.
RegistryAgrees ==
  \A m, n \in DOMAIN registry :
    {registry[m].adapter, registry[n].adapter} = {"kimi"} /\ registry[m].model = registry[n].model
      => registry[m].config = registry[n].config

\* Every variable keeps its type.
PlanTypeOK ==
  /\ login \in BOOLEAN /\ timeout \in Int
  /\ gate \in {"tasks", "profiles", "roles", "budget", "launch", "agent", "runtime",
             "running", "refused", "failed"}
  /\ \A r \in {roles.modifier, roles.reviewer} :
       r.adapter \in Agent!Adapters \union {"none"}
  /\ (roles.reviewer = NoProfile) <=> ~(Collab /\ roles # NoRoles)
  /\ IF Planned THEN plan.topology = Topology ELSE plan = None \/ gate = "refused"

\* What the engine relies on: the workflow ends before Pier's hard timeout by the
\* reserve, and no stage is capped below the shortest turn it may start.
FiniteDurations == Planned => \A x \in Numbers(plan) : Finite(x)
PlanFitsEngine ==
  Planned /\ FiniteDurations =>
    /\ 0 < plan.soft /\ plan.soft + plan.reserve = plan.hard
    /\ \A n \in request.tasks : plan.hard = TaskTable[n].timeout * plan.multiplier
    /\ \A t \in {plan.reviewerTimeout, plan.revisionTimeout} \ {None} : t >= plan.minTurn
    /\ plan.topology = "collab" => plan.maxReviews >= 1

\* Three programs in two languages check the same plan: one that the launcher lets
\* through is refused neither by the agent nor by the runtime, so that no job is
\* started whose every trial fails, and it gives the engine the time it relies on
\* (planning.py, pier_agent.py, main.ts).  Two things the launcher does not see:
\* profiles that register one Kimi model differently, which the agent tells apart, and a
\* duration that is no number or infinite, which the runtime refuses.
LaunchedPlanRuns ==
  /\ RegistryAgrees /\ FiniteDurations => gate # "failed"
  /\ gate = "running" => FiniteDurations
  /\ PlanFitsEngine

\* An unverified profile never takes part unless it was allowed, and an override
\* reaches only the role it names; a Kimi role keeps the model that is registered.
RolesAsAsked ==
  Planned =>
    \A role \in {"modifier", "reviewer"} :
      LET p == plan[role]
          name == IF ~Collab THEN request.agent
                  ELSE IF role = "modifier" THEN request.modifier ELSE request.reviewer
          asked == IF ~Collab THEN request.model
                   ELSE IF role = "modifier" THEN request.modifierModel
                   ELSE request.reviewerModel
      IN p # NoProfile =>
           /\ p.status = "unverified" => request.allowUnverified
           /\ p.model # registry[name].model => p.model = asked /\ p.adapter # "kimi"

\* The hosts the run manifest records are those the agent asks Pier to allow, the
\* hosts of base URL variables apart, which the record does not have.
PolicyIsAllowlist ==
  Planned => Policy(plan) = Agent!Allowlist(AgentPlan(plan))

\* Every role is the profile that was asked for, overridden where it was asked for, and
\* the hosts on record are the hosts it may reach (profiles.py, _network_policy).
PlanAsAsked == RolesAsAsked /\ PolicyIsAllowlist

=============================================================================
