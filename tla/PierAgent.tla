------------------------------ MODULE PierAgent ------------------------------
(***************************************************************************)
(* DeepSweAgent of pier_agent.py: what Pier runs for one trial.  It checks *)
(* the plan, the runtime mounted in the container and the credentials on   *)
(* the host, copies login files into the container, runs the runtime, and  *)
(* removes what it copied whatever happened.                               *)
(*                                                                         *)
(* Every await may throw, and the task may be cancelled at it; processes   *)
(* of the runtime may outlive it and go on writing to the home directory.  *)
(* The login files of one adapter are one file here (Kimi has three).      *)
(***************************************************************************)
EXTENDS Naturals, FiniteSets, Sequences

CONSTANTS
    Plans,       \* execution plans the launcher may hand over
    EnvSets,     \* sets of variables that may be set on the host
    Providers,   \* provider prefixes of OpenCode models
    MaxCancels,  \* bound on cancellations
    MaxLost      \* bound on login files that disappear from the host meanwhile

ASSUME BoundsAssumption == MaxCancels \in Nat /\ MaxLost \in Nat

Adapters == {"claude", "codex", "gemini", "kimi", "opencode"}
\* The login files, in the order _configure_credentials copies them, and the
\* configuration it writes for Kimi.
LoginFiles == {"codex", "opencode", "gemini", "kimi"}
Files == LoginFiles \union {"kimi config"}
CopyOrder == <<"codex", "opencode", "gemini", "kimi", "kimi config">>
FileCount == Len(CopyOrder)

NoRole == [adapter |-> "none", model |-> "none", config |-> "none"]

VARIABLES
    plan,        \* the execution plan
    login,       \* adapters with a login file on the host
    hostEnv,     \* variables set on the host
    pc,          \* where the agent is
    copying,     \* index into CopyOrder while files are copied
    remote,      \* state of each file in the container
    junk,        \* the home directory exists in the container
    children,    \* processes of the runtime are alive
    ending,      \* how run() ends
    warned,      \* the clean-up's warning was logged
    cancels,     \* cancellations so far
    lostLogin,   \* history: login files that disappeared
    cutShort,    \* history: the clean-up itself was cancelled
    rewritten    \* history: a child wrote to the home directory after the last rm

hostVars == <<plan, login, hostEnv, lostLogin>>
containerVars == <<remote, junk, children, rewritten>>
outcomeVars == <<ending, warned, cancels, cutShort>>
vars == <<hostVars, pc, copying, containerVars, outcomeVars>>

Points == {"new", "rejected", "setup", "require", "mkdir", "copy", "own", "mode", "stage",
           "running", "cleanup", "wait", "cleanup again", "done"}
FileStates == {"absent", "copied", "owned", "private"}

-----------------------------------------------------------------------------
\* The plan

RolesOf(p) == {p.modifier, p.reviewer} \ {NoRole}
AdaptersIn(p) == {r.adapter : r \in RolesOf(p)}
KimiRoles(p) == {r \in RolesOf(p) : r.adapter = "kimi"}

\* A Kimi role brings a complete registration of its model; others bring none.
ConfigFits(r) == (r.adapter = "kimi") <=> (r.config # "none")

\* One model name has one registration.
NoConflict(p) ==
    \A r, s \in KimiRoles(p) : r.model = s.model => r.config = s.config

\* _validate_plan_json; p.sound stands for the schema version, the engine, the budget
\* and the runtime digest.
PlanAccepted(p) ==
    /\ p.sound
    /\ p.topology \in {"single", "collab"}
    /\ p.workflow = IF p.topology = "single" THEN "single" ELSE "review-loop"
    /\ p.modifier # NoRole
    /\ (p.topology = "collab") <=> (p.reviewer # NoRole)
    /\ AdaptersIn(p) \subseteq Adapters
    /\ \A r \in RolesOf(p) : ConfigFits(r)
    /\ NoConflict(p)

\* _kimi_models: the registrations written to config.toml, a later role's over an
\* earlier one's; the first Kimi role's model is the default.
KimiModels(p) ==
    [m \in {r.model : r \in KimiRoles(p)} |->
        IF p.reviewer \in KimiRoles(p) /\ p.reviewer.model = m
          THEN p.reviewer.config ELSE p.modifier.config]

-----------------------------------------------------------------------------
\* Credentials

\* The variables that count as a credential of an adapter, and the ones it is given.
CredentialEnv(a) ==
    CASE a = "claude" -> {"CLAUDE_CODE_OAUTH_TOKEN", "ANTHROPIC_API_KEY"}
      [] a = "codex" -> {"OPENAI_API_KEY", "CODEX_API_KEY"}
      [] a = "opencode" -> {"ANTHROPIC_API_KEY", "DEEPSEEK_API_KEY", "GEMINI_API_KEY",
                            "OPENAI_API_KEY", "OPENROUTER_API_KEY", "OPENCODE_API_KEY"}
      [] a = "gemini" -> {"GEMINI_API_KEY", "GOOGLE_API_KEY", "GOOGLE_APPLICATION_CREDENTIALS"}
      [] OTHER -> {}

\* FORWARDED_ENVS, the keys and the base URLs.
KeysForwarded(a) ==
    CASE a = "claude" -> {"ANTHROPIC_API_KEY", "CLAUDE_CODE_OAUTH_TOKEN"}
      [] a = "codex" -> {"OPENAI_API_KEY", "CODEX_API_KEY"}
      [] a = "kimi" -> {"KIMI_MODEL_API_KEY"}
      [] a = "opencode" -> {"ANTHROPIC_API_KEY", "DEEPSEEK_API_KEY", "GEMINI_API_KEY",
                            "OPENAI_API_KEY", "OPENROUTER_API_KEY", "OPENCODE_API_KEY"}
      [] a = "gemini" -> {"GEMINI_API_KEY", "GOOGLE_API_KEY", "GOOGLE_APPLICATION_CREDENTIALS"}
UrlsForwarded(a) ==
    CASE a \in {"codex", "opencode"} -> {"OPENAI_BASE_URL"}
      [] a = "kimi" -> {"KIMI_MODEL_BASE_URL"}
      [] a = "gemini" -> {"GOOGLE_GEMINI_BASE_URL", "GEMINI_API_BASE"}
      [] OTHER -> {}

HasCredential(a) == a \in login \/ hostEnv \intersect CredentialEnv(a) # {}
\* _require_credentials
CredentialsComplete == \A a \in AdaptersIn(plan) : HasCredential(a)

\* What there is to copy: the login files of the adapters in use that are still there,
\* and the Kimi configuration in any case.
ToCopy(f) ==
    IF f = "kimi config" THEN "kimi" \in AdaptersIn(plan)
                         ELSE f \in AdaptersIn(plan) \intersect login

-----------------------------------------------------------------------------
\* network_allowlist; a host is named by the provider it belongs to or by the variable
\* that holds its URL.

OwnHosts(a) ==
    CASE a = "claude" -> {"anthropic"}
      [] a = "codex" -> {"openai"}
      [] a = "kimi" -> {"moonshot"}
      [] a = "gemini" -> {"google"}
      [] OTHER -> {}

\* The host of the provider named by an OpenCode model.
OpenCodeHosts(p) ==
    {r.model : r \in {s \in RolesOf(p) : s.adapter = "opencode" /\ s.model \in Providers}}

AllowlistOwnHostsMutant(p) == UNION {OwnHosts(a) : a \in AdaptersIn(p)}
Allowlist(p) ==
    (UNION {OwnHosts(a) \union (UrlsForwarded(a) \intersect hostEnv) : a \in AdaptersIn(p)})
      \union OpenCodeHosts(p)

-----------------------------------------------------------------------------
Init ==
    /\ plan \in Plans
    /\ login \in SUBSET (AdaptersIn(plan) \intersect LoginFiles)
    /\ hostEnv \in EnvSets
    /\ pc = "new"
    /\ copying = 1
    /\ remote = [f \in Files |-> "absent"]
    /\ junk = FALSE /\ children = FALSE
    /\ ending = "none" /\ warned = FALSE
    /\ cancels = 0 /\ lostLogin = {} /\ cutShort = FALSE /\ rewritten = FALSE

\* The constructor.
Construct ==
    /\ pc = "new"
    /\ pc' = IF PlanAccepted(plan) THEN "setup" ELSE "rejected"
    /\ UNCHANGED <<hostVars, copying, containerVars, outcomeVars>>

\* setup: the runtime in the container has all its parts and the plan's digest, or the
\* command fails.
Setup ==
    /\ pc = "setup"
    /\ pc' \in {"require", "rejected"}
    /\ UNCHANGED <<hostVars, copying, containerVars, outcomeVars>>

\* The start of run(): nothing is in the container yet.  A login file named by a variable
\* must exist whatever else is set, so this may fail with complete credentials.
RequireCredentials ==
    /\ pc = "require"
    /\ \/ CredentialsComplete /\ pc' = "mkdir" /\ UNCHANGED ending
       \/ pc' = "done" /\ ending' = "error"
    /\ UNCHANGED <<hostVars, copying, containerVars, warned, cancels, cutShort>>

MakeDirectories ==
    /\ pc = "mkdir"
    /\ pc' = "copy"
    /\ junk' = TRUE
    /\ UNCHANGED <<hostVars, copying, remote, children, rewritten, outcomeVars>>

\* _upload_owned_file in three awaits; the owner changes only if the container has a
\* default user.
Copy ==
    /\ pc = "copy"
    /\ copying <= FileCount
    /\ LET f == CopyOrder[copying] IN
       \/ /\ ToCopy(f)
          /\ remote' = [remote EXCEPT ![f] = "copied"]
          /\ pc' = "own"
          /\ UNCHANGED copying
       \/ /\ ~ToCopy(f)
          /\ copying' = copying + 1
          /\ UNCHANGED <<pc, remote>>
    /\ UNCHANGED <<hostVars, junk, children, rewritten, outcomeVars>>

Own ==
    /\ pc = "own"
    /\ remote' = [remote EXCEPT ![CopyOrder[copying]] = "owned"]
    /\ pc' = "mode"
    /\ UNCHANGED <<hostVars, copying, junk, children, rewritten, outcomeVars>>

Restricted(f) == [remote EXCEPT ![f] = "private"]
Restrict ==
    /\ pc = "mode"
    /\ remote' = Restricted(CopyOrder[copying])
    /\ copying' = copying + 1
    /\ pc' = "copy"
    /\ UNCHANGED <<hostVars, junk, children, rewritten, outcomeVars>>

\* The instruction, the configuration and the manifest are uploaded.
Staging ==
    /\ pc = "copy"
    /\ copying > FileCount
    /\ pc' = "stage"
    /\ UNCHANGED <<hostVars, copying, containerVars, outcomeVars>>

StartRuntime ==
    /\ pc = "stage"
    /\ pc' = "running"
    /\ children' = TRUE
    /\ UNCHANGED <<hostVars, copying, remote, junk, rewritten, outcomeVars>>

\* The runtime's command returns; its children may still be there.
RuntimeEnds ==
    /\ pc = "running"
    /\ pc' = "cleanup"
    /\ ending' = "returned"
    /\ children' \in BOOLEAN
    /\ UNCHANGED <<hostVars, copying, remote, junk, rewritten, warned, cancels, cutShort>>

InTry == pc \in {"mkdir", "copy", "own", "mode", "stage", "running"}

AfterThrowMutant == IF pc = "running" THEN "cleanup" ELSE "done"
AfterThrow == "cleanup"
\* Any await of the try block throws.
Throw ==
    /\ InTry
    /\ pc' = AfterThrow
    /\ ending' = "error"
    /\ UNCHANGED <<hostVars, copying, containerVars, warned, cancels, cutShort>>

\* rm -rf of both directories succeeds,
Removed ==
    /\ remote' = [f \in Files |-> "absent"]
    /\ junk' = FALSE
    /\ rewritten' = FALSE
\* or fails having removed any part.
PartlyRemoved ==
    /\ \E left \in SUBSET {f \in Files : remote[f] # "absent"} :
         remote' = [f \in Files |-> IF f \in left THEN remote[f] ELSE "absent"]
    /\ UNCHANGED <<junk, rewritten>>

\* Pier cancels the task at one of its awaits: the finally block still runs, but a
\* cancellation inside it is no Exception, and ends it,
\* with the command in the container done, half done or not begun.
Cancel ==
    /\ cancels < MaxCancels
    /\ cancels' = cancels + 1
    /\ ending' = "cancelled"
    /\ \/ InTry /\ pc' = AfterThrow /\ UNCHANGED <<cutShort, remote, junk, rewritten>>
       \/ /\ pc \in {"cleanup", "wait", "cleanup again"}
          /\ pc' = "done"
          /\ PartlyRemoved
          /\ cutShort' = TRUE
    /\ UNCHANGED <<hostVars, copying, children, warned>>

Cleanup ==
    /\ pc = "cleanup"
    /\ \/ Removed /\ pc' = "done"
       \/ PartlyRemoved /\ pc' = "wait"
    /\ UNCHANGED <<hostVars, copying, children, outcomeVars>>

Wait ==
    /\ pc = "wait"
    /\ pc' = "cleanup again"
    /\ UNCHANGED <<hostVars, copying, containerVars, outcomeVars>>

AfterSecondFailureMutant == "wait"
AfterSecondFailure == "done"
CleanupAgain ==
    /\ pc = "cleanup again"
    /\ \/ Removed /\ pc' = "done" /\ UNCHANGED warned
       \/ PartlyRemoved /\ pc' = AfterSecondFailure /\ warned' = TRUE
    /\ UNCHANGED <<hostVars, copying, children, ending, cancels, cutShort>>

\* A process of the runtime writes to the home directory, or exits.
ChildWrites ==
    /\ children
    /\ junk' = TRUE
    /\ rewritten' = TRUE
    /\ UNCHANGED <<hostVars, pc, copying, remote, children, outcomeVars>>
ChildrenExit ==
    /\ children
    /\ pc # "running"
    /\ children' = FALSE
    /\ UNCHANGED <<hostVars, pc, copying, remote, junk, rewritten, outcomeVars>>

\* A login file disappears from the host (a logout, a refresh).
LoginLost ==
    /\ Cardinality(lostLogin) < MaxLost
    /\ pc # "done"
    /\ \E f \in login :
         /\ login' = login \ {f}
         /\ lostLogin' = lostLogin \union {f}
    /\ UNCHANGED <<plan, hostEnv, pc, copying, containerVars, outcomeVars>>

Agent ==
    \/ Construct \/ Setup \/ RequireCredentials
    \/ MakeDirectories \/ Copy \/ Own \/ Restrict \/ Staging \/ StartRuntime \/ RuntimeEnds
    \/ Throw \/ Cleanup \/ Wait \/ CleanupAgain

Next == Agent \/ Cancel \/ ChildWrites \/ ChildrenExit \/ LoginLost

Spec == Init /\ [][Next]_vars

\* Every command in the container returns or throws.
FairSpec == Spec /\ WF_vars(Agent)

-----------------------------------------------------------------------------
\* Properties

\* The variables have their types, and a file is being worked on only while copying.
TypeOK ==
    /\ plan \in Plans
    /\ login \subseteq LoginFiles
    /\ pc \in Points
    /\ copying \in 1..(FileCount + 1)
    /\ pc \in {"own", "mode"} => copying <= FileCount
    /\ remote \in [Files -> FileStates]
    /\ junk \in BOOLEAN /\ children \in BOOLEAN /\ rewritten \in BOOLEAN
    /\ warned \in BOOLEAN /\ cutShort \in BOOLEAN
    /\ ending \in {"none", "returned", "error", "cancelled"}
    /\ cancels \in 0..MaxCancels
    /\ lostLogin \subseteq LoginFiles

\* When run() is over no credential is left in the container, however it ended, unless
\* the second rm failed, which is logged, or the clean-up itself was cancelled.
NoCredentialLeft ==
    pc = "done" /\ ~warned /\ ~cutShort =>
        /\ \A f \in Files : remote[f] = "absent"
        /\ junk => rewritten

\* The runtime starts with a credential for every adapter of the plan in its
\* environment or in its home, unless a login file vanished after the check.
CredentialsReachRuntime ==
    pc = "running" =>
        \A a \in AdaptersIn(plan) \ lostLogin :
            \/ a \in LoginFiles /\ remote[a] = "private"
            \/ hostEnv \intersect CredentialEnv(a) \intersect KeysForwarded(a) # {}

\* While the runtime runs, every copied file belongs to the agent and to nobody else.
CopiedFilesPrivate ==
    pc = "running" => \A f \in Files : remote[f] \in {"absent", "private"}

\* Each Kimi role finds its own registration under its model's name.
KimiRolesRegistered ==
    pc = "running" =>
        /\ KimiRoles(plan) # {} => remote["kimi config"] = "private"
        /\ \A r \in KimiRoles(plan) : KimiModels(plan)[r.model] = r.config

\* Every endpoint an adapter is told of is on the allowlist.
EndpointsAllowed ==
    pc = "running" =>
        \A r \in RolesOf(plan) :
            /\ UrlsForwarded(r.adapter) \intersect hostEnv \subseteq Allowlist(plan)
            /\ r.adapter = "opencode" /\ r.model \in Providers => r.model \in Allowlist(plan)

\* Credentials are where they must be and nowhere else: readable by the agent alone
\* while the runtime runs, gone when run() is over.
CredentialsContained == CopiedFilesPrivate /\ NoCredentialLeft

\* A runtime that starts has what its adapters need: a credential, a registration and
\* an endpoint it may reach.
RuntimeIsServed == CredentialsReachRuntime /\ KimiRolesRegistered /\ EndpointsAllowed

\* A run that began comes to an end.
RunReturns == pc = "require" ~> pc = "done"
=============================================================================
