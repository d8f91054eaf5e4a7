------------------------------ MODULE EvalLaunch ------------------------------
(***************************************************************************)
(* Launches of run_agent_eval.py that share one checkout, one Docker       *)
(* daemon and one jobs directory.  A launch fingerprints the runtime's     *)
(* sources, makes sure an image with that fingerprint exists, writes the   *)
(* run manifest of its job and starts Pier; every trial of the job then    *)
(* mounts whatever image the reference names at that moment and checks the *)
(* fingerprint stored inside (wip/agent_eval/cli.py, runtime_image.py,     *)
(* wip/environments/agent_runtime.py, setup and run of pier_agent.py).     *)
(*                                                                         *)
(* A source version stands for the bytes of the files it covers: "pkg" is  *)
(* runtime-manifest.json, whose versions become build arguments; "code" is *)
(* the Dockerfile, package files, TypeScript sources and scripts.          *)
(***************************************************************************)
EXTENDS Integers, FiniteSets

CONSTANTS
  Launchers,     \* processes that run the command
  Trials,        \* trials of one job
  Options,       \* command lines: [cmd, explicit, platform, rebuild, dry, job]
  ImageRef,      \* the reference given with --runtime-image
  Jobs,          \* job names
  Versions,      \* contents of one group of source files
  MaxEdits,      \* bound: how often somebody edits the sources
  EditsDuringPrepare,  \* whether an edit may fall between fingerprint and build
  None           \* no image, no manifest

\* Every command line has a job, and the mark of absence is none of the things
\* that may be absent.
ASSUME OptionsAssumption == \A o \in Options : o.job \in Jobs
ASSUME MaxEditsAssumption == MaxEdits \in Nat
ASSUME NoneAssumption ==
  /\ None \notin Launchers
  /\ \A d, h \in [pkg : Versions, code : Versions], p \in {o.platform : o \in Options} :
       None # [digest |-> d, holds |-> h, platform |-> p]

VARIABLES
  tree,          \* the sources: [pkg, code]
  edits,         \* edits so far
  images,        \* reference -> image or None
  manifests,     \* job name -> the launcher that wrote its run manifest, or None
  pc, opt,       \* per launcher: where it is, its command line
  spec,          \* per launcher: RuntimeSpec [digest, ref]
  context,       \* per launcher: the build context Docker was sent
  trial,         \* per launcher and trial: its phase
  box            \* per launcher and trial: the image its container mounts

vars == <<tree, edits, images, manifests, pc, opt, spec, context, trial, box>>

Trees == [pkg : Versions, code : Versions]
Platforms == {o.platform : o \in Options}
\* Where the launchers' references can point: one per fingerprint, and the
\* explicit one.
Refs == Trees \union {ImageRef}
\* An image: the fingerprint in its label and in runtime-manifest.digest, the
\* sources it was really built from, its platform.
Images == [digest : Trees, holds : Trees, platform : Platforms]

Init ==
  /\ tree \in Trees
  /\ edits = 0
  /\ images = [r \in Refs |-> None]
  /\ manifests = [j \in Jobs |-> None]
  /\ pc = [l \in Launchers |-> "idle"]
  /\ opt \in [Launchers -> Options]
  /\ spec = [l \in Launchers |-> [digest |-> tree, ref |-> ImageRef]]
  /\ context = [l \in Launchers |-> tree]
  /\ trial = [l \in Launchers |-> [t \in Trials |-> "none"]]
  /\ box = [l \in Launchers |-> [t \in Trials |-> None]]

Goto(l, where) == pc' = [pc EXCEPT ![l] = where]

-----------------------------------------------------------------------------
(* resolve_runtime_spec and runtime_input_digest.                           *)

\* The manifest is parsed first; the other files are read one by one later.
ReadManifest(l) ==
  /\ pc[l] = "idle"
  /\ Goto(l, "hashing")
  /\ spec' = [spec EXCEPT ![l].digest.pkg = tree.pkg]
  /\ UNCHANGED <<tree, edits, images, manifests, opt, context, trial, box>>

DigestCode(l) == tree.code

ReferenceOf(l, digest) == IF opt[l].explicit THEN ImageRef ELSE digest

ReadSources(l) ==
  /\ pc[l] = "hashing"
  /\ Goto(l, "resolved")
  /\ LET digest == [spec[l].digest EXCEPT !.code = DigestCode(l)]
     IN spec' = [spec EXCEPT ![l] = [digest |-> digest, ref |-> ReferenceOf(l, digest)]]
  /\ UNCHANGED <<tree, edits, images, manifests, opt, context, trial, box>>

-----------------------------------------------------------------------------
(* RuntimeImageManager.                                                     *)

Exists(l) == images[spec[l].ref] # None

Matches(l) ==
  /\ Exists(l)
  /\ images[spec[l].ref].digest = spec[l].digest
  /\ images[spec[l].ref].platform = opt[l].platform

DryRun(l) == opt[l].dry

\* inspect, and the decisions of prepare that need no build.
Inspect(l) ==
  /\ pc[l] = "resolved"
  /\ Goto(l, IF DryRun(l) THEN "done"
             ELSE IF opt[l].rebuild \/ ~Exists(l) THEN "building"
             ELSE IF Matches(l) THEN "ready" ELSE "failed")
  /\ UNCHANGED <<tree, edits, images, manifests, opt, spec, context, trial, box>>

\* docker build is handed the files as they are now.
SendContext(l) ==
  /\ pc[l] = "building"
  /\ Goto(l, "sent")
  /\ context' = [context EXCEPT ![l] = tree]
  /\ UNCHANGED <<tree, edits, images, manifests, opt, spec, trial, box>>

\* The label and the package versions are arguments taken from the spec, the
\* sources come from the context; the tag moves to the new image.
Built(l) ==
  [digest |-> spec[l].digest,
   holds |-> [pkg |-> spec[l].digest.pkg, code |-> context[l].code],
   platform |-> opt[l].platform]

FinishBuild(l) ==
  /\ pc[l] = "sent"
  /\ \/ /\ Goto(l, "built")
        /\ images' = [images EXCEPT ![spec[l].ref] = Built(l)]
     \/ /\ Goto(l, "failed")
        /\ UNCHANGED images
  /\ UNCHANGED <<tree, edits, manifests, opt, spec, context, trial, box>>

FinalInspect(l) ==
  /\ pc[l] = "built"
  /\ Goto(l, IF Matches(l) THEN "ready" ELSE "failed")
  /\ UNCHANGED <<tree, edits, images, manifests, opt, spec, context, trial, box>>

-----------------------------------------------------------------------------
(* _evaluate after prepare; runtime prepare stops here.                     *)

Written(l) == [manifests EXCEPT ![opt[l].job] = l]

WriteRunManifest(l) ==
  /\ pc[l] = "ready"
  /\ IF opt[l].cmd = "eval"
     THEN Goto(l, "running") /\ manifests' = Written(l)
     ELSE Goto(l, "done") /\ UNCHANGED manifests
  /\ UNCHANGED <<tree, edits, images, opt, spec, context, trial, box>>

-----------------------------------------------------------------------------
(* A trial of the job: SharedAgentRuntimeDockerEnvironment and DeepSweAgent. *)

Phase(l, t, phase) == trial' = [trial EXCEPT ![l][t] = phase]

\* start: the image must be local before Pier brings the container up.
StartTrial(l, t) ==
  /\ pc[l] = "running" /\ trial[l][t] = "none"
  /\ Phase(l, t, IF Exists(l) THEN "starting" ELSE "imageMissing")
  /\ UNCHANGED <<tree, edits, images, manifests, pc, opt, spec, context, box>>

\* Docker resolves the reference when it creates the container.
Mount(l, t) ==
  /\ trial[l][t] = "starting"
  /\ Phase(l, t, IF Exists(l) THEN "mounted" ELSE "imageMissing")
  /\ box' = [box EXCEPT ![l][t] = images[spec[l].ref]]
  /\ UNCHANGED <<tree, edits, images, manifests, pc, opt, spec, context>>

\* setup compares the fingerprint stored in the image with the plan's.
SetupAcceptsMutant(l, t) == box[l][t] # None
SetupAccepts(l, t) == box[l][t].digest = spec[l].digest

Setup(l, t) ==
  /\ trial[l][t] = "mounted"
  /\ Phase(l, t, IF SetupAccepts(l, t) THEN "set" ELSE "refused")
  /\ UNCHANGED <<tree, edits, images, manifests, pc, opt, spec, context, box>>

\* run refuses to start without the run manifest.
RunAgent(l, t) ==
  /\ trial[l][t] = "set"
  /\ Phase(l, t, IF manifests[opt[l].job] # None THEN "ran" ELSE "manifestMissing")
  /\ UNCHANGED <<tree, edits, images, manifests, pc, opt, spec, context, box>>

\* stop takes the trial's containers down and leaves every image alone, where
\* Pier's own environment would remove the images of the compose file.
AfterStopRemovingImagesMutant(l, t) == [images EXCEPT ![spec[l].ref] = None]
AfterStop(l, t) == images

Stop(l, t) ==
  /\ trial[l][t] \in {"mounted", "refused", "ran", "manifestMissing"}
  /\ Phase(l, t, IF trial[l][t] = "ran" THEN "finished" ELSE "broken")
  /\ images' = AfterStop(l, t)
  /\ UNCHANGED <<tree, edits, manifests, pc, opt, spec, context, box>>

-----------------------------------------------------------------------------
(* Somebody edits the checkout.                                             *)

Preparing(l) == pc[l] \in {"hashing", "resolved", "building"}

Edit ==
  /\ edits < MaxEdits
  /\ EditsDuringPrepare \/ \A l \in Launchers : ~Preparing(l)
  /\ edits' = edits + 1
  /\ \E part \in {"pkg", "code"} : \E v \in Versions \ {tree[part]} :
       tree' = [tree EXCEPT ![part] = v]
  /\ UNCHANGED <<images, manifests, pc, opt, spec, context, trial, box>>

Idle ==
  /\ \A l \in Launchers : \/ pc[l] \in {"done", "failed"}
                          \/ /\ pc[l] = "running"
                             /\ \A t \in Trials : trial[l][t] \in
                                  {"imageMissing", "finished", "broken"}
  /\ UNCHANGED vars

Next ==
  \/ \E l \in Launchers :
       \/ ReadManifest(l) \/ ReadSources(l) \/ Inspect(l) \/ SendContext(l)
       \/ FinishBuild(l) \/ FinalInspect(l) \/ WriteRunManifest(l)
       \/ \E t \in Trials :
            \/ StartTrial(l, t) \/ Mount(l, t) \/ Setup(l, t)
            \/ RunAgent(l, t) \/ Stop(l, t)
  \/ Edit
  \/ Idle

Spec == Init /\ [][Next]_vars

-----------------------------------------------------------------------------
\* Every variable keeps its type.
TypeOK ==
  /\ tree \in Trees
  /\ edits \in 0..MaxEdits
  /\ images \in [Refs -> Images \union {None}]
  /\ manifests \in [Jobs -> Launchers \union {None}]
  /\ pc \in [Launchers -> {"idle", "hashing", "resolved", "building", "sent",
                           "built", "ready", "running", "done", "failed"}]
  /\ opt \in [Launchers -> Options]
  /\ spec \in [Launchers -> [digest : Trees, ref : Refs]]
  /\ context \in [Launchers -> Trees]
  /\ trial \in [Launchers -> [Trials -> {"none", "imageMissing", "starting",
       "mounted", "set", "refused", "ran", "manifestMissing", "finished", "broken"}]]
  /\ box \in [Launchers -> [Trials -> Images \union {None}]]

\* A trial whose agent is allowed to start runs the sources its plan names,
\* whatever other launches build under the same reference in the meantime:
\* the fingerprint inside the image is compared in setup, after the mount.
TrialRunsPlannedSources ==
  \A l \in Launchers, t \in Trials :
    trial[l][t] \in {"set", "ran", "finished"} => box[l][t].holds = spec[l].digest

\* Once a launch has started Pier, none of its trials fails because the image
\* or the run manifest is not there, although trials of this and other jobs
\* are torn down all the time.
TrialsFindTheirInputs ==
  \A l \in Launchers, t \in Trials :
    trial[l][t] \notin {"imageMissing", "manifestMissing"}

=============================================================================
