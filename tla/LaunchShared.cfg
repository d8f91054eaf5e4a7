\* Two launches over one checkout and one Docker daemon, each with two trials.
SPECIFICATION Spec
CONSTANTS
    Launchers = {l1, l2}
    Trials = {t1, t2}
    Options <- MCOptions
    ImageRef = ImageRef
    Jobs = {"a", "b"}
    Versions = {v1, v2}
    MaxEdits = 1
    EditsDuringPrepare = FALSE
    None = None
SYMMETRY MCSymmetry
INVARIANTS
    TrialRunsPlannedSources
    TrialsFindTheirInputs
