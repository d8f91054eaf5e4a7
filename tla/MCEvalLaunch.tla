---------------------------- MODULE MCEvalLaunch ----------------------------
(* Small command lines for EvalLaunch.                                      *)
EXTENDS EvalLaunch, TLC

\* Launchers, trials and file contents are interchangeable.
MCSymmetry ==
  Permutations(Launchers) \union Permutations(Trials) \union Permutations(Versions)

Line(cmd, explicit, platform, rebuild, dry, job) ==
  [cmd |-> cmd, explicit |-> explicit, platform |-> platform,
   rebuild |-> rebuild, dry |-> dry, job |-> job]

\* Evaluations and prepares, with and without an image reference of their own.
MCOptions ==
  {Line("eval", e, "amd64", r, FALSE, "a") : e \in BOOLEAN, r \in BOOLEAN}
    \union {Line("eval", TRUE, "amd64", FALSE, FALSE, "b"),
            Line("prepare", FALSE, "arm64", FALSE, FALSE, "a"),
            Line("prepare", TRUE, "amd64", TRUE, TRUE, "a")}

=============================================================================
