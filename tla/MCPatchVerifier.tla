-------------------------- MODULE MCPatchVerifier ---------------------------
\* PatchVerifier with four Pier installations.
EXTENDS PatchVerifier

MCInstalled ==
    {[package |-> "0.3.0", command |-> "0.3.0", compatible |-> TRUE],
     [package |-> "0.3.0", command |-> "unknown", compatible |-> TRUE],
     [package |-> "0.3.0", command |-> "0.2.0", compatible |-> TRUE],
     [package |-> "0.3.0", command |-> "0.3.0", compatible |-> FALSE]}
=============================================================================
