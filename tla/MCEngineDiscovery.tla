------------------------- MODULE MCEngineDiscovery --------------------------
\* The review loop and the scan of what it wrote, on small instances.
EXTENDS EngineDiscovery, TLC
=============================================================================
