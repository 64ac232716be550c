--------------------------- MODULE MCVmLifecycle ---------------------------
EXTENDS VmLifecycle

MCShares == {"workspace", "work"}
=============================================================================
