--------------------------- MODULE MCControlPlane ---------------------------
\* A small control plane for TLC: two machines, of which one is installed, and
\* two apps.
EXTENDS ControlPlane

=============================================================================
