----------------------------- MODULE MCDomains ------------------------------
\* Domains on small instances.
EXTENDS Domains

CONSTANTS r1, r2, a1, a2, c1, R1, R2

\* Requests are told apart by when they began, apps by nothing.
Symmetry == Permutations({r1, r2}) \cup Permutations({a1, a2})

RegistryKinds == {"rootssl", "changeroot", "enableregistry", "disableregistry",
                  "addregistry", "deleteregistry", "setpush"}
=============================================================================
