----------------------------- MODULE MCOneClick -----------------------------
\* OneClick on a small instance.
EXTENDS OneClick

CONSTANTS a1, a2

Of(keys, needs1, needs2, end, named, sound) ==
    [keys |-> keys, needs |-> [a \in Apps |-> IF a = a1 THEN needs1 ELSE needs2],
     end |-> end, named |-> named, sound |-> sound]

ProjectSymmetry == Permutations(ProjectIds)

MCTemplates ==
    {Of(<<a1, a2>>, {a2}, {}, "text", TRUE, TRUE),
     Of(<<a1>>, {}, {}, "", TRUE, TRUE),
     Of(<<a1, a2>>, {a2}, {a1}, "text", TRUE, TRUE),
     Of(<<a1>>, {}, {}, "text", TRUE, FALSE)}
=============================================================================
