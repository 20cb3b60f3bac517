\* Four sessions at most, in as many tabs or panes: every strip of four tabs
\* with any zone boundary, and every tree of four leaves.
CONSTANT Sessions = {s1, s2, s3, s4}
SPECIFICATION Spec
SYMMETRY Symmetric
INVARIANTS TypeOK StripInv PanesWellFormed DirectionalRoundTrip
PROPERTIES ShownTabKept OthersKeepOrder PanesKept
