CONSTANTS
  Reqs = {r1, r2}
  Sources = {s0, s1}
  Default = {s0}
  Edited = {s1}
  Changes = {c1, c2, c3}
SPECIFICATION MCSpec
SYMMETRY Symmetry
INVARIANTS WhatIsSetHolds WritesWhereChosen
