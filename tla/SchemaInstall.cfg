\* Two openers of a new file, or of one of every older and a newer version; kills
\* and failing statements at every point, the reading of the version included.
SPECIFICATION Spec
CONSTANTS
    b1 = b1
    b2 = b2
    Backends = {b1, b2}
    Versions = {0, 1, 2, 3, 4, 5}
    MaxFails = 3
INVARIANT OpenUsable
PROPERTIES NewerRefused OpensInTheEnd
