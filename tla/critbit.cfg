SPECIFICATION Spec
CONSTANTS
    Threads = {t1, t2}
    Width = 2
    Digests <- MCDigests
    Heads = {h1, h2, h3, h4}
    Ys = {y1, y2, y3}
    Root = Root
    None = None
    MaxRef = 1
SYMMETRY MCSymmetry
INVARIANTS
    NoDangling
    Findable
PROPERTIES
    ImplementsSlinger
