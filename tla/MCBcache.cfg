\* Two processes that take up to two buffers each, three buffers, four blocks, one
\* of them written and one bad; the log pins at most one buffer.
CONSTANTS
    Procs = {p1, p2}
    NBUF = 3
    Blocks = {k1, k2, k3, k4}
    k1 = k1
    k2 = k2
    k3 = k3
    k4 = k4
    Written = {k1}
    BadBlocks = {k3}
    Values = {0, 1}
    Zero = 0
    Image <- BootImage
    MaxPinned = 1
    Nests <- InOrder
    None = None
SPECIFICATION Spec
SYMMETRY Processes
INVARIANTS
    CacheCoherent
    BuffersSuffice
PROPERTIES
    OnlyHolderChanges
