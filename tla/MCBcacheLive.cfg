\* The same with two buffers for three blocks, two of them written, whose contents do
\* not matter.
CONSTANTS
    Procs = {p1, p2}
    NBUF = 2
    Blocks = {k1, k2, k3}
    k1 = k1
    k2 = k2
    k3 = k3
    k4 = k4
    Written = {k1, k2}
    BadBlocks = {k3}
    Values = {1}
    Zero = 1
    Image <- BootImage
    MaxPinned = 1
    Nests <- InOrder
    None = None
SPECIFICATION FairSpec
PROPERTIES
    DiskAnswers
