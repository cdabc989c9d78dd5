CONSTANTS
    Threads = {t1, t2, t3}
    Modulus = 4
SPECIFICATION Spec
INVARIANTS MutualExclusion NumbersInService
PROPERTIES EventuallyServed ImplementsFifo
