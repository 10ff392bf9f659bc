\* Two callers of a bucket that holds two debits and refills one in two units
\* of time.
SPECIFICATION BucketSpec
CONSTANTS
    Callers = {c1, c2}
    NoCaller = NoCaller
    Capacity = 4
    Rate = 1
    Cost = 2
    MaxTime = 6
SYMMETRY Same
INVARIANTS
    WindowBound
