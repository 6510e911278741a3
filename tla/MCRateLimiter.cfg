SPECIFICATION LimiterSpec
CONSTANTS
    Ips = {ip1, ip2}
    Requests = {q1, q2}
    GlobalRPM = 2
    PerIPRPM = 1
    MaxTime = 75
    Ticks = {15, 45}
    Absent = Absent
INVARIANTS
    GlobalBound
    PerIPBound
SYMMETRY RequestSymmetry
