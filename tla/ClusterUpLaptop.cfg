CHECK_DEADLOCK FALSE
SPECIFICATION FairSpec
CONSTANTS
    a = a
    b = b
    cpIp = cpIp
    vpn = vpn
    Workers = {1, 2}
    Pool = {a, b}
    CpIp = cpIp
    Vpn = vpn
    MaxByHand = 2
PROPERTIES BuildResumes
