SPECIFICATION FairSpec
CONSTANTS
    Threads = {t1, t2}
    Objects = {o1, o2}
    Reentrant = {}
    Null = null
PROPERTIES
    CallsKeepFinishing
    ReturnsAlone
