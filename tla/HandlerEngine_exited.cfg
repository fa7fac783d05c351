CONSTANTS
    r1 = r1
    r2 = r2
    t1 = t1
    t2 = t2
    u1 = u1
    m1 = m1
    h1 = h1
    x1 = x1
    None = None
    Robot = {r1}
    Request = {t1}
    RobotOf <- MCRobotOf
    Via <- MCVia
SPECIFICATION FairSpec
PROPERTIES
    ExitedScriptIsUnregistered
