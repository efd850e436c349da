SPECIFICATION Spec
CONSTANTS
    r1 = r1
    c1 = c1
    c2 = c2
    Robot = Robot
    NoCaller = NoCaller
    Clients <- MCClients
    Calls <- MCCalls
    Callable <- MCCallable
    Made <- MCClasses
    Keys <- MCKeys
    OutsideStart = TRUE
    RobotServices <- MCRobotServices
    RobotMonitors <- MCRobotMonitors
    MaxMessages = 2
    MaxConnections = 2
INVARIANTS
    StreamsAreWhole
CHECK_DEADLOCK FALSE
