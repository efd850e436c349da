SPECIFICATION Spec
CONSTANTS
    r1 = r1
    c1 = c1
    c2 = c2
    Robot = Robot
    NoCaller = NoCaller
    Clients <- MCClients
    Calls <- MCCalls
    Callable <- AnyCallable
    Made <- Classes
    Keys <- MCKeys
    OutsideStart = FALSE
    RobotServices <- MCRobotServices
    RobotMonitors <- MCRobotMonitors
    MaxMessages = 2
    MaxConnections = 2
INVARIANTS
    MotionIsWatched
CHECK_DEADLOCK FALSE
