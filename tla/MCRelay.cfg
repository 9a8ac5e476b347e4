CONSTANTS
    d1 = d1
    d2 = d2
    b1 = b1
    pc = pc
    alice = alice
    Conns = {d1, d2, b1}
    Devices = {pc}
    Users = {alice}
    RoleOf <- MCRoleOf
    DeviceOf <- MCDeviceOf
    UserOf <- MCUserOf
    OwnerOf <- MCOwnerOf
    NoConn = NoConn
SPECIFICATION RelaySpec
CHECK_DEADLOCK FALSE
INVARIANTS
    RoutesAreExact
    PresenceIsTrue
    SocketInvariant
PROPERTIES
    DeadSocketsClose
