SPECIFICATION Spec
CONSTANTS
    Names <- MCNames
    Addresses <- MCAddresses
    IPv6 <- MCIPv6
    Ports = {"80", "443"}
    NoProxyLists <- MCNoProxyLists
    ConnectPorts = {"80"}
    NoText = NoText
    V4Bits = 2
    Mapped <- MCMapped
    AllowLists <- MCAllowLists
INVARIANT AdmitsAsNamed
INVARIANT RoutedAsNamed
INVARIANT TunnelPortAllowed
CHECK_DEADLOCK FALSE
