\* IPv6 and IPv4 namespaces of lengths 0 to 128 in steps of 16.
\* addHicnKeyIdCb places the key id at byte prefix_len / 8 of the prefix it
\* sends and at word prefix_len / 32 of the prefix it registers: for a /48
\* (or any length not a multiple of 32) they differ.
CONSTANTS
    Families = {"AF_INET6", "AF_INET"}
    PrefixLens = {0, 16, 32, 48, 64, 80, 96, 112, 128}
SPECIFICATION Spec
INVARIANT KeyIdPrefixAgrees
\* The callback runs once per handshake.
CHECK_DEADLOCK FALSE
