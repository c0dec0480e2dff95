\* As Server.cfg, but a client may stop reading its responses.
CONSTANTS
    Conns = {c1, c2, c3}
    MaxConnections = 2
    MaxBackoff = 64
SPECIFICATION SpecStalledClients
PROPERTY ServerTerminates
