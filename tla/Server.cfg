\* Three clients against a limit of two connections, the real MAX_BACKOFF;
\* every command completes (its client reads the response).
CONSTANTS
    Conns = {c1, c2, c3}
    MaxConnections = 2
    MaxBackoff = 64
SPECIFICATION Spec
INVARIANT TypeOK
INVARIANT ConnectionLimit
INVARIANT AcceptRetryBudget
PROPERTY ServerTerminates
