CONSTANTS
    Args <- MCArgs
    MaxArgs <- MCMaxArgs
SPECIFICATION Spec
INVARIANTS
    TypeOK
    ExitAsCommandLine
    ClientProtocolAsOptions
    ServerProducerAsOptions
\* main() returns: a finished command line has no further step.
CHECK_DEADLOCK FALSE
