------------------------- MODULE MCHiperfCommandLine -------------------------
EXTENDS HiperfCommandLine

\* Options that tell the cases apart: the two roles, RTC, a client option
\* that sets options (-t) and one that does not (-P), the producer options
\* -r and -l, the two RTC modes -I and -T, a rate -B that parses (after
\* tolower) and one that does not, -v, which has no case, -W with a window
\* of 0 and of 4, and -b.
Opt(o) == [opt |-> o, arg |-> "none"]
MCArgs ==
    {Opt(o) : o \in {"S", "C", "R", "t", "P", "r", "l", "I", "T", "v", "b"}}
    \cup {[opt |-> "B", arg |-> u] : u \in {"KBPS", "Mbps"}}
    \cup {[opt |-> "W", arg |-> w] : w \in {0, 4}}

\* Four options: room for a role, -R and both -I and -T.
MCMaxArgs == 4
=============================================================================
