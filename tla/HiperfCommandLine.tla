-------------------------- MODULE HiperfCommandLine --------------------------
(***************************************************************************)
(* hiperf's main(): the getopt loop that fills a ClientConfiguration and a *)
(* ServerConfiguration and counts the role (-S decrements, -C increments), *)
(* the checks that follow it (client options in server mode, server       *)
(* options in client mode, no role, no name), and the choice between       *)
(* HIperfClient and HIperfServer.  The server's run() and setup() read     *)
(* the configuration: which RTC production run() starts (RunMode) and     *)
(* which CACHE_MISS callback setup() installs (ProducerKind).             *)
(*                                                                         *)
(* An argument is a record [opt, arg]; only -B's argument matters (it is  *)
(* lower-cased and must contain "kbps", or Rate's operator= throws and,   *)
(* uncaught, terminates the program).  Log file, daemon, I/O module and   *)
(* configuration file options change nothing the checks read.             *)
(***************************************************************************)
EXTENDS Naturals, Integers, Sequences, SequencesExt

CONSTANTS
    Args,       \* the options a command line may contain ([opt, arg] records)
    MaxArgs     \* model bound: options on one command line

ClientOpts == {"b", "d", "W", "M", "c", "i", "t", "L"}      \* set options = 1
ServerOpts == {"A", "s", "r", "m", "l", "K", "y", "p", "x", "B"}   \* options = -1
Known      == ClientOpts \cup ServerOpts \cup
              {"D", "I", "T", "f", "R", "z", "F", "S", "C", "k", "P", "E"}

\* std::tolower over the -B arguments the model uses.
ToLower == [u \in {"kbps", "KBPS", "Kbps", "mbps", "Mbps"} |->
               IF u \in {"kbps", "KBPS", "Kbps"} THEN "kbps" ELSE "mbps"]

VARIABLES
    argv,       \* the options, in order (never changes)
    has_name,   \* argv[optind] != 0: a name follows the options (never changes)
    idx,        \* getopt's position in argv
    role,       \* role: -1 server, 0 undefined, 1 client (a counter)
    options,    \* options: 1 client-specific, -1 server-specific, 0 none
    srv,        \* the ServerConfiguration fields the server reads
    cli,        \* the ClientConfiguration fields the client reads
    pc,         \* "getopt", then "client", "server", "usage" or "terminate",
                \* then "running" once setup() and run() have started
    started     \* what setup() and run() installed (NotStarted before)

vars == <<argv, has_name, idx, role, options, srv, cli, pc, started>>

NotStarted == [production |-> "none"]   \* neither setup() has run

TypeOK ==
    /\ argv \in Seq(Args) /\ has_name \in BOOLEAN
    /\ idx \in 1 .. MaxArgs + 1
    /\ role \in -MaxArgs .. MaxArgs
    /\ options \in {-1, 0, 1}
    /\ srv \in [rtc : BOOLEAN, interactive : BOOLEAN, trace_based : BOOLEAN,
                virtual_producer : BOOLEAN, live_production : BOOLEAN]
    /\ cli \in [rtc : BOOLEAN, test_mode : BOOLEAN, secure : BOOLEAN,
                window : {-1} \cup {a.arg : a \in {b \in Args : b.opt = "W"}},
                beta_set : BOOLEAN]
    /\ pc \in {"getopt", "client", "server", "usage", "terminate", "running"}
    /\ started \in {NotStarted} \cup
         [protocol : {"RTC", "RAAQM", "CBR"}, read_callback : {"callback", "rtc_callback"},
          audit : BOOLEAN, beta_applied : BOOLEAN] \cup
         [production : {"interactive", "trace", "rate", "virtual", "live", "static"}]

-----------------------------------------------------------------------------
(* The configurations.                                                     *)

\* Mutant: the server is a real producer unless told otherwise.
ServerDefaultsReal ==
    [rtc |-> FALSE, interactive |-> FALSE, trace_based |-> FALSE,
     virtual_producer |-> FALSE, live_production |-> FALSE]

\* ServerConfiguration(): virtual_producer(true), live_production(false), ...
ServerDefaults ==
    [rtc |-> FALSE, interactive |-> FALSE, trace_based |-> FALSE,
     virtual_producer |-> TRUE, live_production |-> FALSE]

\* ClientConfiguration(): rtc_(false), test_mode_(false), secure_(false),
\* window(-1), beta(-1.f) (unset).
ClientDefaults == [rtc |-> FALSE, test_mode |-> FALSE, secure |-> FALSE,
                   window |-> -1, beta_set |-> FALSE]

\* Rate::operator=(str) after std::transform(::tolower): accepted only if
\* the string contains "kbps" (else std::runtime_error).
RateAccepts(arg) == ToLower[arg] = "kbps"

-----------------------------------------------------------------------------
(* The switch of the getopt loop.                                          *)

\* Mutant: -S and -C assign the role instead of counting.
RoleOfAssign(o, r) == CASE o = "S" -> -1 [] o = "C" -> 1 [] OTHER -> r

\* case 'S': role -= 1;  case 'C': role += 1.
RoleOf(o, r) == CASE o = "S" -> r - 1 [] o = "C" -> r + 1 [] OTHER -> r

\* Mutant: options accumulates instead of being overwritten.
OptionsOfAccumulate(o, opts) ==
    CASE o \in ClientOpts -> opts + 1
      [] o \in ServerOpts -> opts - 1
      [] OTHER            -> opts

\* Every client-specific case sets options = 1, every server-specific one
\* options = -1; -D, -I, -T, -f, -R, -z, -F, -S, -C, -k, -P, -E leave it.
OptionsOf(o, opts) ==
    CASE o \in ClientOpts -> 1
      [] o \in ServerOpts -> -1
      [] OTHER            -> opts

\* The server_configuration assignments of the cases.
ServerSet(o, s) ==
    CASE o = "R" -> [s EXCEPT !.rtc = TRUE]
      [] o = "r" -> [s EXCEPT !.virtual_producer = FALSE]
      [] o = "l" -> [s EXCEPT !.live_production = TRUE]
      [] o = "I" -> [s EXCEPT !.interactive = TRUE, !.trace_based = FALSE]
      [] o = "T" -> [s EXCEPT !.interactive = FALSE, !.trace_based = TRUE]
      [] OTHER   -> s

\* The client_configuration assignments of the cases (-W's optarg is the
\* number std::stod reads from it).
ClientSet(o, arg, c) ==
    CASE o = "R" -> [c EXCEPT !.rtc = TRUE]
      [] o = "t" -> [c EXCEPT !.test_mode = TRUE]
      [] o = "P" -> [c EXCEPT !.secure = TRUE]
      [] o = "W" -> [c EXCEPT !.window = arg]
      [] o = "b" -> [c EXCEPT !.beta_set = TRUE]
      [] OTHER   -> c

\* getopt returns the next option and the switch runs its case: an option
\* not in the optstring (or -h, or -v, which is in it but has no case)
\* prints the usage and exits; a -B rate without "kbps" throws out of main.
GetOpt ==
    /\ pc = "getopt" /\ idx <= Len(argv)
    /\ LET a == argv[idx] IN
       IF a.opt \notin Known
          THEN pc' = "usage" /\ UNCHANGED <<idx, role, options, srv, cli>>
       ELSE IF a.opt = "B" /\ ~RateAccepts(a.arg)
          THEN pc' = "terminate" /\ UNCHANGED <<idx, role, options, srv, cli>>
       ELSE /\ idx' = idx + 1
            /\ role' = RoleOf(a.opt, role)
            /\ options' = OptionsOf(a.opt, options)
            /\ srv' = ServerSet(a.opt, srv)
            /\ cli' = ClientSet(a.opt, a.arg, cli)
            /\ UNCHANGED pc
    /\ UNCHANGED <<argv, has_name, started>>

-----------------------------------------------------------------------------
(* After the loop.                                                         *)

\* The three checks after the loop: client options with a server role,
\* server options with a client role, no role.
Rejected(r, opts) == (opts > 0 /\ r < 0) \/ (opts < 0 /\ r > 0) \/ r = 0

\* getopt returns -1: the checks, the name check, then HIperfClient for a
\* positive role and HIperfServer for a negative one (the final else, a
\* zero role, is already excluded by the third check).
EndOfOptions ==
    /\ pc = "getopt" /\ idx > Len(argv)
    /\ pc' = IF Rejected(role, options) \/ ~has_name THEN "usage"
             ELSE IF role > 0 THEN "client"
             ELSE IF role < 0 THEN "server"
             ELSE "usage"
    /\ UNCHANGED <<argv, has_name, idx, role, options, srv, cli, started>>

\* Mutant: a window of 0 is taken as unset.
ClientProtocolZeroUnset(c) ==
    IF c.rtc THEN "RTC" ELSE IF c.window <= 0 THEN "RAAQM" ELSE "CBR"

\* HIperfClient::setup(): RTC with -R, RAAQM for a negative window (the
\* default), else CBR.
ClientProtocol(c) ==
    IF c.rtc THEN "RTC" ELSE IF c.window < 0 THEN "RAAQM" ELSE "CBR"

\* HIperfClient::setup() then run(): the consumer socket of the protocol,
\* beta (and the drop factor) only for RAAQM and only when set, the
\* READ_CALLBACK (rtc_callback_ or callback_), CONTENT_OBJECT_INPUT =
\* checkReceivedRtcContent for RTC, which audits only in test mode; then
\* asyncConsume.  (The socket-option calls that can fail are the
\* consumer socket's, not modelled: they succeed.)
ClientStart ==
    /\ pc = "client"
    /\ LET p == ClientProtocol(cli) IN
       started' = [protocol      |-> p,
                   read_callback |-> IF cli.rtc THEN "rtc_callback" ELSE "callback",
                   audit         |-> cli.rtc /\ cli.test_mode,
                   beta_applied  |-> p = "RAAQM" /\ cli.beta_set]
    /\ pc' = "running"
    /\ UNCHANGED <<argv, has_name, idx, role, options, srv, cli>>

\* HIperfServer::run() with -R: interactive_ first, then trace_based_,
\* else the rate timer.
RunMode(s) ==
    IF s.interactive THEN "interactive" ELSE IF s.trace_based THEN "trace" ELSE "rate"

\* HIperfServer::setup() without -R: virtualProcessInterest for a virtual
\* producer, asyncProcessInterest for live production, else the content
\* is produced at once.
ProducerKind(s) ==
    IF s.virtual_producer THEN "virtual"
    ELSE IF s.live_production THEN "live" ELSE "static"

\* HIperfServer::setup() then run(): an RTC server returns from setup()
\* before any CACHE_MISS callback and run() starts its production mode;
\* otherwise setup() installs the producer of ProducerKind.
ServerStart ==
    /\ pc = "server"
    /\ started' = [production |-> IF srv.rtc THEN RunMode(srv) ELSE ProducerKind(srv)]
    /\ pc' = "running"
    /\ UNCHANGED <<argv, has_name, idx, role, options, srv, cli>>

\* The program as started: every sequence of at most MaxArgs options, with
\* or without a name after them; main()'s locals role = 0, options = 0 and
\* the two default configurations.
Init ==
    /\ argv \in BoundedSeq(Args, MaxArgs)
    /\ has_name \in BOOLEAN
    /\ idx = 1
    /\ role = 0 /\ options = 0
    /\ srv = ServerDefaults
    /\ cli = ClientDefaults
    /\ pc = "getopt"
    /\ started = NotStarted

Next == GetOpt \/ EndOfOptions \/ ClientStart \/ ServerStart

Spec == Init /\ [][Next]_vars

-----------------------------------------------------------------------------
(* Properties.  The references below are written from the command line    *)
(* itself, not from the loop: what getopt reaches, and the last option of *)
(* each kind.                                                              *)

\* The options the loop processes before it stops on an unknown option or
\* a rate it cannot parse, and the option it stops on (0 if none).
StopsAt(a) == a.opt \notin Known \/ (a.opt = "B" /\ ~RateAccepts(a.arg))
StopIndex(s) == SelectInSeq(s, StopsAt)

\* The role: the number of -C minus the number of -S.
RoleOfArgs(s) ==
    Len(SelectSeq(s, LAMBDA a : a.opt = "C")) - Len(SelectSeq(s, LAMBDA a : a.opt = "S"))

\* main() exits with the usage at the first unknown option and terminates
\* on an uncaught Rate exception at the first -B it cannot parse (options
\* after either are never read); with every option read, it exits with the
\* usage when the -C and -S counts cancel out or no name is given; and a
\* client or server it starts is the one the sign of the count of -C over
\* -S selects.  (Whether a role-specific option of the other side is
\* refused is left out: see the hazard at hiperf.cc:1595.)
ExitAsCommandLine ==
    LET j == StopIndex(argv)
        r == RoleOfArgs(argv)
    IN  pc # "getopt" =>
          /\ j > 0 => pc = IF argv[j].opt \notin Known THEN "usage" ELSE "terminate"
          /\ (j = 0 /\ (r = 0 \/ ~has_name)) => pc = "usage"
          /\ pc = "running" =>
                /\ j = 0
                /\ IF "protocol" \in DOMAIN started THEN r > 0 ELSE r < 0

\* The command line contains option o.
Has(o) == \E i \in 1 .. Len(argv) : argv[i].opt = o

\* A started server (role < 0) / client (role > 0).
ServerRunning == pc = "running" /\ "production" \in DOMAIN started
ClientRunning == pc = "running" /\ "protocol" \in DOMAIN started

\* A non-RTC server's setup() installs virtualProcessInterest unless -r is
\* given; with -r it produces on demand (asyncProcessInterest) iff -l is
\* given too, else it produces the whole content at once.  -l without -r
\* is thus ignored.
ServerProducerAsOptions ==
    (ServerRunning /\ ~Has("R")) =>
        started.production = IF ~Has("r") THEN "virtual"
                             ELSE IF Has("l") THEN "live" ELSE "static"

\* A started client downloads with RTC under -R; otherwise with CBR if the
\* last -W gave a window of 0 or more, else (no -W, or a negative one) with
\* RAAQM.  -b reaches the socket only under RAAQM (with -W or -R it is
\* silently dropped), and the RTC audit runs only with both -R and -t.
ClientProtocolAsOptions ==
    ClientRunning =>
        LET j     == SelectLastInSeq(argv, LAMBDA a : a.opt = "W")
            proto == IF Has("R") THEN "RTC"
                     ELSE IF j > 0 /\ argv[j].arg >= 0 THEN "CBR" ELSE "RAAQM"
        IN  /\ started.protocol = proto
            /\ started.beta_applied = (proto = "RAAQM" /\ Has("b"))
            /\ started.audit = (Has("R") /\ Has("t"))

=============================================================================
