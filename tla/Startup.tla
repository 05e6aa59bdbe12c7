------------------------------- MODULE Startup -------------------------------
(***************************************************************************)
(* How frppc starts: main.go hands the command line over in environment    *)
(* variables, config/ makes the configuration of them and of the .env      *)
(* file, options.go and master_client.go turn that into a service and a    *)
(* connection to master, or into a reason not to run.                      *)
(*                                                                         *)
(* A credential is named after where it was given; it may be "", not       *)
(* given, or " ", blank.  Of the master's address each source says only    *)
(* whether it has one; what it looks like is chosen when it is parsed.     *)
(***************************************************************************)
EXTENDS Integers

CONSTANTS
    Addresses,   \* bound: addresses that may be given
    Intervals    \* bound: FRPPC_SYNC_INTERVAL_SECONDS that may be given

Schemes == {"none", "grpc", "ws", "wss", "http"}
Hosts   == {"", "h:3000", "h:9001", "h:x"}
Paths   == {"", "/", "/x", "/grpc-ws"}
Blank   == [scheme |-> "none", host |-> "", path |-> ""]

ASSUME AddressesAssumption ==
    Addresses \subseteq [scheme : Schemes, host : Hosts, path : Paths] \ {Blank}
ASSUME IntervalsAssumption == Intervals \subseteq Int

VARIABLES
    stage,    \* how far the start has come, or how it has ended
    flags,    \* the arguments, if the client command was given
    process,  \* environment variables FRPPC_ID, FRPPC_SECRET, FRPPC_RPC_URL
    file,     \* .env exists, and has them
    legacy,   \* environment variables CLIENT_ID and CLIENT_SECRET exist
    oldURL,   \* environment variable FRP_RPC_URL exists
    config,   \* configuration "frppc"
    opts,     \* the service's options
    asked,    \* the address that was parsed
    dial      \* what is dialed

startVars == <<stage, flags, process, file, legacy, oldURL, config, opts, asked, dial>>

Fields  == {"id", "secret"}
Sources == {"flag", "process", "file", "legacy", "default"}
None    == [none |-> TRUE]

Given(source) == [id |-> source, secret |-> source, url |-> source]
Nowhere       == Given("")

StartInit ==
    /\ stage = "args" /\ flags = None
    /\ process \in [id : {"", " ", "process"}, secret : {"", " ", "process"},
                    url : {"", "process"}]
    /\ file \in {Nowhere, Given("file")}
    /\ legacy \in BOOLEAN /\ oldURL \in BOOLEAN
    /\ config = None /\ opts = None /\ asked = None /\ dial = None

-----------------------------------------------------------------------------
(* main.go. *)

Trim(text) == IF text = " " THEN "" ELSE text

(* No arguments, or a command of the framework's. *)
NoClientArgs ==
    /\ stage = "args" /\ stage' = "boot"
    /\ UNCHANGED <<flags, process, file, legacy, oldURL, config, opts, asked, dial>>

\* Seeded fault: the address of the command line is not handed over.
WithFlagsNoURL(f) == [f EXCEPT !.url = process.url]

(* os.Setenv of what was given. *)
WithFlags(f) == [f EXCEPT !.url = IF f.url = "" THEN process.url ELSE f.url]

ClientArgs ==
    /\ stage = "args"
    /\ \E f \in [id : {"", " ", "flag"}, secret : {"", " ", "flag"}, url : {"", "flag"}] :
         IF \E x \in Fields : Trim(f[x]) = ""
         THEN stage' = "usage" /\ UNCHANGED <<flags, process>>
         ELSE stage' = "boot" /\ flags' = f /\ process' = WithFlags(f)
    /\ UNCHANGED <<file, legacy, oldURL, config, opts, asked, dial>>

WrongArgs ==
    /\ stage = "args" /\ stage' = "usage"
    /\ UNCHANGED <<flags, process, file, legacy, oldURL, config, opts, asked, dial>>

-----------------------------------------------------------------------------
(* config/. *)

(* The framework's Env: the process' variable, or else the file's. *)
Env(x) == IF process[x] # "" THEN process[x] ELSE file[x]

LoadApp ==
    /\ stage = "boot"
    /\ stage' = IF \E x \in Fields : Env(x) = "" THEN "panic" ELSE "load"
    /\ UNCHANGED <<flags, process, file, legacy, oldURL, config, opts, asked, dial>>

LoadFrppc ==
    /\ stage = "load" /\ stage' = "new"
    /\ \E enabled \in BOOLEAN, interval \in Intervals \cup {300} :
         config' = [id |-> Env("id"), secret |-> Env("secret"), url |-> Env("url"),
                    enabled |-> enabled, interval |-> interval]
    /\ UNCHANGED <<flags, process, file, legacy, oldURL, opts, asked, dial>>

-----------------------------------------------------------------------------
(* options.go and master_client.go. *)

FirstNonEmptyEnv(x, old, name) ==
    IF Trim(process[x]) # "" THEN process[x] ELSE IF old THEN name ELSE ""

Option(x) ==
    IF Trim(config[x]) # "" THEN config[x] ELSE FirstNonEmptyEnv(x, legacy, "legacy")

AddressFrom == IF config.url # "" THEN config.url
               ELSE LET old == FirstNonEmptyEnv("url", oldURL, "legacy")
                    IN  IF old # "" THEN old ELSE "default"

ResolveOptions ==
    [id |-> Option("id"), secret |-> Option("secret"), url |-> AddressFrom,
     enabled |-> config.enabled,
     interval |-> IF config.interval <= 0 THEN 30 ELSE config.interval]

DefaultURL == [scheme |-> "grpc", host |-> "h:9001", path |-> ""]

\* Seeded fault: the path is appended to whatever there is.
InferredAlways(a) == [a EXCEPT !.scheme = "ws", !.path = "/grpc-ws"]

Inferred(a) == [a EXCEPT !.scheme = "ws", !.path = IF @ = "" THEN "/grpc-ws" ELSE @]

(* inferWebSocketRPCURL, which both functions call.  Of the addresses that *)
(* contain "/grpc-ws" the ones whose path it is are modelled.              *)
LooksWebSocket(a) == a.path = "/grpc-ws" \/ a.host = "h:3000"

\* What resolveOptionsFromConfig does to an address of an old variable.
LegacyURL(a) ==
    IF a.scheme = "none"
    THEN IF LooksWebSocket(a) THEN Inferred(a) ELSE [a EXCEPT !.scheme = "grpc"]
    ELSE a

\* What newMasterClient does to every address, in lines of its own.
WithScheme(a) ==
    IF a.scheme # "none" THEN a
    ELSE IF LooksWebSocket(a) THEN Inferred(a) ELSE [a EXCEPT !.scheme = "grpc"]

(* url.Parse, an address of some kind, and a scheme that is supported. *)
Usable(u) ==
    /\ u.host # "h:x"
    /\ u.host # "" \/ u.path # ""
    /\ u.scheme # "http"

(* newMasterClient: without a host, the path is taken for it. *)
Dial(u) ==
    IF u.scheme = "grpc"
    THEN [by |-> "grpc", to |-> IF u.host # "" THEN u.host ELSE u.path, path |-> ""]
    ELSE [by |-> u.scheme, to |-> u.host,
          path |-> IF u.path \in {"", "/"} THEN "/grpc-ws" ELSE u.path]

\* Seeded fault: the secret is not asked for.
ValidIdentified(o) == o.id # ""

(* validateRequiredOptions *)
Valid(o) == o.id # "" /\ o.secret # ""

(* resolveOptionsFromConfig, which normalises an old variable's address    *)
(* already, and NewServiceWithOptions.                                     *)
NewService ==
    /\ stage = "new"
    /\ opts' = ResolveOptions
    /\ IF ~opts'.enabled \/ ~Valid(opts')
       THEN stage' = "idle" /\ UNCHANGED <<asked, dial>>
       ELSE \E a \in IF opts'.url = "default" THEN {DefaultURL} ELSE Addresses :
              LET u == WithScheme(IF opts'.url = "legacy" THEN LegacyURL(a) ELSE a)
              IN  /\ asked' = a
                  /\ IF Usable(u) THEN stage' = "running" /\ dial' = Dial(u)
                                  ELSE stage' = "fatal" /\ UNCHANGED dial
    /\ UNCHANGED <<flags, process, file, legacy, oldURL, config>>

-----------------------------------------------------------------------------
Start == NoClientArgs \/ ClientArgs \/ WrongArgs \/ LoadApp \/ LoadFrppc \/ NewService

StartSpec == StartInit /\ [][Start]_startVars

-----------------------------------------------------------------------------
(* Correctness.                                                            *)

(* README.md:165: what the command line says wins over the environment and *)
(* the file, and nothing is mixed with it.                                 *)
FlagsWin ==
    stage = "running" /\ flags # None =>
        /\ \A x \in Fields : opts[x] = "flag"
        /\ flags.url # "" => opts.url = "flag"

(* README.md:119-130, 171 and 172: only an agent that is enabled and has   *)
(* both credentials runs, and it has a period to pull at.                  *)
RunsOnlyWhole ==
    stage = "running" =>
        /\ config.enabled /\ opts.interval > 0
        /\ \A x \in Fields : opts[x] \notin {"", " "}

(* What runs is what was asked for, and is fit to run. *)
RunsAsTold == FlagsWin /\ RunsOnlyWhole

(* Whatever source the address came from, and however often it has been    *)
(* normalised: its host is dialed, in the way its scheme says; a websocket *)
(* has a path, the one given if one was; and without a scheme it is a      *)
(* websocket for master's port or path and nothing else.                   *)
DialsAsAddressed ==
    stage = "running" =>
        /\ asked.host # "" => dial.to = asked.host
        /\ asked.scheme # "none" => dial.by = asked.scheme
        /\ asked.scheme = "none" =>
             dial.by = IF asked.path = "/grpc-ws" \/ asked.host = "h:3000" THEN "ws" ELSE "grpc"
        /\ dial.by # "grpc" =>
             /\ dial.path \notin {"", "/"}
             /\ asked.path \notin {"", "/"} => dial.path = asked.path

=============================================================================
