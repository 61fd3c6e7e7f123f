------------------------------ MODULE Startup ------------------------------
(***************************************************************************)
(* From the command line to the first message: serve (cli.py), load_config *)
(* with its validators (config.py), _setup_logging (proxy.py). A           *)
(* configuration is what the YAML file holds, a value for each key that    *)
(* some validator looks at. Texts are absent, empty, or given.             *)
(***************************************************************************)
EXTENDS Integers, FiniteSetsExt

CONSTANTS
    Configs,        \* the configurations a file may hold
    MaxRecords      \* bound: log records

Texts  == {"absent", "empty", "given"}
Levels == {10, 20, 30, 40, 50}      \* DEBUG, INFO, WARNING, ERROR, CRITICAL

\* What pydantic makes of the keys before the validators look at them.
ProxyConfig ==
    [version: Int, transport: {"sse", "streamable_http", "stdio"},
     url: Texts \cup {"other"},                 \* given: http:// or https://
     command: Texts,
     startTimeout: Int, stopTimeout: Int,
     check: {"http", "tcp", "command"},
     checkUrl: Texts, checkAddress: Texts, checkCommand: Texts,
     interval: Int, attempts: Int, timeout: Int,
     logging: Texts,                            \* empty: no file section in it
     logPath: {"empty", "given"},               \* empty: blanks, too
     level: Levels,
     maxSize: {"malformed", "below", "within", "above"},
     backups: Int]

ASSUME ConfigsAssumption == Configs \subseteq ProxyConfig

VARIABLES
    config,         \* what the file holds, if it is readable YAML
    source,         \* the file: yaml, malformed, missing or unreadable
    verbose,        \* the number of -v
    opens,          \* mkdir and RotatingFileHandler succeed
    phase,          \* load, validate, logging, serving or failed
    error,          \* what ended the program: none, ConfigError or another
    root,           \* the root logger's level
    handlers,       \* the level of each installed handler
    records         \* each record logged: its level and the handlers it reached

environment == <<config, source, verbose, opens>>
vars == <<environment, phase, error, root, handlers, records>>

Init ==
    /\ config \in Configs
    /\ source \in {"yaml", "malformed", "missing", "unreadable"}
    /\ opens \in BOOLEAN
    /\ verbose \in 0..3
    /\ phase = "load" /\ error = "none"
    /\ root = 30
    /\ handlers = [stderr |-> 0, file |-> 0]    \* 0: not installed
    /\ records = {}

----------------------------------------------------------------------------
(* The validators. *)

TransportFields(c) ==
    /\ c.transport \in {"sse", "streamable_http"} => c.url = "given"
    /\ c.transport = "stdio" => c.command = "given"

\* Mutant of HealthcheckFields: None is looked for, an empty text and a command
\* are not.
HealthcheckFieldsSome(c) ==
    /\ c.check = "http" => c.checkUrl # "absent"
    /\ c.check = "tcp"  => c.checkAddress # "absent"

HealthcheckFields(c) ==
    /\ c.check = "http"    => c.checkUrl = "given"
    /\ c.check = "tcp"     => c.checkAddress = "given"
    /\ c.check = "command" => c.checkCommand = "given"

Ranges(c) ==
    /\ c.startTimeout \in 1..600 /\ c.stopTimeout \in 1..600
    /\ c.interval \in 1..60 /\ c.attempts \in 1..600 /\ c.timeout \in 1..60

\* _parse_size: the grammar, 1 KB to 10 GB.
SizeFits(size) == size = "within"

LoggingSection(c) ==
    \/ c.logging = "absent"
    \/ /\ c.logging = "given" /\ c.logPath = "given"
       /\ SizeFits(c.maxSize) /\ c.backups \in 1..100

Valid(c) ==
    /\ c.version = 1
    /\ TransportFields(c) /\ Ranges(c) /\ HealthcheckFields(c) /\ LoggingSection(c)

----------------------------------------------------------------------------
(* load_config *)

Fail(with) ==
    /\ phase' = "failed" /\ error' = with
    /\ UNCHANGED <<environment, root, handlers, records>>

Go(to) == phase' = to /\ UNCHANGED error

\* FileNotFoundError and YAMLError are turned into ConfigError; PermissionError,
\* IsADirectoryError and UnicodeDecodeError are not.
Load ==
    /\ phase = "load"
    /\ \/ source = "yaml" /\ Go("validate") /\ UNCHANGED <<environment, root, handlers, records>>
       \/ source \in {"malformed", "missing"} /\ Fail("ConfigError")
       \/ source = "unreadable" /\ Fail("other")

Validate ==
    /\ phase = "validate"
    /\ \/ ~Valid(config) /\ Fail("ConfigError")
       \/ Valid(config) /\ Go("logging") /\ UNCHANGED <<environment, root, handlers, records>>

----------------------------------------------------------------------------
(* _setup_logging *)

StderrLevel(v) == IF v = 0 THEN 30 ELSE IF v = 1 THEN 20 ELSE 10

FileConfigured == config.logging = "given"

\* Mutant of RootLevel: the file's level is left out.
RootLevelOfStderr == StderrLevel(verbose)

RootLevel ==
    IF FileConfigured THEN Min({StderrLevel(verbose), config.level}) ELSE StderrLevel(verbose)

\* A file that cannot be opened is done without.
SetUpLogging ==
    /\ phase = "logging"
    /\ Go("serving")
    /\ root' = RootLevel
    /\ handlers' = [stderr |-> StderrLevel(verbose),
                    file   |-> IF FileConfigured /\ opens THEN config.level ELSE 0]
    /\ UNCHANGED <<environment, records>>

\* logging: the root's level first, then each handler's.
Record ==
    /\ phase = "serving"
    /\ Cardinality(records) < MaxRecords
    /\ \E level \in Levels :
          records' = records \cup
             {[level |-> level,
               to |-> {h \in DOMAIN handlers : /\ handlers[h] # 0
                                               /\ level >= root /\ level >= handlers[h]}]}
    /\ UNCHANGED <<environment, phase, error, root, handlers>>

Ready == phase \in {"serving", "failed"} /\ UNCHANGED vars

Next == Load \/ Validate \/ SetUpLogging \/ Record \/ Ready

Spec == Init /\ [][Next]_vars

----------------------------------------------------------------------------
(* Properties. *)

\* FR-21.2: two channels, independent of each other and of the root logger they
\* share: a record reaches a channel if and only if that channel's own setting,
\* -v or logging.file.level, asks for it.
ChannelsIndependent ==
    \A r \in records :
       /\ "stderr" \in r.to <=> r.level >= StderrLevel(verbose)
       /\ "file" \in r.to <=> FileConfigured /\ opens /\ r.level >= config.level

\* The asserts of create_transport (transport/__init__.py) and run_healthcheck
\* hold in a program that serves, and what Healthcheck and the retry's timeout
\* assume of the numbers: no wait of zero, no attempt too few.
ConsumersServed ==
    phase = "serving" =>
       /\ config.transport # "stdio" => config.url # "absent"
       /\ config.transport = "stdio" => config.command # "absent"
       /\ config.check = "http" => config.checkUrl # "absent"
       /\ config.check = "tcp" => config.checkAddress # "absent"
       /\ config.check = "command" => config.checkCommand # "absent"
       /\ \A n \in {config.interval, config.attempts, config.timeout,
                    Min({config.startTimeout, 60}), config.stopTimeout} : n > 0

=============================================================================
