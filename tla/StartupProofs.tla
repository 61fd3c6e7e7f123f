---------------------------- MODULE StartupProofs ----------------------------
(***************************************************************************)
(* Proofs about the program's start, for any configurations and any number *)
(* of log records: what the validators let through, and which channels a   *)
(* record reaches.                                                         *)
(***************************************************************************)
EXTENDS Startup, TLAPS

\* The lesser of two numbers, as FiniteSetsExt defines it.
LEMMA MinOfTwo ==
    ASSUME NEW a \in Int, NEW b \in Int
    PROVE  Min({a, b}) = IF a <= b THEN a ELSE b
<1>1. CASE a <= b
  <2>1. Min({a, b}) = CHOOSE x \in {a, b} : \A y \in {a, b} : x <= y
    BY DEF Min
  <2>2. a \in {a, b} /\ \A y \in {a, b} : a <= y
    BY <1>1
  <2>3. \A x \in {a, b} : (\A y \in {a, b} : x <= y) => x = a
    BY <1>1
  <2>. QED
    BY <1>1, <2>1, <2>2, <2>3
<1>2. CASE ~(a <= b)
  <2>1. Min({a, b}) = CHOOSE x \in {a, b} : \A y \in {a, b} : x <= y
    BY DEF Min
  <2>2. b \in {a, b} /\ \A y \in {a, b} : b <= y
    BY <1>2
  <2>3. \A x \in {a, b} : (\A y \in {a, b} : x <= y) => x = b
    BY <1>2
  <2>. QED
    BY <1>2, <2>1, <2>2, <2>3
<1>. QED
  BY <1>1, <1>2

\* The levels are levels and the transports are transports.
LEMMA KeysOfConfig ==
    \A c \in Configs : /\ c.level \in Levels
                       /\ c.transport \in {"sse", "streamable_http", "stdio"}
  BY ConfigsAssumption DEF ProxyConfig

\* What each phase knows: a program that logs has a valid configuration, the
\* levels of the root and of the handlers are set when it serves, and a record
\* reached the handlers whose level, and the root's, it is not below.
Served ==
    phase = "serving" =>
       /\ root = RootLevel
       /\ handlers = [stderr |-> StderrLevel(verbose),
                      file   |-> IF FileConfigured /\ opens THEN config.level ELSE 0]

Recorded ==
    \A r \in records :
       /\ phase = "serving"
       /\ r.level \in Levels
       /\ r.to = {h \in {"stderr", "file"} : /\ handlers[h] # 0
                                             /\ r.level >= root /\ r.level >= handlers[h]}

StartupInv ==
    /\ config.level \in Levels
    /\ config.transport \in {"sse", "streamable_http", "stdio"}
    /\ verbose \in 0..3
    /\ phase \in {"logging", "serving"} => Valid(config)
    /\ Served
    /\ Recorded

\* It holds initially.
LEMMA StartupInit == Init => StartupInv
<1>1. Init => config.level \in Levels /\ config.transport \in {"sse", "streamable_http", "stdio"}
  BY KeysOfConfig DEF Init
<1>. QED
  BY <1>1 DEF Init, StartupInv, Served, Recorded

\* Every step keeps it.
LEMMA StartupStep == StartupInv /\ [Next]_vars => StartupInv'
<1>. SUFFICES ASSUME StartupInv, [Next]_vars PROVE StartupInv'
  OBVIOUS
<1>. USE DEF environment
<1>1. CASE Load \/ Validate
  <2>1. UNCHANGED <<config, verbose, opens, root, handlers, records>> /\ phase # "serving" /\ phase' # "serving"
    BY <1>1 DEF Load, Validate, Fail, Go
  <2>2. phase' = "logging" => Valid(config)
    BY <1>1 DEF Load, Validate, Fail, Go
  <2>3. Valid(config)' <=> Valid(config)
    BY <2>1
  <2>. QED
    BY <2>1, <2>2, <2>3 DEF StartupInv, Served, Recorded
<1>2. CASE SetUpLogging
  <2>1. records = {}
    BY <1>2 DEF SetUpLogging, StartupInv, Recorded
  <2>2. UNCHANGED <<config, verbose, opens, records>> /\ phase' = "serving" /\ Valid(config)
    BY <1>2 DEF SetUpLogging, Go, StartupInv
  <2>3. Served'
    BY <1>2 DEF SetUpLogging, Go, Served, RootLevel, StderrLevel, FileConfigured
  <2>4. Valid(config)'
    BY <2>2
  <2>. QED
    BY <2>1, <2>2, <2>3, <2>4 DEF StartupInv, Recorded
<1>3. CASE Record
  <2>1. PICK level \in Levels :
           records' = records \cup
             {[level |-> level,
               to |-> {h \in DOMAIN handlers : /\ handlers[h] # 0
                                               /\ level >= root /\ level >= handlers[h]}]}
    BY <1>3 DEF Record
  <2>2. UNCHANGED <<config, source, verbose, opens, phase, root, handlers>> /\ phase = "serving"
    BY <1>3 DEF Record
  <2>3. DOMAIN handlers = {"stderr", "file"}
    BY <2>2 DEF StartupInv, Served
  <2>4. Recorded'
    BY <2>1, <2>2, <2>3 DEF StartupInv, Recorded
  <2>5. Served' /\ Valid(config)'
    BY <2>2 DEF StartupInv, Served, RootLevel, StderrLevel, FileConfigured
  <2>. QED
    BY <2>2, <2>4, <2>5 DEF StartupInv
<1>4. CASE Ready \/ UNCHANGED vars
  <2>1. UNCHANGED vars
    BY <1>4 DEF Ready
  <2>. QED
    BY <2>1 DEF vars, StartupInv, Served, Recorded, RootLevel, StderrLevel, FileConfigured
<1>. QED
  BY <1>1, <1>2, <1>3, <1>4 DEF Next

\* The invariant holds of the start.
THEOREM StartupInvariant == Spec => []StartupInv
  BY StartupInit, StartupStep, PTL DEF Spec

\* The root's level, the lesser of the two channels', hides no record from a
\* channel that asks for it.
LEMMA RootHidesNothing ==
    ASSUME StartupInv, NEW r \in records
    PROVE  /\ "stderr" \in r.to <=> r.level >= StderrLevel(verbose)
           /\ "file" \in r.to <=> FileConfigured /\ opens /\ r.level >= config.level
<1>1. /\ r.level \in Levels
      /\ r.to = {h \in {"stderr", "file"} : /\ handlers[h] # 0
                                            /\ r.level >= root /\ r.level >= handlers[h]}
      /\ root = RootLevel
      /\ handlers["stderr"] = StderrLevel(verbose)
      /\ handlers["file"] = IF FileConfigured /\ opens THEN config.level ELSE 0
  BY DEF StartupInv, Served, Recorded
<1>2. /\ StderrLevel(verbose) \in {10, 20, 30}
      /\ config.level \in {10, 20, 30, 40, 50} /\ r.level \in {10, 20, 30, 40, 50}
  BY <1>1 DEF StderrLevel, StartupInv, Levels
<1>3. RootLevel <= StderrLevel(verbose) /\ (FileConfigured => RootLevel <= config.level)
      /\ RootLevel \in Int
  BY <1>2, MinOfTwo DEF RootLevel
<1>4. r.level >= StderrLevel(verbose) => r.level >= root
  BY <1>1, <1>2, <1>3
<1>5. FileConfigured /\ r.level >= config.level => r.level >= root
  BY <1>1, <1>2, <1>3
<1>6. StderrLevel(verbose) # 0 /\ config.level # 0
  BY <1>2
<1>. QED
  BY <1>1, <1>4, <1>5, <1>6

\* FR-21.2: a record reaches a channel if and only if that channel's own setting
\* asks for it, for any number of records.
THEOREM ChannelsAreIndependent == Spec => []ChannelsIndependent
<1>1. StartupInv => ChannelsIndependent
  BY RootHidesNothing DEF ChannelsIndependent
<1>. QED
  BY <1>1, StartupInvariant, PTL

\* What the validators let through is what the consumers assert or assume.
LEMMA ValidServes ==
    ASSUME StartupInv
    PROVE  ConsumersServed
<1>. SUFFICES ASSUME phase = "serving" PROVE ConsumersServed
  BY DEF ConsumersServed
<1>1. Valid(config)
  BY DEF StartupInv
<1>2. Ranges(config)
  BY <1>1, Zenon DEF Valid
<1>3. config.interval > 0
  <2>1. config.interval \in 1..60
    BY <1>2, SMT DEF Ranges
  <2>. QED
    BY <2>1
<1>4. config.attempts > 0
  <2>1. config.attempts \in 1..600
    BY <1>2, SMT DEF Ranges
  <2>. QED
    BY <2>1
<1>5. config.timeout > 0
  <2>1. config.timeout \in 1..60
    BY <1>2, SMT DEF Ranges
  <2>. QED
    BY <2>1
<1>6. config.stopTimeout > 0
  <2>1. config.stopTimeout \in 1..600
    BY <1>2, SMT DEF Ranges
  <2>. QED
    BY <2>1
<1>7. config.startTimeout > 0 /\ config.startTimeout \in Int
  <2>1. config.startTimeout \in 1..600
    BY <1>2, SMT DEF Ranges
  <2>. QED
    BY <2>1
<1>8. Min({config.startTimeout, 60}) > 0
  <2>1. Min({config.startTimeout, 60})
          = IF config.startTimeout <= 60 THEN config.startTimeout ELSE 60
    BY <1>7, MinOfTwo
  <2>. QED
    BY <1>7, <2>1
<1>9. /\ config.transport # "stdio" => config.url # "absent"
      /\ config.transport = "stdio" => config.command # "absent"
      /\ config.check = "http" => config.checkUrl # "absent"
      /\ config.check = "tcp" => config.checkAddress # "absent"
      /\ config.check = "command" => config.checkCommand # "absent"
  BY <1>1 DEF Valid, TransportFields, HealthcheckFields, StartupInv
<1>. QED
  BY <1>3, <1>4, <1>5, <1>6, <1>8, <1>9 DEF ConsumersServed

\* The asserts of create_transport and run_healthcheck hold in a program that
\* serves, and no wait is of zero.
THEOREM ConsumersAreServed == Spec => []ConsumersServed
  BY ValidServes, StartupInvariant, PTL

=============================================================================
