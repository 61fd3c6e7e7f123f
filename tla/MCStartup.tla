----------------------------- MODULE MCStartup -----------------------------
(* Configurations of Startup for TLC: a valid one with any two keys changed, *)
(* each to a value at the boundaries of its validator.                      *)
EXTENDS Startup

Values ==
    [version      |-> {1, 2},
     transport    |-> {"sse", "streamable_http", "stdio"},
     url          |-> Texts \cup {"other"},
     command      |-> Texts,
     startTimeout |-> {0, 1, 600, 601},
     stopTimeout  |-> {0, 1, 600, 601},
     check        |-> {"http", "tcp", "command"},
     checkUrl     |-> Texts,
     checkAddress |-> Texts,
     checkCommand |-> Texts,
     interval     |-> {0, 1, 60, 61},
     attempts     |-> {0, 1, 600, 601},
     timeout      |-> {0, 1, 60, 61},
     logging      |-> Texts,
     logPath      |-> {"empty", "given"},
     level        |-> Levels,
     maxSize      |-> {"malformed", "below", "within", "above"},
     backups      |-> {0, 1, 100, 101}]

Example ==
    [version |-> 1, transport |-> "sse", url |-> "given", command |-> "absent",
     startTimeout |-> 1, stopTimeout |-> 600, check |-> "http",
     checkUrl |-> "given", checkAddress |-> "absent", checkCommand |-> "absent",
     interval |-> 1, attempts |-> 600, timeout |-> 60, logging |-> "given",
     logPath |-> "given", level |-> 20, maxSize |-> "within", backups |-> 1]

TwoChanged ==
    UNION {{[Example EXCEPT ![k] = v, ![j] = w] : v \in Values[k], w \in Values[j]} :
             k, j \in DOMAIN Values}

=============================================================================
