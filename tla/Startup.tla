------------------------------- MODULE Startup -------------------------------
(***************************************************************************)
(* From a configuration file to a process that serves (config/, cmd/,      *)
(* observability/metrics/prometheus.go).  dump-cfg writes the default file *)
(* if there is none, an operator edits or removes it, start reads it,      *)
(* checks it and opens two listeners, the metrics server in a goroutine of *)
(* its own.  A file is what its text assigns to the settings; the settings *)
(* no check looks at are left out.                                         *)
(***************************************************************************)
EXTENDS Integers, Sequences

CONSTANTS
    Dumps,          \* runs of dump-cfg
    Starts,         \* processes running start, a restarted one beside the old
    OperatorFiles,  \* what an operator may write
    Neighbours,     \* what may stand beside it, under a name viper tries first
    MaxUint32

NoFile == [noFile |-> TRUE]
Unreadable == [unreadable |-> TRUE]

VARIABLES
    file,       \* what the file at the path of the configuration sets, or NoFile
    beside,     \* the same of a file in its directory that viper tries first
    paramsOk,   \* the file of the global parameters parses
    dump,       \* the step of each dump-cfg
    late,       \* history: dump-cfgs that began when the file was there
    torn,       \* history: a dump-cfg died or failed while it was writing
    proc,       \* the step of each start
    conf,       \* its configuration
    listening   \* the listeners each has open

given == <<beside, paramsOk>>
dumps == <<dump, late, torn>>
starts == <<proc, conf, listening>>
vars == <<file, given, dumps, starts>>

-----------------------------------------------------------------------------
(* The configuration.                                                      *)

\* In the order of the template, which is the order of the file.
FileOrder == <<"nodeNetwork", "signerNetwork", "serverPort", "metricsHost",
               "metricsPort", "maxHeight">>
Setting == {FileOrder[i] : i \in DOMAIN FileOrder}
Number == {"serverPort", "metricsPort", "maxHeight"}

DefaultConfig ==
    [nodeNetwork |-> "regtest", signerNetwork |-> "regtest", serverPort |-> 9791,
     metricsHost |-> "127.0.0.1", metricsPort |-> 2112, maxHeight |-> MaxUint32]

\* What the file sets, and defaults for the rest.
Unmarshal(text, defaults) ==
    [s \in Setting |-> IF s \in DOMAIN text THEN text[s] ELSE defaults[s]]

\* Mutant: the file is unmarshalled into an empty Config.
GetConfigZero(text) ==
    Unmarshal(text, [s \in Setting |-> IF s \in Number THEN 0 ELSE ""])

\* viper.Unmarshal into DefaultConfig.
GetConfig(text) == Unmarshal(text, DefaultConfig)

NetworkIsKnown(network) ==
    network \in {"testnet3", "mainnet", "regtest", "simnet", "signet"}

\* net.ParseIP takes both families.
IsIP(host) == host \in {"127.0.0.1", "::1"}

MetricsParses(c) == c.metricsPort \in 1024..65535 /\ IsIP(c.metricsHost)

SignerAppParses(c) == c.maxHeight \in 0..MaxUint32

\* ServerConfig.Parse refuses nothing.
Parses(c) ==
    /\ NetworkIsKnown(c.nodeNetwork) /\ NetworkIsKnown(c.signerNetwork)
    /\ MetricsParses(c)
    /\ SignerAppParses(c)

Shorter(n) == {n \div 10^k : k \in 1..9} \ {0}

\* What is left of the default file when the write stops after any byte: its
\* first settings, then perhaps a number that lacks digits, or no TOML at all.
First(n) == [s \in {FileOrder[i] : i \in 1..n} |-> DefaultConfig[s]]
Emptied == First(0)
CutFiles ==
    {Unreadable} \cup {First(n) : n \in 0..(Len(FileOrder) - 1)} \cup
    UNION {{[First(n) EXCEPT ![FileOrder[n]] = m] : m \in Shorter(DefaultConfig[FileOrder[n]])} :
              n \in {i \in DOMAIN FileOrder : FileOrder[i] \in Number}}

Init ==
    /\ file \in {NoFile} \cup OperatorFiles
    /\ beside \in {NoFile} \cup Neighbours
    /\ paramsOk \in BOOLEAN
    /\ late = {}
    /\ dump = [d \in Dumps |-> "idle"]
    /\ torn = FALSE
    /\ proc = [p \in Starts |-> "idle"]
    /\ conf = [p \in Starts |-> DefaultConfig]
    /\ listening = [p \in Starts |-> {}]

-----------------------------------------------------------------------------
(* dump-cfg.                                                               *)

Looks(d, next) ==
    /\ dump[d] = "idle"
    /\ dump' = [dump EXCEPT ![d] = next]
    /\ late' = IF file = NoFile THEN late ELSE late \cup {d}
    /\ UNCHANGED <<file, given, torn, starts>>

\* Mutant: the file is not looked for.
DumpAnyway(d) == Looks(d, "absent")

\* os.Stat.  A file that is there is left alone, and the command reports that
\* the default was dumped.
WriteConfigToFile(d) == Looks(d, IF file = NoFile THEN "absent" ELSE "dumped")

\* MkdirAll, then os.WriteFile, which empties the file it opens.
OpenToWrite(d) ==
    /\ dump[d] = "absent"
    /\ \/ /\ dump' = [dump EXCEPT ![d] = "failed"]
          /\ UNCHANGED file
       \/ /\ dump' = [dump EXCEPT ![d] = "writing"]
          /\ file' = Emptied
    /\ UNCHANGED <<late, torn, given, starts>>

\* A file that was removed or saved anew meanwhile is another than the one that
\* was opened; a file another dump-cfg filled is the same.
Written(texts) ==
    CASE file = NoFile -> {NoFile}
      [] file = Emptied -> texts
      [] OTHER -> {file} \cup texts

Write(d) ==
    /\ dump[d] = "writing"
    /\ \/ /\ dump' = [dump EXCEPT ![d] = "dumped"]
          /\ file' \in Written({DefaultConfig})
          /\ UNCHANGED torn
       \/ /\ dump' = [dump EXCEPT ![d] = "failed"]
          /\ file' \in Written(CutFiles)
          /\ torn' = TRUE
    /\ UNCHANGED <<late, given, starts>>

DumpEnds(d) ==
    /\ dump[d] \in {"dumped", "failed"}
    /\ dump' = [dump EXCEPT ![d] = "idle"]
    /\ late' = late \ {d}
    /\ UNCHANGED <<file, torn, given, starts>>

\* An operator saves the file or removes it.
Edit(text) ==
    /\ file # text
    /\ file' = text
    /\ UNCHANGED <<given, dumps, starts>>

-----------------------------------------------------------------------------
(* start.                                                                  *)

\* viper is told a directory and a name without its extension: it looks for
\* name.json, then for name.toml and so on, whatever the path says, and reads the
\* first there is as TOML.
ReadInConfig == IF beside = NoFile THEN file ELSE beside

\* The file and the parameters are read and checked before anything listens.
RunSigner(p) ==
    LET text == ReadInConfig
        good == text \notin {NoFile, Unreadable} /\ Parses(GetConfig(text)) /\ paramsOk
    IN  /\ proc[p] = "idle"
        /\ \/ /\ ~good
              /\ proc' = [proc EXCEPT ![p] = "ended"]
              /\ UNCHANGED conf
           \/ /\ good
              /\ proc' = [proc EXCEPT ![p] = "running"]
              /\ conf' = [conf EXCEPT ![p] = GetConfig(text)]
        /\ UNCHANGED <<file, given, dumps, listening>>

Port(c, which) == IF which = "server" THEN c.serverPort ELSE c.metricsPort
Host(c, which) == IF which = "server" THEN "127.0.0.1" ELSE c.metricsHost

\* net.Listen on "%s:%d": an IPv6 address without brackets is no address, and a
\* port that is 0 stands for any free one.
IsAddress(c, which) == Host(c, which) # "::1" /\ Port(c, which) \in 0..65535

IsFree(port) ==
    port = 0 \/ \A q \in Starts : \A w \in listening[q] : Port(conf[q], w) # port

Ends(p) ==
    /\ proc' = [proc EXCEPT ![p] = "ended"]
    /\ listening' = [listening EXCEPT ![p] = {}]

CanListen(p, which) ==
    IsAddress(conf[p], which) /\ IsFree(Port(conf[p], which))

Opens(p, which) ==
    /\ proc[p] = "running" /\ which \notin listening[p]
    /\ CanListen(p, which)
    /\ listening' = [listening EXCEPT ![p] = @ \cup {which}]
    /\ UNCHANGED <<file, given, dumps, proc, conf>>

\* Mutant: log.Error for log.Fatal.
MetricsLogs(p) == Opens(p, "metrics")

\* The goroutine of metrics.Start.  log.Fatal ends the whole process.
Metrics(p) ==
    \/ Opens(p, "metrics")
    \/ /\ proc[p] = "running" /\ "metrics" \notin listening[p]
       /\ ~CanListen(p, "metrics")
       /\ Ends(p)
       /\ UNCHANGED <<file, given, dumps, conf>>

\* srv.Start, whose error the command returns and main drops.
Serve(p) ==
    \/ Opens(p, "server")
    \/ /\ proc[p] = "running" /\ "server" \notin listening[p]
       /\ ~CanListen(p, "server")
       /\ Ends(p)
       /\ UNCHANGED <<file, given, dumps, conf>>

Kill(p) ==
    /\ proc[p] = "running"
    /\ Ends(p)
    /\ UNCHANGED <<file, given, dumps, conf>>

\* A supervisor starts another.
Again(p) ==
    /\ proc[p] = "ended"
    /\ proc' = [proc EXCEPT ![p] = "idle"]
    /\ conf' = [conf EXCEPT ![p] = DefaultConfig]
    /\ UNCHANGED <<file, given, dumps, listening>>

Next ==
    \/ \E d \in Dumps :
          WriteConfigToFile(d) \/ OpenToWrite(d) \/ Write(d) \/ DumpEnds(d)
    \/ \E text \in {NoFile} \cup OperatorFiles : Edit(text)
    \/ \E p \in Starts :
          RunSigner(p) \/ Metrics(p) \/ Serve(p) \/ Kill(p) \/ Again(p)

Spec == Init /\ [][Next]_vars

\* Both goroutines of a process get to run.  Nobody need edit, dump or restart.
FairSpec ==
    Spec /\ \A p \in Starts : WF_vars(Metrics(p)) /\ WF_vars(Serve(p))

-----------------------------------------------------------------------------
(* Properties.                                                             *)

\* A file that is there when dump-cfg begins is not touched by it, whatever
\* operators and other dumps do meanwhile; one that appears while it runs may be
\* emptied and replaced (config.go:170-178).
LateDumpsTouchNothing ==
    [][file' # file =>
          \/ \E text \in {NoFile} \cup OperatorFiles : Edit(text)
          \/ \E d \in Dumps \ late : dump[d] \in {"absent", "writing"}]_vars

\* What a process serves with was written by an operator or is the default,
\* setting by setting, though the file may have been edited, removed, emptied or
\* dumped anew at any time.  Only a dump that broke off can leave a number nobody
\* chose, and that is the default with digits missing.  Where another file of the
\* name stands beside it, that one alone decides: nothing of the file the operator
\* named gets in, not even when the other cannot be read (config.go:139-142, 164,
\* 184-199).
NobodyElsesSettings ==
    \A p \in Starts : \A s \in Setting :
        proc[p] = "running" /\ conf[p][s] # DefaultConfig[s] =>
            IF beside # NoFile
            THEN s \in DOMAIN beside /\ beside[s] = conf[p][s]
            ELSE \/ \E text \in OperatorFiles :
                       s \in DOMAIN text /\ text[s] = conf[p][s]
                 \/ torn /\ s \in Number /\ conf[p][s] \in Shorter(DefaultConfig[s])

\* A process does not stay up with half its listeners: a signer without metrics,
\* or metrics without a signer, ends, also when two processes take one port each
\* from the other (signerCmd.go:84-87, prometheus.go:49).
BothOrNeither ==
    \A p \in Starts : proc[p] = "running" ~>
        listening[p] = {"server", "metrics"} \/ proc[p] = "ended"

=============================================================================
