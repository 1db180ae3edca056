---------------------------- MODULE Startup_proofs ----------------------------
(***************************************************************************)
(* Theorems about Startup, for any runs of dump-cfg and of start and any   *)
(* files an operator writes.                                               *)
(***************************************************************************)
EXTENDS Startup, TLAPS

-----------------------------------------------------------------------------
(* What dump-cfg writes over.                                              *)

LateAreDone == \A d \in Dumps : d \in late => dump[d] = "dumped"

LEMMA LateAreAlwaysDone == Spec => []LateAreDone
<1>1. Init => LateAreDone
  BY DEF Init, LateAreDone
<1>2. (DOMAIN dump = Dumps) /\ LateAreDone /\ [Next]_vars => LateAreDone'
  <2> SUFFICES ASSUME DOMAIN dump = Dumps, LateAreDone, Next \/ UNCHANGED vars
               PROVE  LateAreDone'
    OBVIOUS
  <2> USE DEF LateAreDone, dumps, starts
  <2>1. ASSUME NEW d \in Dumps, WriteConfigToFile(d)
        PROVE  LateAreDone'
    <3>1. /\ \A e \in Dumps : e # d => dump'[e] = dump[e] /\ (e \in late' => e \in late)
          /\ dump'[d] = IF file = NoFile THEN "absent" ELSE "dumped"
          /\ dump[d] = "idle"
          /\ late' = IF file = NoFile THEN late ELSE late \cup {d}
      BY <2>1 DEF WriteConfigToFile, Looks
    <3> QED
      BY <3>1
  <2>2. ASSUME NEW d \in Dumps, OpenToWrite(d) \/ Write(d) \/ DumpEnds(d)
        PROVE  LateAreDone'
    BY <2>2 DEF OpenToWrite, Write, DumpEnds
  <2>3. CASE \E text \in {NoFile} \cup OperatorFiles : Edit(text)
    BY <2>3 DEF Edit
  <2>4. ASSUME NEW p \in Starts,
               RunSigner(p) \/ Metrics(p) \/ Serve(p) \/ Kill(p) \/ Again(p)
        PROVE  LateAreDone'
    BY <2>4 DEF RunSigner, Metrics, Serve, Opens, Kill, Again
  <2>5. CASE UNCHANGED vars
    BY <2>5 DEF vars
  <2> QED
    BY <2>1, <2>2, <2>3, <2>4, <2>5 DEF Next
<1>3. Init => DOMAIN dump = Dumps
  BY DEF Init
<1>4. (DOMAIN dump = Dumps) /\ [Next]_vars => (DOMAIN dump = Dumps)'
  BY DEF Next, vars, dumps, WriteConfigToFile, Looks, OpenToWrite, Write, DumpEnds,
     Edit, RunSigner, Metrics, Serve, Opens, Kill, Again
<1> QED
  BY <1>1, <1>2, <1>3, <1>4, PTL DEF Spec

\* With any number of dumps, starts and editors at once, a dump that found the
\* file there never touches it.
THEOREM LateDumpsAreHarmless == Spec => LateDumpsTouchNothing
<1>1. LateAreDone /\ [Next]_vars =>
         [file' # file =>
            \/ \E text \in {NoFile} \cup OperatorFiles : Edit(text)
            \/ \E d \in Dumps \ late : dump[d] \in {"absent", "writing"}]_vars
  <2> SUFFICES ASSUME LateAreDone, Next, file' # file,
                      ~\E text \in {NoFile} \cup OperatorFiles : Edit(text)
               PROVE  \E d \in Dumps \ late : dump[d] \in {"absent", "writing"}
    BY DEF vars
  <2>1. ASSUME NEW d \in Dumps, WriteConfigToFile(d) \/ DumpEnds(d)
        PROVE  FALSE
    BY <2>1 DEF WriteConfigToFile, Looks, DumpEnds
  <2>2. ASSUME NEW p \in Starts,
               RunSigner(p) \/ Metrics(p) \/ Serve(p) \/ Kill(p) \/ Again(p)
        PROVE  FALSE
    BY <2>2 DEF RunSigner, Metrics, Serve, Opens, Kill, Again
  <2>3. PICK d \in Dumps : OpenToWrite(d) \/ Write(d)
    BY <2>1, <2>2 DEF Next
  <2>4. dump[d] \in {"absent", "writing"}
    BY <2>3 DEF OpenToWrite, Write
  <2> QED
    BY <2>4 DEF LateAreDone
<1> QED
  BY <1>1, LateAreAlwaysDone, PTL DEF Spec, LateDumpsTouchNothing

-----------------------------------------------------------------------------
(* Where the settings of a process come from.                              *)

\* A value of a setting that an operator or the default gave it, or that is left
\* of the default file by a dump that broke off within its digits.
Chosen(s, v, broken) ==
    \/ v = DefaultConfig[s]
    \/ \E text \in OperatorFiles : s \in DOMAIN text /\ text[s] = v
    \/ broken /\ s \in Number /\ v \in Shorter(DefaultConfig[s])

\* Where a setting of a process may come from: the neighbour, if there is one, or
\* whoever chose it.
Sourced(s, v, broken) ==
    \/ v = DefaultConfig[s]
    \/ beside # NoFile /\ s \in DOMAIN beside /\ beside[s] = v
    \/ beside = NoFile /\ Chosen(s, v, broken)

Traceable ==
    /\ file \notin {NoFile, Unreadable} =>
          \A s \in Setting : s \in DOMAIN file => Chosen(s, file[s], torn)
    /\ \A p \in Starts : proc[p] = "running" =>
          \A s \in Setting : Sourced(s, conf[p][s], torn)

\* What a file sets is kept, the rest is the default.
LEMMA ConfigOf ==
    ASSUME NEW text, NEW s \in Setting
    PROVE  GetConfig(text)[s] = IF s \in DOMAIN text THEN text[s] ELSE DefaultConfig[s]
BY DEF GetConfig, Unmarshal

LEMMA FirstIsDefault ==
    ASSUME NEW n, NEW s, s \in DOMAIN First(n)
    PROVE  First(n)[s] = DefaultConfig[s]
BY DEF First

LEMMA CutKeepsValues ==
    ASSUME NEW text \in CutFiles, text # Unreadable, NEW s \in DOMAIN text
    PROVE  \/ text[s] = DefaultConfig[s]
           \/ s \in Number /\ text[s] \in Shorter(DefaultConfig[s])
<1>1. CASE \E n \in 0..(Len(FileOrder) - 1) : text = First(n)
  BY <1>1, FirstIsDefault
<1>2. ASSUME NEW n \in DOMAIN FileOrder, FileOrder[n] \in Number,
             NEW m \in Shorter(DefaultConfig[FileOrder[n]]),
             text = [First(n) EXCEPT ![FileOrder[n]] = m]
      PROVE  \/ text[s] = DefaultConfig[s]
             \/ s \in Number /\ text[s] \in Shorter(DefaultConfig[s])
  <2>1. DOMAIN text = DOMAIN First(n)
    BY <1>2
  <2>2. CASE s = FileOrder[n]
    BY <1>2, <2>2
  <2>3. CASE s # FileOrder[n]
    <3>1. text[s] = First(n)[s]
      BY <1>2, <2>1, <2>3
    <3> QED
      BY <2>1, <3>1, FirstIsDefault
  <2> QED
    BY <2>2, <2>3
<1> QED
  BY <1>1, <1>2 DEF CutFiles

LEMMA TraceableAlways == Spec => []Traceable
<1>1. Init => Traceable
  BY DEF Init, Traceable, Chosen, Sourced
<1>2. (DOMAIN proc = Starts) /\ (DOMAIN conf = Starts) /\ Traceable /\ [Next]_vars
      => Traceable'
  <2> SUFFICES ASSUME DOMAIN proc = Starts, DOMAIN conf = Starts, Traceable,
                      Next \/ UNCHANGED vars
               PROVE  Traceable'
    OBVIOUS
  <2> USE DEF given, dumps, starts
  <2>1. torn => torn'
    BY DEF Next, vars, WriteConfigToFile, Looks, OpenToWrite, Write, DumpEnds, Edit,
       RunSigner, Metrics, Serve, Opens, Kill, Again
  <2>2. \A s, v : Chosen(s, v, torn) => Chosen(s, v, torn')
    BY <2>1 DEF Chosen
  <2>11. beside' = beside
    BY DEF Next, vars, WriteConfigToFile, Looks, OpenToWrite, Write, DumpEnds, Edit,
       RunSigner, Metrics, Serve, Opens, Kill, Again
  <2>12. \A s, v : Sourced(s, v, torn) => Sourced(s, v, torn)'
    BY <2>2, <2>11 DEF Sourced, Chosen
  <2>3. ASSUME NEW d \in Dumps, WriteConfigToFile(d) \/ DumpEnds(d)
        PROVE  Traceable'
    BY <2>2, <2>3, <2>12 DEF WriteConfigToFile, Looks, DumpEnds, Traceable, Chosen
  <2>4. ASSUME UNCHANGED <<given, proc, conf>>,
               \/ file' = file
               \/ file' \in {NoFile, Unreadable, DefaultConfig, Emptied}
               \/ file' \in CutFiles /\ torn'
               \/ file' \in OperatorFiles
        PROVE  Traceable'
    <3>1. ASSUME file' \notin {NoFile, Unreadable}, NEW s \in Setting, s \in DOMAIN file'
          PROVE  Chosen(s, file'[s], torn')
      <4>1. CASE file' = file
        BY <2>2, <3>1, <4>1 DEF Traceable
      <4>2. CASE file' = DefaultConfig
        BY <4>2 DEF Chosen
      <4>3. CASE file' = Emptied
        BY <3>1, <4>3, FirstIsDefault DEF Emptied, Chosen
      <4>4. CASE file' \in CutFiles /\ torn'
        BY <3>1, <4>4, CutKeepsValues DEF Chosen
      <4>5. CASE file' \in OperatorFiles
        BY <3>1, <4>5 DEF Chosen
      <4> QED
        BY <2>4, <3>1, <4>1, <4>2, <4>3, <4>4, <4>5
    <3>2. \A p \in Starts : proc'[p] = "running" =>
             \A s \in Setting : Sourced(s, conf[p][s], torn)'
      BY <2>4, <2>12 DEF Traceable
    <3> QED
      BY <2>4, <3>1, <3>2 DEF Traceable, Chosen
  <2>5. ASSUME NEW d \in Dumps, OpenToWrite(d)
        PROVE  Traceable'
    BY <2>4, <2>5 DEF OpenToWrite
  <2>6. ASSUME NEW d \in Dumps, Write(d)
        PROVE  Traceable'
    BY <2>4, <2>6 DEF Write, Written
  <2>7. ASSUME NEW text \in {NoFile} \cup OperatorFiles, Edit(text)
        PROVE  Traceable'
    BY <2>4, <2>7 DEF Edit
  <2>8. ASSUME NEW p \in Starts, RunSigner(p)
        PROVE  Traceable'
    <3>1. UNCHANGED <<file, beside, torn>> /\ DOMAIN proc' = Starts
      BY <2>8 DEF RunSigner
    <3>2. ASSUME NEW q \in Starts, proc'[q] = "running", NEW s \in Setting
          PROVE  Sourced(s, conf[q][s], torn)'
      <4>1. CASE q # p
        <5>1. proc[q] = "running" /\ conf'[q] = conf[q]
          BY <2>8, <3>2, <4>1 DEF RunSigner
        <5>2. Sourced(s, conf[q][s], torn)
          BY <5>1 DEF Traceable
        <5> QED
          BY <2>11, <3>1, <5>1, <5>2 DEF Sourced, Chosen
      <4>2. CASE q = p
        <5>1. /\ ReadInConfig \notin {NoFile, Unreadable}
              /\ conf'[p] = GetConfig(ReadInConfig)
          BY <2>8, <3>2, <4>2 DEF RunSigner
        <5>2. conf'[p][s] = IF s \in DOMAIN ReadInConfig THEN ReadInConfig[s]
                            ELSE DefaultConfig[s]
          BY <5>1, ConfigOf
        <5>3. CASE beside = NoFile
          <6>1. s \in DOMAIN file => Chosen(s, file[s], torn)
            BY <5>1, <5>3 DEF ReadInConfig, Traceable
          <6> QED
            BY <3>1, <4>2, <5>2, <5>3, <6>1 DEF ReadInConfig, Sourced, Chosen
        <5>4. CASE beside # NoFile
          BY <3>1, <4>2, <5>2, <5>4 DEF ReadInConfig, Sourced
        <5> QED
          BY <5>3, <5>4
      <4> QED
        BY <4>1, <4>2
    <3>3. file' \notin {NoFile, Unreadable} =>
             \A s \in Setting : s \in DOMAIN file' => Chosen(s, file'[s], torn')
      BY <3>1 DEF Traceable
    <3> QED
      BY <3>2, <3>3 DEF Traceable, Chosen
  <2>9. ASSUME NEW p \in Starts, Metrics(p) \/ Serve(p) \/ Kill(p) \/ Again(p)
        PROVE  Traceable'
    <3>1. /\ UNCHANGED <<file, beside, torn>>
          /\ \A q \in Starts : proc'[q] = "running" =>
                proc[q] = "running" /\ conf'[q] = conf[q]
      BY <2>9 DEF Metrics, Serve, Opens, Kill, Again, Ends
    <3> QED
      BY <3>1 DEF Traceable, Sourced, Chosen
  <2>10. CASE UNCHANGED vars
    BY <2>10 DEF vars, Traceable, Sourced, Chosen
  <2> QED
    BY <2>3, <2>5, <2>6, <2>7, <2>8, <2>9, <2>10 DEF Next
<1>3. Init => (DOMAIN proc = Starts) /\ (DOMAIN conf = Starts)
  BY DEF Init
<1>4. (DOMAIN proc = Starts) /\ (DOMAIN conf = Starts) /\ [Next]_vars
      => (DOMAIN proc = Starts)' /\ (DOMAIN conf = Starts)'
  BY DEF Next, vars, starts, WriteConfigToFile, Looks, OpenToWrite, Write, DumpEnds,
     Edit, RunSigner, Metrics, Serve, Opens, Kill, Again, Ends
<1> QED
  BY <1>1, <1>2, <1>3, <1>4, PTL DEF Spec

\* Whatever is written, cut off, removed or read at the same time, each setting a
\* process runs with was chosen by an operator or is the default, unless a dump
\* broke off within a number, which is then the default's with digits missing; and
\* a file beside the named one excludes it altogether.
THEOREM SettingsAreChosen == Spec => []NobodyElsesSettings
<1>1. Traceable => NobodyElsesSettings
  BY DEF Traceable, Sourced, Chosen, NobodyElsesSettings
<1> QED
  BY <1>1, TraceableAlways, PTL

=============================================================================
