---------------------------- MODULE FilesProofs -----------------------------
(***************************************************************************)
(* The parts of the system that keep their state in files, interrupted     *)
(* wherever they are.                                                      *)
(*                                                                         *)
(* The sweeps, for every set of configurations and any number of them: an  *)
(* index on disk can be followed; the same values compute the same,        *)
(* wherever they come up; and a sweep that ends is complete, since the     *)
(* places of the cross product behind it are those before idx in the order *)
(* it counts in.                                                           *)
(*                                                                         *)
(* The certificate files, for any number of servers, starts and crashes:   *)
(* as long as nothing was disturbed, a server that persists a pair is      *)
(* alone, so that the files it leaves are a pair again, or lack the key;   *)
(* and a server that has loaded or written a pair has the one in the       *)
(* files, which nobody replaces any more.                                  *)
(***************************************************************************)
EXTENDS Sweep, ServerCertificates, CacheItemsProofs

\* The directory has a summary; the summary is of the sweep that is running.
HasSummary(dir) == dir \in DOMAIN disk /\ "summary.json" \in DOMAIN disk[dir]
Summary(dir) == disk[dir]["summary.json"]
Fresh(dir) == HasSummary(dir) /\ Summary(dir) # Partial /\ Summary(dir).sweep = sweep

Stages == {"combination", "files", "index", "heatmap", "done", "ended"}
Building == {"combination", "files", "index"}
OtherFiles == {"comparison.json", "enhanced_comparison.json", "raw.csv"}

TypeOK == sweep \in Nat /\ pc \in Stages /\ \E S : index \in Seq(S)

\* While the index is built, what it lists has been written by this sweep.
IndexFresh == pc \in Building => \A e \in ToSet(index) : Fresh(e.subdir)

\* The summary is the first file, and there once it is no longer to be written.
SummaryFirst == pc = "files" => \/ todo = Files
                                \/ Fresh(Dir) /\ todo \in Seq(OtherFiles)

\* The index on disk is of an earlier sweep until this one has written its own.
Whole == indexFile \notin {None, Partial}
IndexOlder ==
  Whole => /\ indexFile.sweep \in Nat /\ indexFile.sweep <= sweep
           /\ pc \in Building => indexFile.sweep < sweep

IndexInv == TypeOK /\ IndexFresh /\ SummaryFirst /\ IndexOlder /\ IndexNeverDangles

-----------------------------------------------------------------------------
\* Writing a file puts it into the directory of the combination and touches no other.
LEMMA FileWritten ==
  ASSUME NEW file, NEW what
  PROVE  LET new == InDir(file, what)
         IN  /\ Dir \in DOMAIN new /\ file \in DOMAIN new[Dir] /\ new[Dir][file] = what
             /\ \A d \in DOMAIN disk :
                  /\ d \in DOMAIN new
                  /\ \A f \in DOMAIN disk[d] :
                       /\ f \in DOMAIN new[d]
                       /\ d # Dir \/ f # file => new[d][f] = disk[d][f]
             /\ \A d \in DOMAIN new : \A f \in DOMAIN new[d] :
                  \/ d = Dir /\ f = file
                  \/ d \in DOMAIN disk /\ f \in DOMAIN disk[d] /\ new[d][f] = disk[d][f]
<1> DEFINE files == IF Dir \in DOMAIN disk THEN disk[Dir] ELSE << >>
           changed == Stored(files, file, what)
<1>1. InDir(file, what) = Stored(disk, Dir, changed)
  BY DEF InDir
<1>2. /\ DOMAIN changed = DOMAIN files \cup {file} /\ changed[file] = what
      /\ \A f \in DOMAIN files : f # file => changed[f] = files[f]
  BY DEF Stored
<1> HIDE DEF changed
<1>3. /\ DOMAIN InDir(file, what) = DOMAIN disk \cup {Dir} /\ InDir(file, what)[Dir] = changed
      /\ \A d \in DOMAIN disk : d # Dir => InDir(file, what)[d] = disk[d]
  <2> DEFINE new == Stored(disk, Dir, changed)
  <2>1. /\ DOMAIN new = DOMAIN disk \cup {Dir} /\ new[Dir] = changed
        /\ \A d \in DOMAIN disk : d # Dir => new[d] = disk[d]
    BY DEF Stored
  <2> HIDE DEF new
  <2>2. QED
    BY <1>1, <2>1 DEF new
<1>4. /\ Dir \in DOMAIN disk => files = disk[Dir]
      /\ Dir \notin DOMAIN disk => DOMAIN files = {}
  OBVIOUS
<1> HIDE DEF files
<1> DEFINE new == InDir(file, what)
<1> HIDE DEF new
<1>5. ASSUME NEW d \in DOMAIN new, NEW f \in DOMAIN new[d], ~(d = Dir /\ f = file)
      PROVE  d \in DOMAIN disk /\ f \in DOMAIN disk[d] /\ new[d][f] = disk[d][f]
  <2>1. /\ DOMAIN new = DOMAIN disk \cup {Dir} /\ new[Dir] = changed
        /\ \A e \in DOMAIN disk : e # Dir => new[e] = disk[e]
    BY <1>3 DEF new
  <2>2. CASE d = Dir
    <3>1. f \in DOMAIN files /\ f # file
      BY <1>2, <1>5, <2>1, <2>2
    <3>2. QED
      BY <1>2, <1>4, <2>1, <2>2, <3>1
  <2>3. CASE d # Dir
    BY <2>1, <2>3
  <2>4. QED
    BY <2>2, <2>3
<1>6. QED
  BY <1>2, <1>3, <1>4, <1>5 DEF new

\* A whole file is not one that was cut short.
LEMMA ContentIsWhole == Content # Partial /\ Content.sweep = sweep
<1>1. DOMAIN Content = {"sweep", "result"} /\ DOMAIN Partial = {"cut"}
  BY DEF Content, Partial
<1>2. QED
  BY <1>1 DEF Content

\* Files starts with the summary and does not name it again (reporter.go, sweep.go).
LEMMA SummaryHeadsFiles ==
  /\ Files # << >> /\ Head(Files) = "summary.json" /\ Tail(Files) \in Seq(OtherFiles)
  /\ Files \in Seq(OtherFiles \cup {"summary.json"})
<1> DEFINE All == OtherFiles \cup {"summary.json"}
           first == <<"summary.json">>
           simple == IF cfg.both THEN <<"comparison.json">> ELSE << >>
           enhanced == IF cfg.both /\ ~cfg.emulated THEN <<"enhanced_comparison.json">> ELSE << >>
           compared == simple \o enhanced
           raw == IF cfg.csv THEN <<"raw.csv">> ELSE << >>
<1>1. compared \in Seq(OtherFiles) /\ raw \in Seq(OtherFiles)
      /\ simple \in Seq(OtherFiles) /\ enhanced \in Seq(OtherFiles)
  <2>1. /\ <<"comparison.json">> \in Seq(OtherFiles)
        /\ <<"enhanced_comparison.json">> \in Seq(OtherFiles)
        /\ <<"raw.csv">> \in Seq(OtherFiles) /\ << >> \in Seq(OtherFiles)
    BY DEF OtherFiles
  <2>2. simple \in Seq(OtherFiles) /\ enhanced \in Seq(OtherFiles) /\ raw \in Seq(OtherFiles)
    BY <2>1
  <2> HIDE DEF simple, enhanced
  <2>3. QED
    BY <2>2, ConcatProperties
<1>2. first \in Seq(All) /\ compared \in Seq(All) /\ raw \in Seq(All)
  <2>1. first \in Seq(All)
    OBVIOUS
  <2>2. \A s \in Seq(OtherFiles) : s \in Seq(All)
    OBVIOUS
  <2>3. QED
    BY <1>1, <2>1, <2>2
<1>3. Files = (first \o compared) \o raw
  <2>1. Files = ((first \o simple) \o enhanced) \o raw
    BY DEF Files
  <2>2. simple \in Seq(All) /\ enhanced \in Seq(All)
    <3> HIDE DEF simple, enhanced
    <3>1. \A s \in Seq(OtherFiles) : s \in Seq(All)
      OBVIOUS
    <3>2. QED
      BY <1>1, <3>1
  <2> HIDE DEF simple, enhanced, raw, first, All
  <2>3. (first \o simple) \o enhanced = first \o compared
    <3>1. \A a, b, c \in Seq(All) : (a \o b) \o c = a \o (b \o c)
      BY ConcatAssociative
    <3>2. QED
      BY <1>2, <2>2, <3>1
  <2>4. QED
    BY <2>1, <2>3
<1> HIDE DEF compared, raw
<1>4. compared \o raw \in Seq(OtherFiles)
  BY <1>1, ConcatProperties
<1> DEFINE rest == compared \o raw
<1>5. Files = first \o rest
  <2> HIDE DEF All, first
  <2>1. QED
    BY <1>2, <1>3, ConcatAssociative
<1>6. Len(first) = 1 /\ first[1] = "summary.json" /\ rest \in Seq(All)
  BY <1>4
<1> HIDE DEF rest, first, All
<1>7. /\ Files \in Seq(All) /\ Len(Files) = 1 + Len(rest)
      /\ \A i \in 1 .. 1 + Len(rest) : Files[i] = IF i <= 1 THEN first[i] ELSE rest[i - 1]
  <2>1. /\ first \o rest \in Seq(All) /\ Len(first \o rest) = Len(first) + Len(rest)
        /\ \A i \in 1 .. Len(first) + Len(rest) :
             (first \o rest)[i] = IF i <= Len(first) THEN first[i] ELSE rest[i - Len(first)]
    BY <1>2, <1>6, ConcatProperties
  <2>2. QED
    BY <1>5, <1>6, <2>1
<1>8. Files # << >> /\ Head(Files) = "summary.json"
  BY <1>6, <1>7
<1>9. Tail(Files) = rest
  <2>1. /\ Tail(Files) \in Seq(All) /\ Len(Tail(Files)) = Len(rest)
        /\ \A i \in 1 .. Len(rest) : Tail(Files)[i] = Files[i + 1]
    BY <1>6, <1>7, <1>8, HeadTailProperties
  <2>2. \A i \in 1 .. Len(rest) : Tail(Files)[i] = rest[i]
    BY <1>6, <1>7, <2>1
  <2>3. QED
    BY <1>6, <2>1, <2>2, SeqEqual
<1>10. QED
  BY <1>4, <1>7, <1>8, <1>9 DEF rest, All

\* What a sequence lists after Append: what it did, and the new element.
LEMMA AppendListed ==
  ASSUME NEW S, NEW s \in Seq(S), NEW e
  PROVE  /\ Append(s, e) \in Seq(S \cup {e})
         /\ \A x \in ToSet(Append(s, e)) : x \in ToSet(s) \/ x = e
<1>1. s \in Seq(S \cup {e}) /\ e \in S \cup {e}
  OBVIOUS
<1>2. QED
  BY <1>1, AppendProperties DEF ToSet

-----------------------------------------------------------------------------
\* A file written to the directory of the combination, whole or cut short, makes no
\* summary older than the index on disk, and no fresh one stale unless it is cut short.
LEMMA FileKeepsIndex ==
  ASSUME IndexInv, pc = "files", NEW file, NEW what, what # Partial => what.sweep = sweep,
         disk' = InDir(file, what), UNCHANGED <<sweep, cfg, idx, indexFile>>
  PROVE  /\ what # Partial \/ file # "summary.json" => \A d : Fresh(d) => Fresh(d)'
         /\ what # Partial /\ file = "summary.json" => Fresh(Dir)'
         /\ IndexNeverDangles'
<1> DEFINE new == InDir(file, what)
<1>1. /\ Dir \in DOMAIN new /\ file \in DOMAIN new[Dir] /\ new[Dir][file] = what
      /\ \A d \in DOMAIN disk :
           /\ d \in DOMAIN new
           /\ \A f \in DOMAIN disk[d] :
                /\ f \in DOMAIN new[d]
                /\ d # Dir \/ f # file => new[d][f] = disk[d][f]
  BY FileWritten
<1> HIDE DEF new
<1>2. disk' = new /\ Partial' = Partial /\ Dir' = Dir
  BY DEF new, Partial, Dir, Values, Parameters
<1>3. what # Partial \/ file # "summary.json" => \A d : Fresh(d) => Fresh(d)'
  BY <1>1, <1>2 DEF Fresh, HasSummary, Summary
<1>4. what # Partial /\ file = "summary.json" => Fresh(Dir)'
  BY <1>1, <1>2 DEF Fresh, HasSummary, Summary
<1>5. IndexNeverDangles'
  <2> DEFINE Sound(d, e) ==
        /\ e.subdir \in DOMAIN d /\ "summary.json" \in DOMAIN d[e.subdir]
        /\ LET summary == d[e.subdir]["summary.json"]
           IN  IF summary = Partial THEN sweep > indexFile.sweep
               ELSE summary.sweep >= indexFile.sweep
  <2> SUFFICES ASSUME Whole, NEW e \in ToSet(indexFile.results) PROVE Sound(new, e)
    BY <1>2 DEF IndexNeverDangles, Whole
  <2>1. Sound(disk, e)
    BY DEF IndexInv, IndexNeverDangles, Whole
  <2>2. indexFile.sweep < sweep /\ indexFile.sweep \in Nat /\ sweep \in Nat
    BY DEF IndexInv, IndexOlder, TypeOK, Building
  <2>3. QED
    BY <1>1, <2>1, <2>2
<1>6. QED
  BY <1>3, <1>4, <1>5

\* Every step keeps the invariant, wherever it is interrupted.
LEMMA IndexInvInductive == IndexInv /\ [Next]_vars => IndexInv'
<1> SUFFICES ASSUME IndexInv, [Next]_vars PROVE IndexInv'
  OBVIOUS
<1> USE DEF memory, Building, Stages
<1>0. Partial' = Partial
  BY DEF Partial
<1>1. CASE \E c \in Configs : Start(c)
  <2>1. /\ sweep' = sweep + 1 /\ pc' \in {"combination", "ended"} /\ index' = << >>
        /\ UNCHANGED <<disk, indexFile>>
    BY <1>1 DEF Start
  <2>2. ToSet(index') = {} /\ index' \in Seq({})
    BY <2>1 DEF ToSet
  <2>3. TypeOK'
    BY <2>1, <2>2 DEF IndexInv, TypeOK
  <2>4. IndexFresh' /\ SummaryFirst'
    BY <2>1, <2>2 DEF IndexFresh, SummaryFirst
  <2>5. IndexOlder'
    BY <1>0, <2>1 DEF IndexInv, IndexOlder, Whole, TypeOK
  <2>6. IndexNeverDangles'
    BY <1>0, <2>1 DEF IndexInv, IndexOlder, Whole, TypeOK, IndexNeverDangles
  <2>7. QED
    BY <2>3, <2>4, <2>5, <2>6 DEF IndexInv
<1>2. CASE RunCombination
  <2>1. /\ pc = "combination" /\ pc' = "files" /\ todo' = Files
        /\ UNCHANGED <<sweep, cfg, index, disk, indexFile>>
    BY <1>2 DEF RunCombination
  <2>2. todo' = Files'
    BY <2>1 DEF Files
  <2>3. TypeOK' /\ SummaryFirst'
    BY <2>1, <2>2 DEF IndexInv, TypeOK, SummaryFirst
  <2>4. IndexFresh'
    BY <1>0, <2>1 DEF IndexInv, IndexFresh, Fresh, HasSummary, Summary
  <2>5. IndexOlder' /\ IndexNeverDangles'
    BY <1>0, <2>1 DEF IndexInv, IndexOlder, Whole, IndexNeverDangles
  <2>6. QED
    BY <2>3, <2>4, <2>5 DEF IndexInv
<1>3. CASE WriteFile \/ FlushFails
  <2>1. /\ pc = "files" /\ todo # << >> /\ todo' = Tail(todo)
        /\ UNCHANGED <<sweep, pc, cfg, idx, index, indexFile>>
    BY <1>3 DEF WriteFile, FlushFails
  <2>2. PICK what : /\ disk' = InDir(Head(todo), what)
                    /\ what # Partial => what.sweep = sweep
                    /\ Head(todo) = "summary.json" => what # Partial
    BY <1>3, ContentIsWhole DEF WriteFile, FlushFails
  <2>3. /\ \A d : Fresh(d) => Fresh(d)'
        /\ Head(todo) = "summary.json" => Fresh(Dir)'
        /\ IndexNeverDangles'
    BY <2>1, <2>2, FileKeepsIndex
  <2>4. IndexFresh'
    BY <2>1, <2>3 DEF IndexInv, IndexFresh
  <2>5. SummaryFirst'
    <3>1. CASE todo = Files
      BY <3>1, <2>1, <2>3, SummaryHeadsFiles DEF SummaryFirst
    <3>2. CASE Fresh(Dir) /\ todo \in Seq(OtherFiles)
      <4>1. Tail(todo) \in Seq(OtherFiles)
        BY <3>2, <2>1
      <4>2. Dir' = Dir
        BY <2>1 DEF Dir, Values, Parameters
      <4>3. QED
        BY <3>2, <4>1, <4>2, <2>1, <2>3 DEF SummaryFirst, Fresh
    <3>3. QED
      BY <3>1, <3>2, <2>1 DEF IndexInv, SummaryFirst
  <2>6. TypeOK' /\ IndexOlder'
    BY <1>0, <2>1 DEF IndexInv, TypeOK, IndexOlder, Whole
  <2>7. QED
    BY <2>3, <2>4, <2>5, <2>6 DEF IndexInv
<1>4. CASE Record
  <2> DEFINE entry == IndexEntry(Values)
  <2>1. /\ pc = "files" /\ todo = << >> /\ pc' \in {"index", "combination"}
        /\ index' = Append(index, entry)
        /\ UNCHANGED <<sweep, disk, indexFile>>
    BY <1>4 DEF Record
  <2>2. entry.subdir = Dir
    BY DEF IndexEntry, Dir
  <2> HIDE DEF entry
  <2>3. PICK S : index \in Seq(S)
    BY DEF IndexInv, TypeOK
  <2>4. /\ index' \in Seq(S \cup {entry})
        /\ \A e \in ToSet(index') : e \in ToSet(index) \/ e = entry
    BY <2>1, <2>3, AppendListed
  <2>5. Fresh(Dir)
    BY <2>1, SummaryHeadsFiles DEF IndexInv, SummaryFirst
  <2>6. \A e \in ToSet(index') : Fresh(e.subdir)
    BY <2>1, <2>2, <2>4, <2>5 DEF IndexInv, IndexFresh
  <2>7. \A d : Fresh(d) => Fresh(d)'
    BY <1>0, <2>1 DEF Fresh, HasSummary, Summary
  <2>8. TypeOK' /\ IndexFresh' /\ SummaryFirst'
    BY <2>1, <2>4, <2>6, <2>7 DEF IndexInv, TypeOK, IndexFresh, SummaryFirst
  <2>9. IndexOlder' /\ IndexNeverDangles'
    BY <1>0, <2>1 DEF IndexInv, IndexOlder, Whole, IndexNeverDangles
  <2>10. QED
    BY <2>8, <2>9 DEF IndexInv
<1>5. CASE WriteIndex
  <2>1. /\ pc = "index" /\ pc' \in {"heatmap", "done"}
        /\ indexFile' = [sweep |-> sweep, results |-> index]
        /\ UNCHANGED <<sweep, index, disk>>
    BY <1>5 DEF WriteIndex
  <2>2. indexFile'.sweep = sweep /\ indexFile'.results = index
    BY <2>1
  <2>3. \A e \in ToSet(index) : Fresh(e.subdir)
    BY <2>1 DEF IndexInv, IndexFresh
  <2>4. TypeOK' /\ IndexFresh' /\ SummaryFirst' /\ IndexOlder'
    BY <2>1, <2>2 DEF IndexInv, TypeOK, IndexFresh, SummaryFirst, IndexOlder
  <2>5. IndexNeverDangles'
    BY <1>0, <2>1, <2>2, <2>3 DEF IndexInv, TypeOK, IndexNeverDangles, Fresh, HasSummary, Summary
  <2>6. QED
    BY <2>4, <2>5 DEF IndexInv
<1>6. CASE WriteHeatmap
  <2>1. pc = "heatmap" /\ pc' = "done" /\ UNCHANGED <<sweep, index, disk, indexFile>>
    BY <1>6 DEF WriteHeatmap
  <2>2. QED
    BY <1>0, <2>1 DEF IndexInv, TypeOK, IndexFresh, SummaryFirst, IndexOlder, Whole, IndexNeverDangles
<1>7. CASE Interrupt
  <2>1. pc' = "ended" /\ UNCHANGED <<sweep, cfg, idx, index>>
    BY <1>7 DEF Interrupt
  <2>2. TypeOK' /\ IndexFresh' /\ SummaryFirst'
    BY <2>1 DEF IndexInv, TypeOK, IndexFresh, SummaryFirst
  <2>3. CASE UNCHANGED <<disk, indexFile>>
    BY <1>0, <2>1, <2>2, <2>3 DEF IndexInv, IndexOlder, Whole, IndexNeverDangles
  <2>4. CASE pc = "files" /\ disk' = InDir(Head(todo), Partial) /\ UNCHANGED indexFile
    <3>1. IndexNeverDangles'
      BY <2>1, <2>4, FileKeepsIndex
    <3>2. QED
      BY <1>0, <2>1, <2>2, <2>4, <3>1 DEF IndexInv, IndexOlder, Whole
  <2>5. CASE indexFile' = Partial
    BY <1>0, <2>2, <2>5 DEF IndexInv, IndexOlder, Whole, IndexNeverDangles
  <2>6. QED
    BY <1>7, <2>3, <2>4, <2>5 DEF Interrupt
<1>8. CASE UNCHANGED vars
  <2>1. Files' = Files /\ Dir' = Dir
    BY <1>8 DEF vars, Files, Dir, Values, Parameters
  <2>2. \A d : Fresh(d) => Fresh(d)'
    BY <1>0, <1>8 DEF vars, Fresh, HasSummary, Summary
  <2>3. TypeOK' /\ IndexFresh' /\ SummaryFirst'
    BY <1>8, <2>1, <2>2 DEF vars, IndexInv, TypeOK, IndexFresh, SummaryFirst, Fresh
  <2>4. IndexOlder' /\ IndexNeverDangles'
    BY <1>0, <1>8 DEF vars, IndexInv, IndexOlder, Whole, IndexNeverDangles
  <2>5. QED
    BY <2>3, <2>4 DEF IndexInv
<1>9. QED
  BY <1>1, <1>2, <1>3, <1>4, <1>5, <1>6, <1>7, <1>8 DEF Next

LEMMA IndexInvInitially == Init => IndexInv
<1> SUFFICES ASSUME Init PROVE IndexInv
  OBVIOUS
<1>1. index \in Seq({}) /\ sweep = 0 /\ pc = "ended" /\ indexFile = None
  BY DEF Init
<1>2. QED
  BY <1>1 DEF IndexInv, TypeOK, Stages, Building, IndexFresh, SummaryFirst, IndexOlder, Whole,
              IndexNeverDangles

\* However many sweeps of whatever configurations fail, are killed and follow each
\* other, the index on disk lists only directories whose summary is at least as new
\* as itself, or was cut short by a later sweep (sweep.go:304, 332-336).
THEOREM IndexCanBeFollowed == Spec => []IndexNeverDangles
<1>1. Init => IndexInv
  BY IndexInvInitially
<1>2. IndexInv => IndexNeverDangles
  BY DEF IndexInv
<1>3. QED
  BY <1>1, <1>2, IndexInvInductive, PTL DEF Spec

-----------------------------------------------------------------------------
(***************************************************************************)
(* The order in which a sweep comes to a combination does not matter.      *)
(***************************************************************************)
Params == [name : STRING, path : STRING, values : Seq(Int)]

\* While a sweep runs, its configuration has been loaded.
Running == pc # "ended"
LoadedOK == Running => IsSweep(cfg) /\ Loadable(cfg)

\* What an experiment computed follows from its base, parameters and values.
LogOK == \A r \in log : /\ r.parameters \in Seq(Params) /\ DOMAIN r.values = DOMAIN r.parameters
                        /\ \A x : r.result = Result(r.base, r.parameters, r.values, x)

LEMMA StepLoaded == LoadedOK /\ [Next]_vars => LoadedOK'
<1> SUFFICES ASSUME LoadedOK, [Next]_vars PROVE LoadedOK'
  OBVIOUS
<1>1. CASE \E c \in Configs : Start(c)
  <2>1. PICK c \in Configs : Start(c)
    BY <1>1
  <2>2. cfg' = c /\ IsSweep(c) /\ (Running' => Loadable(c))
    BY <2>1, ConfigsAssumption DEF Start, Running
  <2>3. QED
    BY <2>2 DEF LoadedOK
<1>2. CASE ~(\E c \in Configs : Start(c))
  <2>1. cfg' = cfg /\ (Running' => Running)
    BY <1>2 DEF Next, RunCombination, WriteFile, FlushFails, Record, WriteIndex, WriteHeatmap,
                Interrupt, vars, Running
  <2>2. QED
    BY <2>1 DEF LoadedOK
<1>3. QED
  BY <1>1, <1>2

LEMMA StepLog == LoadedOK /\ LogOK /\ [Next]_vars => LogOK'
<1> SUFFICES ASSUME LoadedOK, LogOK, [Next]_vars PROVE LogOK'
  OBVIOUS
<1>1. CASE RunCombination
  <2>1. pc # "ended" /\ log' \subseteq log \cup {Ran}
    BY <1>1 DEF RunCombination, Logged
  <2>2. Parameters \in Seq(Params)
    BY <2>1 DEF LoadedOK, Running, IsSweep, Parameters, Params
  <2>3. /\ Ran.parameters = Parameters /\ Ran.values = Values /\ Ran.base = cfg.base
        /\ Ran.result = Result(cfg.base, Parameters, Values, idx)
    BY DEF Ran, Current
  <2>4. DOMAIN Values = DOMAIN Parameters
    BY DEF Values
  <2>5. \A x : Ran.result = Result(Ran.base, Ran.parameters, Ran.values, x)
    BY <2>3 DEF Result, Seed
  <2> HIDE DEF Ran
  <2>6. QED
    BY <2>1, <2>2, <2>3, <2>4, <2>5 DEF LogOK
<1>2. CASE ~RunCombination
  <2>1. log' = log
    BY <1>2 DEF Next, Start, WriteFile, FlushFails, Record, WriteIndex, WriteHeatmap, Interrupt, vars
  <2>2. QED
    BY <2>1 DEF LogOK
<1>3. QED
  BY <1>1, <1>2

\* The base with what is assigned to each path, whatever the order.
ByPath(base, assigned) ==
  [p \in SupportedPaths |->
     IF \E a \in assigned : a[2] = p
     THEN LET v == (CHOOSE a \in assigned : a[2] = p)[3]
          IN  IF p \in IntPaths THEN v \div 10 ELSE v
     ELSE base[p]]

\* Parameters of different names and paths: what there is in them by name and by path.
LEMMA Untangled ==
  ASSUME NEW r, r.parameters \in Seq(Params), DOMAIN r.values = DOMAIN r.parameters, Apart(r), NEW base
  PROVE  /\ Label(r.parameters, r.values) = { <<a[1], 1, Format(a[3])>> : a \in Assigned(r) }
         /\ Overridden(base, r.parameters, r.values) = ByPath(base, Assigned(r))
<1> DEFINE ps == r.parameters
           vs == r.values
           Of(i) == <<ps[i].name, ps[i].path, vs[i]>>
<1>1. DOMAIN ps = 1 .. Len(ps) /\ Len(ps) \in Nat
  BY LenProperties
<1>2. Assigned(r) = { Of(i) : i \in DOMAIN ps }
  BY DEF Assigned
<1>3. \A i, j \in DOMAIN ps : i # j => ps[i].path # ps[j].path /\ ps[i].name # ps[j].name
  BY DEF Apart
<1>4. \A i \in DOMAIN ps : Cardinality({ j \in DOMAIN ps : j <= i /\ ps[j].name = ps[i].name }) = 1
  <2> SUFFICES ASSUME NEW i \in DOMAIN ps
               PROVE  Cardinality({ j \in DOMAIN ps : j <= i /\ ps[j].name = ps[i].name }) = 1
    OBVIOUS
  <2>1. { j \in DOMAIN ps : j <= i /\ ps[j].name = ps[i].name } = {i}
    BY <1>1, <1>3
  <2>2. QED
    BY <2>1, FS_Singleton
<1> DEFINE Told(i) == <<ps[i].name, 1, Format(vs[i])>>
<1>5. Label(ps, vs) = { Told(i) : i \in DOMAIN ps }
  BY <1>4 DEF Label
<1>6. Label(ps, vs) = { <<a[1], 1, Format(a[3])>> : a \in Assigned(r) }
  <2>1. \A i \in DOMAIN ps : Told(i) = <<Of(i)[1], 1, Format(Of(i)[3])>>
    OBVIOUS
  <2> HIDE DEF Told, Of
  <2>2. { <<a[1], 1, Format(a[3])>> : a \in { Of(i) : i \in DOMAIN ps } } = { Told(i) : i \in DOMAIN ps }
    BY <2>1
  <2>3. QED
    BY <1>2, <1>5, <2>2
<1>7. ASSUME NEW p \in SupportedPaths
      PROVE  Overridden(base, ps, vs)[p] = ByPath(base, Assigned(r))[p]
  <2> DEFINE setters == { i \in DOMAIN ps : ps[i].path = p }
             v == (CHOOSE a \in Assigned(r) : a[2] = p)[3]
  <2>1. Overridden(base, ps, vs)[p] =
          IF setters = {} THEN base[p]
          ELSE IF p \in IntPaths THEN vs[Max(setters)] \div 10 ELSE vs[Max(setters)]
    BY DEF Overridden
  <2>2. CASE setters = {}
    <3>1. ~(\E a \in Assigned(r) : a[2] = p)
      BY <1>2, <2>2
    <3>2. QED
      BY <2>1, <2>2, <3>1 DEF ByPath
  <2>3. CASE setters # {}
    <3>1. PICK i \in DOMAIN ps : ps[i].path = p
      BY <2>3
    <3>2. setters = {i}
      BY <1>3, <3>1
    <3>3. Max({i}) = i
      BY <1>1 DEF Max
    <3>4. Of(i) \in Assigned(r) /\ Of(i)[2] = p /\ \A a \in Assigned(r) : a[2] = p => a = Of(i)
      BY <1>2, <1>3, <3>1
    <3> HIDE DEF setters
    <3>5. (CHOOSE a \in Assigned(r) : a[2] = p) = Of(i)
      BY <3>4
    <3>6. v = vs[i]
      <4>1. Of(i)[3] = vs[i]
        OBVIOUS
      <4>2. QED
        BY <3>5, <4>1
    <3>7. \E a \in Assigned(r) : a[2] = p
      BY <3>4
    <3> HIDE DEF v
    <3>8. Overridden(base, ps, vs)[p] = IF p \in IntPaths THEN v \div 10 ELSE v
      BY <2>1, <2>3, <3>2, <3>3, <3>6
    <3>9. QED
      BY <3>7, <3>8 DEF v, ByPath
  <2>4. QED
    BY <2>2, <2>3
<1>8. /\ Overridden(base, ps, vs) = [p \in SupportedPaths |-> Overridden(base, ps, vs)[p]]
      /\ ByPath(base, Assigned(r)) = [p \in SupportedPaths |-> ByPath(base, Assigned(r))[p]]
  BY DEF Overridden, ByPath
<1>9. Overridden(base, ps, vs) = ByPath(base, Assigned(r))
  BY <1>7, <1>8
<1>10. QED
  BY <1>6, <1>9

\* "the order of execution does not affect individual run outputs" (sweep.go:247):
\* whatever sweeps there were, the same values of parameters of different names and
\* paths over the same base have given the same results.
THEOREM OrderDoesNotMatter == Spec => []OrderIndependent
<1>1. Init => LoadedOK /\ LogOK
  BY DEF Init, LoadedOK, LogOK, Running
<1>2. LogOK => OrderIndependent
  <2> SUFFICES ASSUME LogOK, NEW r \in log, NEW s \in log, r.base = s.base,
                      Assigned(r) = Assigned(s), Apart(r), Apart(s)
               PROVE  r.result = s.result
    BY DEF OrderIndependent
  <2>1. /\ r.parameters \in Seq(Params) /\ DOMAIN r.values = DOMAIN r.parameters
        /\ s.parameters \in Seq(Params) /\ DOMAIN s.values = DOMAIN s.parameters
        /\ r.result = Result(r.base, r.parameters, r.values, 0)
        /\ s.result = Result(s.base, s.parameters, s.values, 0)
    BY DEF LogOK
  <2>2. Label(r.parameters, r.values) = Label(s.parameters, s.values)
    BY <2>1, Untangled
  <2>3. Overridden(r.base, r.parameters, r.values) = Overridden(s.base, s.parameters, s.values)
    BY <2>1, Untangled
  <2>4. QED
    BY <2>1, <2>2, <2>3 DEF Result
<1>3. QED
  BY <1>1, <1>2, StepLoaded, StepLog, PTL DEF Spec

-----------------------------------------------------------------------------
(***************************************************************************)
(* A sweep that ends is complete: where it is in the cross product.        *)
(***************************************************************************)
\* The values at a place of the cross product, and their directory.
ValuesAt(p) == [i \in DOMAIN Parameters |-> Parameters[i].values[p[i]]]
LabelAt(p) == Label(Parameters, ValuesAt(p))

\* The rightmost position changes fastest.
Earlier(p, q) ==
  \E k \in DOMAIN Parameters : p[k] < q[k] /\ \A i \in DOMAIN Parameters : i < k => p[i] = q[i]

PlaceOK == Running => idx \in Positions

\* The places the sweep has recorded.
Gone == IF pc \in {"combination", "files"} THEN { p \in Positions : Earlier(p, idx) } ELSE Positions

LEMMA ParametersAre ==
  ASSUME LoadedOK, Running
  PROVE  /\ Parameters \in Seq(Params) /\ DOMAIN Parameters = 1 .. Len(Parameters)
         /\ Len(Parameters) \in Nat \ {0}
         /\ \A i \in DOMAIN Parameters :
              /\ Parameters[i].values \in Seq(Int)
              /\ DOMAIN Parameters[i].values = 1 .. Len(Parameters[i].values)
              /\ Len(Parameters[i].values) \in Nat \ {0}
<1>1. Parameters \in Seq(Params) /\ Parameters # << >>
  BY DEF LoadedOK, IsSweep, Loadable, Parameters, Params
<1>2. ASSUME NEW i \in DOMAIN Parameters
      PROVE  Parameters[i].values \in Seq(Int) /\ Parameters[i].values # << >>
  <2>1. Parameters[i] \in Params
    BY <1>1
  <2>2. Parameters[i].values # << >>
    BY DEF LoadedOK, Loadable, Parameters
  <2>3. QED
    BY <2>1, <2>2 DEF Params
<1>3. QED
  BY <1>1, <1>2

LEMMA PositionsAre ==
  ASSUME LoadedOK, Running, NEW p
  PROVE  p \in Positions <=> /\ p \in [DOMAIN Parameters -> Nat]
                             /\ \A i \in DOMAIN Parameters : p[i] \in 1 .. Len(Parameters[i].values)
<1>1. \A i \in DOMAIN Parameters : DOMAIN Parameters[i].values = 1 .. Len(Parameters[i].values)
                                   /\ Len(Parameters[i].values) \in Nat
  BY ParametersAre
<1>2. ASSUME p \in Positions
      PROVE  /\ p \in [DOMAIN Parameters -> Nat]
             /\ \A i \in DOMAIN Parameters : p[i] \in 1 .. Len(Parameters[i].values)
  BY <1>1, <1>2 DEF Positions
<1>3. ASSUME p \in [DOMAIN Parameters -> Nat],
             \A i \in DOMAIN Parameters : p[i] \in 1 .. Len(Parameters[i].values)
      PROVE  p \in Positions
  BY <1>1, <1>3 DEF Positions
<1>4. QED
  BY <1>2, <1>3

\* The same as one state predicate.
PlacesKnown ==
  /\ \A i \in DOMAIN Parameters : Len(Parameters[i].values) \in Nat \ {0}
  /\ \A p : p \in Positions <=> /\ p \in [DOMAIN Parameters -> Nat]
                               /\ \A i \in DOMAIN Parameters : p[i] \in 1 .. Len(Parameters[i].values)

LEMMA KnownPlaces == LoadedOK /\ Running => PlacesKnown
BY ParametersAre, PositionsAre DEF PlacesKnown

\* Two places that agree up to k, behind which one is nowhere ahead of the other.
LEMMA EarlierOrSame ==
  ASSUME LoadedOK, Running, NEW k \in Nat,
         NEW p \in [DOMAIN Parameters -> Nat], NEW q \in [DOMAIN Parameters -> Nat],
         \A i \in DOMAIN Parameters : i <= k => p[i] = q[i],
         \A i \in DOMAIN Parameters : p[i] <= q[i]
  PROVE  p = q \/ Earlier(p, q)
<1> DEFINE apart == { i \in DOMAIN Parameters : p[i] # q[i] }
<1>1. DOMAIN Parameters \subseteq Nat
  BY ParametersAre
<1>2. CASE apart = {}
  BY <1>2
<1>3. CASE apart # {}
  <2>1. apart \subseteq Nat
    BY <1>1
  <2> HIDE DEF apart
  <2>2. PICK j \in apart : \A m \in apart : j <= m
    BY <1>3, <2>1, LeastNatural
  <2>3. j \in DOMAIN Parameters /\ p[j] # q[j] /\ p[j] \in Nat /\ q[j] \in Nat /\ p[j] <= q[j]
    BY DEF apart
  <2>4. ASSUME NEW i \in DOMAIN Parameters, i < j PROVE p[i] = q[i]
    <3>1. i \in Nat /\ j \in Nat /\ ~(j <= i)
      BY <1>1, <2>3, <2>4
    <3>2. i \notin apart
      BY <2>2, <3>1
    <3>3. QED
      BY <3>2 DEF apart
  <2>5. p[j] < q[j]
    BY <2>3
  <2>6. QED
    BY <2>3, <2>4, <2>5 DEF Earlier
<1>4. QED
  BY <1>2, <1>3

LEMMA Fixed ==
  ASSUME cfg' = cfg
  PROVE  /\ Parameters' = Parameters /\ Positions' = Positions /\ Files' = Files
         /\ Combinations' = Combinations
         /\ \A p, q : Earlier(p, q)' = Earlier(p, q)
         /\ \A p : ValuesAt(p)' = ValuesAt(p) /\ LabelAt(p)' = LabelAt(p)
         /\ \A v : IndexEntry(v)' = IndexEntry(v)
         /\ \A d : ResultsOf(Sharing(d))' = ResultsOf(Sharing(d))
<1>1. Parameters' = Parameters /\ Files' = Files
  BY DEF Parameters, Files
<1>2. Combinations' = Combinations
  BY <1>1 DEF Combinations
<1>3. \A d : Sharing(d)' = Sharing(d)
  BY <1>1, <1>2 DEF Sharing
<1>4. \A d : ResultsOf(Sharing(d))' = ResultsOf(Sharing(d))
  BY <1>1, <1>3 DEF ResultsOf, Result, Seed
<1>5. QED
  BY <1>1, <1>2, <1>4 DEF Positions, Earlier, ValuesAt, LabelAt, IndexEntry

\* What a sweep does between two combinations.
Quiet == RunCombination \/ WriteFile \/ FlushFails \/ WriteIndex \/ WriteHeatmap \/ UNCHANGED vars

LEMMA StepKinds ==
  [Next]_vars => \/ \E c \in Configs : Start(c)
                 \/ Running /\ Record
                 \/ Running /\ Quiet
                 \/ ~Running'
BY DEF Next, RunCombination, WriteFile, FlushFails, Record, WriteIndex, WriteHeatmap, Interrupt,
       Quiet, vars, Running

LEMMA GoneStarts ==
  ASSUME NEW c \in Configs, Start(c), Running'
  PROVE  PlaceOK' /\ Gone' = {} /\ index' = << >> /\ pct' = << >> /\ pc' = "combination"
<1>1. cfg' = c /\ Loadable(c) /\ pc' = "combination" /\ idx' = [i \in DOMAIN c.parameters |-> 1]
  BY DEF Start, Running
<1>2. (LoadedOK /\ Running)'
  BY <1>1, ConfigsAssumption DEF LoadedOK, Running
<1>3. PlacesKnown'
  BY <1>2, KnownPlaces, PTL
<1>4. Parameters' = c.parameters
  BY <1>1 DEF Parameters
<1>5. /\ idx' \in [DOMAIN Parameters' -> Nat]
      /\ \A i \in DOMAIN Parameters' : idx'[i] = 1 /\ Len(Parameters'[i].values) \in Nat \ {0}
  <2>1. \A i \in DOMAIN Parameters' : Len(Parameters'[i].values) \in Nat \ {0}
    BY <1>3 DEF PlacesKnown
  <2>2. QED
    BY <1>1, <1>4, <2>1
<1>6. (idx \in Positions)'
  <2>1. \A p : (p \in Positions)' <=> /\ p \in [DOMAIN Parameters' -> Nat]
                             /\ \A i \in DOMAIN Parameters' : p[i] \in 1 .. Len(Parameters'[i].values)
    BY <1>3 DEF PlacesKnown
  <2>2. QED
    BY <1>5, <2>1
<1>7. Gone' = {}
  <2> SUFFICES ASSUME NEW p, p \in Positions', Earlier(p, idx)' PROVE FALSE
    BY <1>1 DEF Gone
  <2>1. \A i \in DOMAIN Parameters' : p[i] \in 1 .. Len(Parameters'[i].values)
    BY <1>3 DEF PlacesKnown
  <2>2. PICK k \in DOMAIN Parameters' : p[k] < idx'[k]
    BY DEF Earlier
  <2>3. QED
    BY <1>5, <2>1, <2>2
<1>8. QED
  BY <1>1, <1>6, <1>7 DEF PlaceOK, Start

LEMMA GoneStays ==
  ASSUME LoadedOK, PlaceOK, Running, Quiet
  PROVE  /\ cfg' = cfg /\ index' = index /\ pct' = pct /\ sweep' = sweep
         /\ PlaceOK' /\ Gone' = Gone /\ Running'
<1>1. cfg' = cfg /\ idx' = idx /\ index' = index /\ pct' = pct /\ sweep' = sweep
  BY DEF Quiet, RunCombination, WriteFile, FlushFails, WriteIndex, WriteHeatmap, vars, memory
<1>2. Running' /\ (pc' \in {"combination", "files"} <=> pc \in {"combination", "files"})
  BY DEF Quiet, RunCombination, WriteFile, FlushFails, WriteIndex, WriteHeatmap, vars, Running
<1>3. Positions' = Positions /\ \A p, q : Earlier(p, q)' = Earlier(p, q)
  BY <1>1, Fixed
<1>4. \A p : Earlier(p, idx)' = Earlier(p, idx)
  BY <1>1 DEF Earlier, Parameters
<1>5. Gone' = Gone
  BY <1>2, <1>3, <1>4 DEF Gone
<1>6. PlaceOK'
  BY <1>1, <1>3 DEF PlaceOK
<1>7. QED
  BY <1>1, <1>2, <1>5, <1>6

LEMMA AdvancedIsNext ==
  ASSUME LoadedOK, PlaceOK, Running, NEW k \in DOMAIN Parameters,
         idx[k] < Len(Parameters[k].values),
         \A i \in DOMAIN Parameters : i > k => idx[i] = Len(Parameters[i].values)
  PROVE  /\ Advanced(k) \in Positions
         /\ { p \in Positions : Earlier(p, Advanced(k)) } =
            { p \in Positions : Earlier(p, idx) } \cup {idx}
<1> DEFINE next == Advanced(k)
<1>1. /\ idx \in Positions /\ idx \in [DOMAIN Parameters -> Nat] /\ DOMAIN idx = DOMAIN Parameters
      /\ \A i \in DOMAIN Parameters : idx[i] \in 1 .. Len(Parameters[i].values)
  BY PositionsAre DEF PlaceOK
<1>2. /\ DOMAIN Parameters \subseteq Nat
      /\ \A i \in DOMAIN Parameters : Len(Parameters[i].values) \in Nat \ {0}
  BY ParametersAre
<1>3. /\ next \in [DOMAIN Parameters -> Nat] /\ next[k] = idx[k] + 1
      /\ \A i \in DOMAIN Parameters : /\ i < k => next[i] = idx[i]
                                      /\ i > k => next[i] = 1
  <2>1. next = [i \in DOMAIN Parameters |-> IF i < k THEN idx[i] ELSE IF i = k THEN idx[k] + 1 ELSE 1]
    BY <1>1 DEF Advanced
  <2>2. QED
    BY <1>1, <1>2, <2>1
<1> HIDE DEF next
<1>4. next \in Positions
  <2> SUFFICES ASSUME NEW i \in DOMAIN Parameters PROVE next[i] \in 1 .. Len(Parameters[i].values)
    BY <1>3, PositionsAre
  <2>1. i \in Nat /\ k \in Nat
    BY <1>2
  <2>2. QED
    BY <1>1, <1>2, <1>3, <2>1
<1>5. ASSUME NEW p \in Positions, Earlier(p, next) PROVE Earlier(p, idx) \/ p = idx
  <2>1. PICK j \in DOMAIN Parameters : /\ p[j] < next[j]
                                       /\ \A i \in DOMAIN Parameters : i < j => p[i] = next[i]
    BY <1>5 DEF Earlier
  <2>2. /\ p \in [DOMAIN Parameters -> Nat]
        /\ \A i \in DOMAIN Parameters : p[i] \in 1 .. Len(Parameters[i].values)
    BY PositionsAre
  <2>3. j \in Nat /\ k \in Nat
    BY <1>2
  <2>4. CASE j < k
    <3>1. \A i \in DOMAIN Parameters : i < j => p[i] = idx[i]
      BY <1>2, <1>3, <2>1, <2>3, <2>4
    <3>2. QED
      BY <1>3, <2>1, <2>4, <3>1 DEF Earlier
  <2>5. CASE j = k
    <3>1. \A i \in DOMAIN Parameters : i < k => p[i] = idx[i]
      BY <1>3, <2>1, <2>5
    <3>2. CASE p[k] < idx[k]
      BY <3>1, <3>2 DEF Earlier
    <3>3. CASE ~(p[k] < idx[k])
      <4>1. p[k] = idx[k]
        BY <1>1, <1>3, <2>1, <2>2, <2>5, <3>3
      <4>2. \A i \in DOMAIN Parameters : i <= k => p[i] = idx[i]
        BY <1>2, <3>1, <4>1
      <4>3. ASSUME NEW i \in DOMAIN Parameters PROVE p[i] <= idx[i]
        <5>1. i \in Nat /\ p[i] \in 1 .. Len(Parameters[i].values) /\ Len(Parameters[i].values) \in Nat
          BY <1>2, <2>2
        <5>2. CASE i <= k
          BY <4>2, <5>1, <5>2
        <5>3. CASE i > k
          BY <5>1, <5>3
        <5>4. QED
          BY <2>3, <5>1, <5>2, <5>3
      <4>4. QED
        BY <1>1, <2>2, <2>3, <4>2, <4>3, EarlierOrSame
    <3>4. QED
      BY <3>2, <3>3
  <2>6. CASE j > k
    BY <1>3, <2>1, <2>2, <2>6
  <2>7. QED
    BY <2>3, <2>4, <2>5, <2>6
<1>6. ASSUME NEW p \in Positions, Earlier(p, idx) PROVE Earlier(p, next)
  <2>1. PICK j \in DOMAIN Parameters : /\ p[j] < idx[j]
                                       /\ \A i \in DOMAIN Parameters : i < j => p[i] = idx[i]
    BY <1>6 DEF Earlier
  <2>2. p \in [DOMAIN Parameters -> Nat]
    BY PositionsAre
  <2>3. j \in Nat /\ k \in Nat
    BY <1>2
  <2>4. CASE j < k
    <3>1. \A i \in DOMAIN Parameters : i < j => p[i] = next[i]
      BY <1>2, <1>3, <2>1, <2>3, <2>4
    <3>2. QED
      BY <1>3, <2>1, <2>4, <3>1 DEF Earlier
  <2>5. CASE j >= k
    <3>1. \A i \in DOMAIN Parameters : i < k => p[i] = next[i]
      BY <1>2, <1>3, <2>1, <2>3, <2>5
    <3>2. p[k] <= idx[k]
      BY <1>1, <2>1, <2>2, <2>3, <2>5
    <3>3. p[k] < next[k]
      BY <1>1, <1>3, <2>2, <3>2
    <3>4. QED
      BY <3>1, <3>3 DEF Earlier
  <2>6. QED
    BY <2>3, <2>4, <2>5
<1>7. Earlier(idx, next)
  <2>1. idx[k] < next[k]
    BY <1>1, <1>3
  <2>2. QED
    BY <1>3, <2>1 DEF Earlier
<1>8. QED
  BY <1>1, <1>4, <1>5, <1>6, <1>7 DEF next

LEMMA GoneGrows ==
  ASSUME LoadedOK, PlaceOK, Running, Record
  PROVE  PlaceOK' /\ Running' /\ Gone' = Gone \cup {idx} /\ idx \notin Gone
<1> DEFINE more == { i \in DOMAIN idx : idx[i] < Len(Parameters[i].values) }
<1>1. /\ idx \in Positions /\ idx \in [DOMAIN Parameters -> Nat] /\ DOMAIN idx = DOMAIN Parameters
      /\ \A i \in DOMAIN Parameters : idx[i] \in 1 .. Len(Parameters[i].values)
  BY PositionsAre DEF PlaceOK
<1>2. /\ DOMAIN Parameters = 1 .. Len(Parameters) /\ Len(Parameters) \in Nat
      /\ \A i \in DOMAIN Parameters : Len(Parameters[i].values) \in Nat \ {0}
  BY ParametersAre
<1>3. Gone = { p \in Positions : Earlier(p, idx) }
  BY DEF Record, Gone
<1>4. idx \notin Gone
  BY <1>1, <1>3 DEF Earlier
<1>5. cfg' = cfg
  BY DEF Record
<1>6. Positions' = Positions /\ Parameters' = Parameters /\ \A p, q : Earlier(p, q)' = Earlier(p, q)
  BY <1>5, Fixed
<1>7. CASE more = {}
  <2>1. pc' = "index" /\ idx' = idx
    BY <1>7 DEF Record
  <2>2. \A i \in DOMAIN Parameters : idx[i] = Len(Parameters[i].values)
    BY <1>1, <1>2, <1>7
  <2>3. ASSUME NEW p \in Positions PROVE p = idx \/ Earlier(p, idx)
    <3>1. /\ p \in [DOMAIN Parameters -> Nat]
          /\ \A i \in DOMAIN Parameters : p[i] \in 1 .. Len(Parameters[i].values)
      BY PositionsAre
    <3>2. \A i \in DOMAIN Parameters : p[i] <= idx[i]
      BY <1>2, <2>2, <3>1
    <3>3. \A i \in DOMAIN Parameters : i <= 0 => p[i] = idx[i]
      BY <1>2
    <3>4. QED
      BY <1>1, <3>1, <3>2, <3>3, EarlierOrSame
  <2>4. Gone' = Positions
    BY <1>6, <2>1 DEF Gone
  <2>5. QED
    BY <1>1, <1>3, <1>4, <1>6, <2>1, <2>3, <2>4 DEF PlaceOK, Running
<1>8. CASE more # {}
  <2> DEFINE k == Max(more)
  <2>1. pc' = "combination" /\ idx' = Advanced(k)
    BY <1>8 DEF Record
  <2>2. more \subseteq Nat /\ \A x \in more : x <= Len(Parameters)
    BY <1>1, <1>2
  <2>3. k \in more /\ \A x \in more : x <= k
    <3> HIDE DEF more
    <3>1. QED
      BY <1>2, <1>8, <2>2, MaxExists
  <2> HIDE DEF k
  <2>4. k \in DOMAIN Parameters /\ idx[k] < Len(Parameters[k].values)
    BY <1>1, <2>3
  <2>5. ASSUME NEW i \in DOMAIN Parameters, i > k PROVE idx[i] = Len(Parameters[i].values)
    <3>1. i \in Nat /\ k \in Nat
      BY <1>2, <2>4
    <3>2. i \notin more
      BY <2>3, <2>5, <3>1
    <3>3. ~(idx[i] < Len(Parameters[i].values))
      BY <1>1, <3>2
    <3>4. QED
      BY <1>1, <1>2, <3>3
  <2>6. /\ Advanced(k) \in Positions
        /\ { p \in Positions : Earlier(p, Advanced(k)) } =
           { p \in Positions : Earlier(p, idx) } \cup {idx}
    BY <2>4, <2>5, AdvancedIsNext
  <2>7. \A p : Earlier(p, idx)' = Earlier(p, Advanced(k))
    BY <1>6, <2>1 DEF Earlier
  <2>8. Gone' = { p \in Positions : Earlier(p, Advanced(k)) }
    BY <1>6, <2>1, <2>7 DEF Gone
  <2>9. QED
    BY <1>3, <1>4, <1>6, <2>1, <2>6, <2>8 DEF PlaceOK, Running
<1>9. QED
  BY <1>7, <1>8

-----------------------------------------------------------------------------
(***************************************************************************)
(* What is in the index, the files and latencyP95Pct by then.              *)
(***************************************************************************)
\* An entry for every place there was.
IndexedOK == Running =>
  /\ IsFiniteSet(Gone) /\ Len(index) = Cardinality(Gone)
  /\ ToSet(index) = { IndexEntry(ValuesAt(p)) : p \in Gone }

\* What may be in a file: results of the directory's combinations in this sweep.
Right(label, file, content) ==
  IF content = Partial THEN file = "raw.csv"
  ELSE content.sweep = sweep /\ content.result \in ResultsOf(Sharing(label))
Good(label, file) ==
  label \in DOMAIN disk /\ file \in DOMAIN disk[label] /\ Right(label, file, disk[label][file])

Labels == { LabelAt(p) : p \in Gone }

FilesOK == Running =>
  /\ \A label \in Labels : \A f \in ToSet(Files) : Good(label, f)
  /\ pc = "files" => /\ todo \in Seq(ToSet(Files))
                     /\ \A label, f : label = Dir /\ f \in ToSet(Files) =>
                                       f \in ToSet(todo) \/ Good(label, f)

\* latencyP95Pct has every combination, if there is a comparison at all.
PctOK == Running =>
  /\ ~cfg.both => pct = << >>
  /\ cfg.both => Labels \subseteq DOMAIN pct
  /\ \A d \in DOMAIN pct : pct[d] \in ResultsOf(Sharing(d))

CellsOK == pc = "done" /\ Len(Parameters) = 2 =>
  \A v \in Combinations : heatmapFile.cells[v] \in
    IF cfg.both THEN ResultsOf(Sharing(Label(Parameters, v))) ELSE {None}

\* What holds the results of a sweep is no newer than this one, and of this one only
\* what it writes.
Aged(content, written) ==
  content.sweep \in Nat /\ content.sweep <= sweep /\ (content.sweep = sweep => written)
LeftoversOK ==
  /\ \A d \in DOMAIN disk : \A f \in DOMAIN disk[d] :
       disk[d][f] = Partial \/ Aged(disk[d][f], f \in ToSet(Files))
  /\ heatmapFile \in {None, Partial} \/ Aged(heatmapFile, Len(Parameters) = 2)
  /\ pc = "heatmap" => Len(Parameters) = 2

SweepInv ==
  IndexInv /\ LoadedOK /\ PlaceOK /\ IndexedOK /\ FilesOK /\ PctOK /\ CellsOK /\ LeftoversOK

LEMMA CombinationsAre ==
  ASSUME LoadedOK, Running
  PROVE  Combinations = { ValuesAt(p) : p \in Positions }
<1>1. \A i \in DOMAIN Parameters :
        /\ Parameters[i].values \in Seq(Int)
        /\ DOMAIN Parameters[i].values = 1 .. Len(Parameters[i].values)
        /\ Len(Parameters[i].values) \in Nat
        /\ ToSet(Parameters[i].values) = { Parameters[i].values[j] : j \in DOMAIN Parameters[i].values }
  BY ParametersAre DEF ToSet
<1>2. ASSUME NEW p \in Positions PROVE ValuesAt(p) \in Combinations
  <2>1. \A i \in DOMAIN Parameters : p[i] \in DOMAIN Parameters[i].values
    BY <1>1, PositionsAre
  <2>2. \A i \in DOMAIN Parameters : Parameters[i].values[p[i]] \in ToSet(Parameters[i].values)
    BY <1>1, <2>1
  <2>3. QED
    BY <2>2 DEF ValuesAt, Combinations
<1>3. ASSUME NEW v \in Combinations PROVE \E p \in Positions : v = ValuesAt(p)
  <2>1. /\ v = [i \in DOMAIN Parameters |-> v[i]]
        /\ \A i \in DOMAIN Parameters : v[i] \in ToSet(Parameters[i].values)
    BY DEF Combinations
  <2> DEFINE p == [i \in DOMAIN Parameters |->
                     CHOOSE j \in DOMAIN Parameters[i].values : Parameters[i].values[j] = v[i]]
  <2>2. ASSUME NEW i \in DOMAIN Parameters
        PROVE  p[i] \in DOMAIN Parameters[i].values /\ Parameters[i].values[p[i]] = v[i]
    <3>1. v[i] \in { Parameters[i].values[j] : j \in DOMAIN Parameters[i].values }
      BY <1>1, <2>1
    <3>2. QED
      BY <3>1
  <2>3. DOMAIN p = DOMAIN Parameters /\ p = [i \in DOMAIN Parameters |-> p[i]]
    OBVIOUS
  <2> HIDE DEF p
  <2>4. p \in [DOMAIN Parameters -> Nat]
    BY <1>1, <2>2, <2>3
  <2>5. p \in Positions
    BY <1>1, <2>2, <2>4, PositionsAre
  <2>6. v = ValuesAt(p)
    BY <2>1, <2>2 DEF ValuesAt
  <2>7. QED
    BY <2>5, <2>6
<1>4. QED
  BY <1>2, <1>3

\* The combination that is running is one of those of its directory.
LEMMA CurrentIsShared ==
  ASSUME LoadedOK, PlaceOK, Running
  PROVE  Current \in ResultsOf(Sharing(Dir)) /\ Dir = LabelAt(idx) /\ Values = ValuesAt(idx)
<1>1. Values = ValuesAt(idx) /\ Dir = LabelAt(idx)
  BY DEF Values, ValuesAt, Dir, LabelAt
<1>2. Values \in Combinations
  BY <1>1, CombinationsAre DEF PlaceOK
<1>3. QED
  BY <1>1, <1>2 DEF ResultsOf, Sharing, Current, Dir

LEMMA StepIndexed ==
  ASSUME LoadedOK, PlaceOK, IndexedOK, IndexInv, [Next]_vars
  PROVE  PlaceOK' /\ IndexedOK'
<1>1. CASE \E c \in Configs : Start(c)
  <2>1. PICK c \in Configs : Start(c)
    BY <1>1
  <2>2. CASE Running'
    <3>1. PlaceOK' /\ Gone' = {} /\ index' = << >>
      BY <2>1, <2>2, GoneStarts
    <3>2. ToSet(<< >>) = {} /\ Len(<< >>) = 0
      BY DEF ToSet
    <3>3. QED
      BY <3>1, <3>2, FS_EmptySet DEF IndexedOK
  <2>3. CASE ~Running'
    BY <2>3 DEF PlaceOK, IndexedOK
  <2>4. QED
    BY <2>2, <2>3
<1>2. CASE Running /\ Record
  <2>1. PlaceOK' /\ Running' /\ Gone' = Gone \cup {idx} /\ idx \notin Gone
    BY <1>2, GoneGrows
  <2>2. index' = Append(index, IndexEntry(Values)) /\ cfg' = cfg
    BY <1>2 DEF Record
  <2>3. PICK S : index \in Seq(S)
    BY DEF IndexInv, TypeOK
  <2>4. Values = ValuesAt(idx)
    BY <1>2, CurrentIsShared
  <2>5. /\ IsFiniteSet(Gone) /\ Len(index) = Cardinality(Gone)
        /\ ToSet(index) = { IndexEntry(ValuesAt(p)) : p \in Gone }
    BY <1>2 DEF IndexedOK
  <2>6. IsFiniteSet(Gone') /\ Cardinality(Gone') = Cardinality(Gone) + 1
    BY <2>1, <2>5, FS_AddElement
  <2> DEFINE e == IndexEntry(Values)
  <2>7. Len(index') = Len(index) + 1 /\ ToSet(index') = ToSet(index) \cup {e}
    <3> HIDE DEF e
    <3>1. index' = Append(index, e)
      BY <2>2 DEF e
    <3>2. /\ Len(Append(index, e)) = Len(index) + 1 /\ DOMAIN Append(index, e) = 1 .. Len(index) + 1
          /\ \A i \in 1 .. Len(index) : Append(index, e)[i] = index[i]
          /\ Append(index, e)[Len(index) + 1] = e /\ Len(index) \in Nat /\ DOMAIN index = 1 .. Len(index)
      BY <2>3
    <3>3. QED
      BY <3>1, <3>2 DEF ToSet
  <2>8. \A p : (IndexEntry(ValuesAt(p)))' = IndexEntry(ValuesAt(p))
    <3>1. \A p : ValuesAt(p)' = ValuesAt(p)
      BY <2>2, Fixed
    <3>2. QED
      BY <2>2, <3>1 DEF IndexEntry, Parameters
  <2>9. QED
    BY <2>1, <2>4, <2>5, <2>6, <2>7, <2>8 DEF IndexedOK
<1>3. CASE Running /\ Quiet
  <2>1. cfg' = cfg /\ index' = index /\ PlaceOK' /\ Gone' = Gone
    BY <1>3, GoneStays
  <2>2. \A p : (IndexEntry(ValuesAt(p)))' = IndexEntry(ValuesAt(p))
    <3>1. \A p : ValuesAt(p)' = ValuesAt(p)
      BY <2>1, Fixed
    <3>2. QED
      BY <2>1, <3>1 DEF IndexEntry, Parameters
  <2>3. QED
    BY <1>3, <2>1, <2>2 DEF IndexedOK
<1>4. CASE ~Running'
  BY <1>4 DEF PlaceOK, IndexedOK
<1>5. QED
  BY <1>1, <1>2, <1>3, <1>4, StepKinds

\* A file written to the directory of the combination leaves the good files good.
LEMMA GoodStays ==
  ASSUME NEW what, NEW file, disk' = InDir(file, what), cfg' = cfg, sweep' = sweep,
         Right(Dir, file, what)
  PROVE  \A label, f : Good(label, f) \/ (label = Dir /\ f = file) => Good(label, f)'
<1> DEFINE new == InDir(file, what)
<1>1. /\ Dir \in DOMAIN new /\ file \in DOMAIN new[Dir] /\ new[Dir][file] = what
      /\ \A d \in DOMAIN disk :
           /\ d \in DOMAIN new
           /\ \A f \in DOMAIN disk[d] : /\ f \in DOMAIN new[d]
                                        /\ d # Dir \/ f # file => new[d][f] = disk[d][f]
  BY FileWritten
<1>2. \A label, f, content : Right(label, f, content)' = Right(label, f, content)
  <2>1. \A d : ResultsOf(Sharing(d))' = ResultsOf(Sharing(d))
    BY Fixed
  <2>2. QED
    BY <2>1 DEF Right
<1>3. \A label, f : Good(label, f)' =
         (label \in DOMAIN new /\ f \in DOMAIN new[label] /\ Right(label, f, new[label][f]))
  <2>1. disk' = new
    OBVIOUS
  <2> HIDE DEF new
  <2>2. QED
    BY <1>2, <2>1 DEF Good
<1> HIDE DEF new
<1>4. QED
  BY <1>1, <1>3 DEF Good

\* Where the disk stays as it is, so do the good files.
LEMMA GoodUnwritten ==
  ASSUME disk' = disk, cfg' = cfg, sweep' = sweep
  PROVE  \A label, f : Good(label, f)' = Good(label, f)
<1>1. \A d : ResultsOf(Sharing(d))' = ResultsOf(Sharing(d))
  BY Fixed
<1>2. QED
  BY <1>1 DEF Good, Right

LEMMA StepFiles ==
  ASSUME LoadedOK, PlaceOK, FilesOK, [Next]_vars
  PROVE  FilesOK'
<1>1. CASE \E c \in Configs : Start(c)
  <2>1. PICK c \in Configs : Start(c)
    BY <1>1
  <2>2. Running' => Gone' = {} /\ pc' = "combination"
    BY <2>1, GoneStarts
  <2>3. QED
    BY <2>2 DEF FilesOK, Labels
<1>2. CASE Running /\ Record
  <2>1. Running' /\ Gone' = Gone \cup {idx}
    BY <1>2, GoneGrows
  <2>2. /\ pc = "files" /\ todo = << >> /\ pc' # "files"
        /\ disk' = disk /\ cfg' = cfg /\ sweep' = sweep
    BY <1>2 DEF Record
  <2>3. Dir = LabelAt(idx)
    BY <1>2, CurrentIsShared
  <2>4. ToSet(<< >>) = {}
    BY DEF ToSet
  <2>5. Files' = Files /\ \A p : LabelAt(p)' = LabelAt(p)
    BY <2>2, Fixed
  <2>6. Labels' = Labels \cup {Dir}
    BY <2>1, <2>3, <2>5 DEF Labels
  <2>7. \A label \in Labels' : \A f \in ToSet(Files) : Good(label, f)
    BY <1>2, <2>2, <2>4, <2>6 DEF FilesOK
  <2>8. \A label, f : Good(label, f)' = Good(label, f)
    BY <2>2, GoodUnwritten
  <2>9. QED
    BY <2>2, <2>5, <2>7, <2>8 DEF FilesOK
<1>3. CASE Running /\ Quiet
  <2>1. cfg' = cfg /\ sweep' = sweep /\ Gone' = Gone /\ Running'
    BY <1>3, GoneStays
  <2>2. Files' = Files /\ \A p : LabelAt(p)' = LabelAt(p)
    BY <2>1, Fixed
  <2>3. /\ \A label \in Labels : \A f \in ToSet(Files) : Good(label, f)
        /\ pc = "files" => /\ todo \in Seq(ToSet(Files))
                           /\ \A label, f : label = Dir /\ f \in ToSet(Files) =>
                                             f \in ToSet(todo) \/ Good(label, f)
        /\ Labels' = Labels /\ Files' = Files
    BY <1>3, <2>1, <2>2 DEF FilesOK, Labels
  <2>4. CASE WriteFile \/ FlushFails
    <3>1. pc = "files" /\ pc' = pc /\ todo # << >> /\ todo' = Tail(todo) /\ idx' = idx
      BY <2>4 DEF WriteFile, FlushFails, memory
    <3>2. Dir' = Dir
      BY <2>1, <3>1 DEF Dir, Parameters, Values
    <3>3. \A label, f : Good(label, f) \/ (label = Dir /\ f = Head(todo)) => Good(label, f)'
      <4>1. CASE WriteFile
        <5>1. disk' = InDir(Head(todo), Content)
          BY <4>1 DEF WriteFile
        <5>2. Right(Dir, Head(todo), Content)
          <6>1. Content # Partial /\ Content.sweep = sweep
            BY ContentIsWhole
          <6>2. Content.result \in ResultsOf(Sharing(Dir))
            BY <1>3, CurrentIsShared DEF Content
          <6>3. QED
            BY <6>1, <6>2 DEF Right
        <5>3. QED
          BY <2>1, <5>1, <5>2, GoodStays
      <4>2. CASE FlushFails
        <5>1. disk' = InDir(Head(todo), Partial) /\ Head(todo) = "raw.csv"
          BY <4>2 DEF FlushFails
        <5>2. Right(Dir, Head(todo), Partial)
          BY <5>1 DEF Right
        <5>3. QED
          BY <2>1, <5>1, <5>2, GoodStays
      <4>3. QED
        BY <2>4, <4>1, <4>2
    <3>4. /\ todo' \in Seq(ToSet(Files))
          /\ \A f \in ToSet(todo) : f = Head(todo) \/ f \in ToSet(todo')
      <4>1. todo \in Seq(ToSet(Files)) /\ todo # << >>
        BY <2>3, <3>1
      <4>2. /\ Tail(todo) \in Seq(ToSet(Files)) /\ Len(Tail(todo)) = Len(todo) - 1
            /\ \A i \in 1 .. Len(todo) - 1 : Tail(todo)[i] = todo[i + 1]
            /\ Head(todo) = todo[1] /\ Len(todo) \in Nat
        BY <4>1, HeadTailProperties
      <4>3. /\ DOMAIN todo = 1 .. Len(todo) /\ DOMAIN Tail(todo) = 1 .. Len(Tail(todo))
        BY <4>1, <4>2
      <4>4. ASSUME NEW i \in DOMAIN todo, i # 1 PROVE todo[i] \in ToSet(Tail(todo))
        <5>1. i - 1 \in DOMAIN Tail(todo) /\ Tail(todo)[i - 1] = todo[i]
          BY <4>2, <4>3, <4>4
        <5>2. QED
          BY <5>1 DEF ToSet
      <4>5. QED
        BY <3>1, <4>2, <4>4 DEF ToSet
    <3>5. \A label \in Labels : \A f \in ToSet(Files) : Good(label, f)'
      BY <2>3, <3>3
    <3>6. \A label, f : label = Dir /\ f \in ToSet(Files) => f \in ToSet(todo') \/ Good(label, f)'
      BY <2>3, <3>1, <3>3, <3>4
    <3>7. QED
      BY <2>3, <3>2, <3>4, <3>5, <3>6 DEF FilesOK
  <2>5. CASE ~(WriteFile \/ FlushFails)
    <3>1. /\ disk' = disk
          /\ pc' = "files" => \/ todo' = Files
                              \/ pc = "files" /\ todo' = todo /\ idx' = idx
      BY <1>3, <2>5 DEF Quiet, RunCombination, WriteIndex, WriteHeatmap, vars, memory
    <3>2. \A label, f : Good(label, f)' = Good(label, f)
      BY <2>1, <3>1, GoodUnwritten
    <3>3. Files \in Seq(ToSet(Files))
      BY SummaryHeadsFiles DEF ToSet
    <3>4. pc' = "files" => \/ todo' = Files
                           \/ pc = "files" /\ todo' = todo /\ Dir' = Dir
      BY <2>1, <3>1 DEF Dir, Parameters, Values
    <3>5. QED
      BY <2>3, <3>2, <3>3, <3>4 DEF FilesOK
  <2>6. QED
    BY <2>4, <2>5
<1>4. CASE ~Running'
  BY <1>4 DEF FilesOK
<1>5. QED
  BY <1>1, <1>2, <1>3, <1>4, StepKinds

LEMMA StepPct ==
  ASSUME LoadedOK, PlaceOK, PctOK, [Next]_vars
  PROVE  PctOK'
<1>1. CASE \E c \in Configs : Start(c)
  <2>1. PICK c \in Configs : Start(c)
    BY <1>1
  <2>2. Running' => Gone' = {} /\ pct' = << >>
    BY <2>1, GoneStarts
  <2>3. QED
    BY <2>2 DEF PctOK, Labels
<1>2. CASE Running /\ Record
  <2>1. Running' /\ Gone' = Gone \cup {idx}
    BY <1>2, GoneGrows
  <2>2. pct' = (IF cfg.both THEN Stored(pct, Dir, Current) ELSE pct) /\ cfg' = cfg
    BY <1>2 DEF Record
  <2>3. Dir = LabelAt(idx) /\ Current \in ResultsOf(Sharing(Dir))
    BY <1>2, CurrentIsShared
  <2>4. /\ \A p : LabelAt(p)' = LabelAt(p)
        /\ \A d : ResultsOf(Sharing(d))' = ResultsOf(Sharing(d))
    BY <2>2, Fixed
  <2>5. Labels' = Labels \cup {Dir}
    BY <2>1, <2>3, <2>4 DEF Labels
  <2>6. /\ ~cfg.both => pct = << >>
        /\ cfg.both => Labels \subseteq DOMAIN pct
        /\ \A d \in DOMAIN pct : pct[d] \in ResultsOf(Sharing(d))
    BY <1>2 DEF PctOK
  <2>7. CASE cfg.both
    <3>1. /\ DOMAIN pct' = DOMAIN pct \cup {Dir}
          /\ \A d \in DOMAIN pct' : pct'[d] = IF d = Dir THEN Current ELSE pct[d]
      BY <2>2, <2>7 DEF Stored
    <3>2. \A d \in DOMAIN pct' : pct'[d] \in ResultsOf(Sharing(d))
      BY <2>3, <2>6, <3>1
    <3>3. Labels' \subseteq DOMAIN pct'
      BY <2>5, <2>6, <2>7, <3>1
    <3>4. QED
      BY <2>2, <2>4, <2>7, <3>2, <3>3 DEF PctOK
  <2>8. CASE ~cfg.both
    <3>1. pct' = pct /\ pct = << >>
      BY <2>2, <2>6, <2>8
    <3>2. QED
      BY <2>2, <2>4, <2>6, <2>8, <3>1 DEF PctOK
  <2>9. QED
    BY <2>7, <2>8
<1>3. CASE Running /\ Quiet
  <2>1. cfg' = cfg /\ pct' = pct /\ Gone' = Gone
    BY <1>3, GoneStays
  <2>2. /\ \A p : LabelAt(p)' = LabelAt(p)
        /\ \A d : ResultsOf(Sharing(d))' = ResultsOf(Sharing(d))
    BY <2>1, Fixed
  <2>3. Labels' = Labels
    BY <2>1, <2>2 DEF Labels
  <2>4. QED
    BY <1>3, <2>1, <2>2, <2>3 DEF PctOK
<1>4. CASE ~Running'
  BY <1>4 DEF PctOK
<1>5. QED
  BY <1>1, <1>2, <1>3, <1>4, StepKinds

\* Of the heatmap: every cell finds its value, unless there is nothing to find.
LEMMA StepCells ==
  ASSUME LoadedOK, PlaceOK, PctOK, CellsOK, [Next]_vars
  PROVE  CellsOK'
<1>1. CASE WriteHeatmap
  <2>1. cfg' = cfg /\ heatmapFile' = Heatmap /\ pc = "heatmap" /\ Running
    BY <1>1 DEF WriteHeatmap, Running
  <2>2. /\ Parameters' = Parameters /\ Combinations' = Combinations
        /\ \A d : ResultsOf(Sharing(d))' = ResultsOf(Sharing(d))
    BY <2>1, Fixed
  <2>3. SUFFICES ASSUME Len(Parameters) = 2, NEW v \in Combinations
                 PROVE  Heatmap.cells[v] \in
                          IF cfg.both THEN ResultsOf(Sharing(Label(Parameters, v))) ELSE {None}
    BY <2>1, <2>2 DEF CellsOK
  <2> DEFINE label == Label(Parameters, v)
  <2>4. Heatmap.cells[v] = IF label \in DOMAIN pct THEN pct[label] ELSE None
    <3>1. v \in ToSet(Parameters[1].values) \X ToSet(Parameters[2].values)
      <4>1. DOMAIN Parameters = 1 .. 2
        BY <2>1, <2>3, ParametersAre
      <4>2. /\ v = [i \in 1 .. 2 |-> v[i]]
            /\ \A i \in 1 .. 2 : v[i] \in ToSet(Parameters[i].values)
        BY <4>1 DEF Combinations
      <4>3. v = <<v[1], v[2]>>
        BY <4>2
      <4>4. QED
        BY <4>2, <4>3
    <3>2. QED
      BY <3>1 DEF Heatmap
  <2>5. label \in Labels
    <3>1. Gone = Positions
      BY <2>1 DEF Gone
    <3>2. PICK p \in Positions : v = ValuesAt(p)
      BY <2>1, CombinationsAre
    <3>3. QED
      BY <3>1, <3>2 DEF Labels, LabelAt
  <2>6. /\ ~cfg.both => pct = << >>
        /\ cfg.both => Labels \subseteq DOMAIN pct
        /\ \A d \in DOMAIN pct : pct[d] \in ResultsOf(Sharing(d))
    BY <2>1 DEF PctOK
  <2> HIDE DEF label
  <2>7. Heatmap.cells[v] \in IF cfg.both THEN ResultsOf(Sharing(label)) ELSE {None}
    <3>1. CASE cfg.both
      <4>1. label \in DOMAIN pct /\ Heatmap.cells[v] = pct[label]
        BY <2>4, <2>5, <2>6, <3>1
      <4>2. QED
        BY <2>6, <3>1, <4>1
    <3>2. CASE ~cfg.both
      <4>1. label \notin DOMAIN pct
        BY <2>6, <3>2
      <4>2. QED
        BY <2>4, <3>2, <4>1
    <3>3. QED
      BY <3>1, <3>2
  <2>8. QED
    BY <2>7 DEF label
<1>2. CASE ~WriteHeatmap /\ pc' = "done" /\ Len(Parameters') = 2
  <2>1. pc = "done" /\ UNCHANGED vars
    <3>1. CASE WriteIndex
      BY <1>2, <3>1 DEF WriteIndex, Parameters
    <3>2. CASE ~WriteIndex
      BY <1>2, <3>2 DEF Next, Start, RunCombination, WriteFile, FlushFails, Record, Interrupt, vars
    <3>3. QED
      BY <3>1, <3>2
  <2>2. cfg' = cfg /\ heatmapFile' = heatmapFile
    BY <2>1 DEF vars
  <2>3. /\ Parameters' = Parameters /\ Combinations' = Combinations
        /\ \A d : ResultsOf(Sharing(d))' = ResultsOf(Sharing(d))
    BY <2>2, Fixed
  <2>4. QED
    BY <1>2, <2>1, <2>2, <2>3 DEF CellsOK
<1>3. CASE ~(pc' = "done" /\ Len(Parameters') = 2)
  BY <1>3 DEF CellsOK
<1>4. QED
  BY <1>1, <1>2, <1>3

\* Nothing that is left over is made newer.
LEMMA StepLeftovers ==
  ASSUME IndexInv, FilesOK, LeftoversOK, [Next]_vars
  PROVE  LeftoversOK'
<1>1. sweep \in Nat
  BY DEF IndexInv, TypeOK
<1>2. CASE \E c \in Configs : Start(c)
  <2>1. sweep' = sweep + 1 /\ UNCHANGED <<disk, heatmapFile>> /\ pc' # "heatmap"
    BY <1>2 DEF Start
  <2>2. \A content, w1, w2 : Aged(content, w1) => Aged(content, w2)'
    BY <1>1, <2>1 DEF Aged
  <2>3. QED
    BY <2>1, <2>2 DEF LeftoversOK
<1>3. CASE ~(\E c \in Configs : Start(c))
  <2>1. cfg' = cfg /\ sweep' = sweep
    BY <1>3 DEF Next, RunCombination, WriteFile, FlushFails, Record, WriteIndex, WriteHeatmap,
                Interrupt, vars
  <2>2. Files' = Files /\ Parameters' = Parameters
    BY <2>1, Fixed
  <2>3. \A content, w : Aged(content, w)' = Aged(content, w)
    BY <2>1 DEF Aged
  <2>4. pc' = "heatmap" => Len(Parameters') = 2
    BY <1>3, <2>2 DEF Next, RunCombination, WriteFile, FlushFails, Record, WriteIndex, WriteHeatmap,
                      Interrupt, vars, LeftoversOK
  <2>5. heatmapFile' \in {None, Partial} \/ Aged(heatmapFile, Len(Parameters) = 2)'
    <3>1. CASE WriteHeatmap
      <4>1. heatmapFile'.sweep = sweep /\ Len(Parameters) = 2
        BY <3>1 DEF WriteHeatmap, Heatmap, LeftoversOK
      <4>2. QED
        BY <1>1, <2>1, <2>2, <4>1 DEF Aged
    <3>2. CASE ~WriteHeatmap
      <4>1. heatmapFile' = heatmapFile \/ heatmapFile' = Partial
        BY <1>3, <3>2 DEF Next, RunCombination, WriteFile, FlushFails, Record, WriteIndex, Interrupt, vars
      <4>2. QED
        BY <2>2, <2>3, <4>1 DEF LeftoversOK
    <3>3. QED
      BY <3>1, <3>2
  <2>6. CASE disk' = disk
    BY <2>2, <2>3, <2>4, <2>5, <2>6 DEF LeftoversOK
  <2>7. CASE disk' # disk
    <3>1. PICK what : disk' = InDir(Head(todo), what) /\ (what = Partial \/ what = Content)
      BY <1>3, <2>7 DEF Next, RunCombination, WriteFile, FlushFails, Record, WriteIndex, WriteHeatmap,
                        Interrupt, vars
    <3>2. pc = "files" /\ todo # << >>
      BY <1>3, <2>7 DEF Next, RunCombination, WriteFile, FlushFails, Record, WriteIndex, WriteHeatmap,
                        Interrupt, vars
    <3>3. Head(todo) \in ToSet(Files)
      <4>1. todo \in Seq(ToSet(Files))
        BY <3>2 DEF FilesOK, Running
      <4>2. QED
        BY <3>2, <4>1
    <3>4. what = Partial \/ Aged(what, Head(todo) \in ToSet(Files))
      BY <1>1, <3>1, <3>3, ContentIsWhole DEF Aged
    <3> DEFINE new == InDir(Head(todo), what)
    <3>5. /\ new[Dir][Head(todo)] = what
          /\ \A d \in DOMAIN new : \A f \in DOMAIN new[d] :
               \/ d = Dir /\ f = Head(todo)
               \/ d \in DOMAIN disk /\ f \in DOMAIN disk[d] /\ new[d][f] = disk[d][f]
      BY FileWritten
    <3>6. disk' = new
      BY <3>1
    <3> HIDE DEF new
    <3>7. \A d \in DOMAIN new : \A f \in DOMAIN new[d] :
            new[d][f] = Partial \/ Aged(new[d][f], f \in ToSet(Files))
      BY <3>4, <3>5 DEF LeftoversOK
    <3>8. QED
      BY <2>2, <2>3, <2>4, <2>5, <3>6, <3>7 DEF LeftoversOK
  <2>8. QED
    BY <2>6, <2>7
<1>4. QED
  BY <1>2, <1>3

-----------------------------------------------------------------------------
\* Two numbers of one format are the same but for less than 1e-9.
LEMMA FormatsTell ==
  ASSUME NEW v \in Int, NEW w \in Int, Format(v) = Format(w), v # w
  PROVE  (v % 10 = 1 /\ w = v - 1) \/ (w % 10 = 1 /\ v = w - 1)
<1>1. ASSUME NEW u \in Int
      PROVE  u = (u \div 10) * 10 + (u % 10) /\ u % 10 \in 0 .. 9 /\ u \div 10 \in Int
  <2>1. u % 10 \in 0 .. 9 /\ u \div 10 \in Int
    OBVIOUS
  <2>2. u = (u \div 10) * 10 + (u % 10)
    BY SMT
  <2>3. QED
    BY <2>1, <2>2
<1>2. /\ v % 10 <= 1 => Format(v) = <<v \div 10>>
      /\ ~(v % 10 <= 1) => Format(v) = <<v \div 10, v % 10>>
      /\ w % 10 <= 1 => Format(w) = <<w \div 10>>
      /\ ~(w % 10 <= 1) => Format(w) = <<w \div 10, w % 10>>
  BY DEF Format
<1>3. \A a, b, c : <<a>> # <<b, c>>
  <2> SUFFICES ASSUME NEW a, NEW b, NEW c, <<a>> = <<b, c>> PROVE FALSE
    OBVIOUS
  <2>1. Len(<<a>>) = 1 /\ Len(<<b, c>>) = 2
    OBVIOUS
  <2>2. QED
    BY <2>1
<1>4. \A a, b : <<a>> = <<b>> => a = b
  OBVIOUS
<1>5. \A a, b, c, d : <<a, b>> = <<c, d>> => a = c /\ b = d
  OBVIOUS
<1>6. CASE v % 10 <= 1 /\ w % 10 <= 1
  <2>1. v \div 10 = w \div 10
    BY <1>2, <1>4, <1>6
  <2>2. QED
    BY <1>1, <1>6, <2>1
<1>7. CASE ~(v % 10 <= 1) /\ ~(w % 10 <= 1)
  <2>1. v \div 10 = w \div 10 /\ v % 10 = w % 10
    BY <1>2, <1>5, <1>7
  <2>2. QED
    BY <1>1, <2>1
<1>8. QED
  BY <1>2, <1>3, <1>6, <1>7

\* The nth parameter of a name is one parameter.
LEMMA NthTell ==
  ASSUME LoadedOK, Running, NEW i \in DOMAIN Parameters, NEW j \in DOMAIN Parameters,
         Parameters[i].name = Parameters[j].name, i < j
  PROVE  Cardinality({ m \in DOMAIN Parameters : m <= i /\ Parameters[m].name = Parameters[i].name }) #
         Cardinality({ m \in DOMAIN Parameters : m <= j /\ Parameters[m].name = Parameters[j].name })
<1> DEFINE upto(k) == { m \in DOMAIN Parameters : m <= k /\ Parameters[m].name = Parameters[k].name }
<1>1. DOMAIN Parameters = 1 .. Len(Parameters) /\ Len(Parameters) \in Nat
  BY ParametersAre
<1>2. IsFiniteSet(DOMAIN Parameters)
  BY <1>1, FS_Interval
<1>3. upto(j) \subseteq DOMAIN Parameters
  OBVIOUS
<1>4. upto(i) \subseteq upto(j)
  BY <1>1
<1>5. j \in upto(j) /\ j \notin upto(i)
  BY <1>1
<1> HIDE DEF upto
<1>6. IsFiniteSet(upto(j))
  BY <1>2, <1>3, FS_Subset
<1>7. Cardinality(upto(j)) = Cardinality(upto(i)) => upto(j) = upto(i)
  BY <1>4, <1>6, FS_Subset
<1>8. Cardinality(upto(i)) # Cardinality(upto(j))
  BY <1>5, <1>7
<1>9. QED
  BY <1>8 DEF upto

\* Combinations that share a directory differ in values that are all but equal.
LEMMA LabelsTell ==
  ASSUME LoadedOK, Running, NEW v \in Combinations, NEW w \in Combinations,
         Label(Parameters, v) = Label(Parameters, w), v # w
  PROVE  AllButEqual
<1> DEFINE nth(i) == Cardinality({ j \in DOMAIN Parameters :
                                     j <= i /\ Parameters[j].name = Parameters[i].name })
<1>1. \A i \in DOMAIN Parameters : /\ v[i] \in ToSet(Parameters[i].values) /\ w[i] \in ToSet(Parameters[i].values)
                                   /\ v[i] \in Int /\ w[i] \in Int
  <2>1. \A i \in DOMAIN Parameters : ToSet(Parameters[i].values) \subseteq Int
    BY ParametersAre DEF ToSet
  <2>2. QED
    BY <2>1 DEF Combinations
<1>2. PICK i \in DOMAIN Parameters : v[i] # w[i]
  BY DEF Combinations
<1>3. /\ Label(Parameters, v) = { <<Parameters[j].name, nth(j), Format(v[j])>> : j \in DOMAIN Parameters }
      /\ Label(Parameters, w) = { <<Parameters[j].name, nth(j), Format(w[j])>> : j \in DOMAIN Parameters }
  BY DEF Label
<1>4. \A j, k \in DOMAIN Parameters : Parameters[j].name = Parameters[k].name /\ nth(j) = nth(k) => j = k
  <2> SUFFICES ASSUME NEW j \in DOMAIN Parameters, NEW k \in DOMAIN Parameters,
                      Parameters[j].name = Parameters[k].name, nth(j) = nth(k), j # k
               PROVE  FALSE
    OBVIOUS
  <2>1. j < k \/ k < j
    BY ParametersAre
  <2>2. QED
    BY <2>1, NthTell
<1> HIDE DEF nth
<1>5. PICK j \in DOMAIN Parameters : /\ Parameters[j].name = Parameters[i].name /\ nth(j) = nth(i)
                                     /\ Format(w[j]) = Format(v[i])
  <2>1. <<Parameters[i].name, nth(i), Format(v[i])>> \in Label(Parameters, w)
    BY <1>3
  <2>2. PICK j \in DOMAIN Parameters : <<Parameters[j].name, nth(j), Format(w[j])>> =
                                      <<Parameters[i].name, nth(i), Format(v[i])>>
    BY <1>3, <2>1
  <2>3. \A a, b, c, d, e, f : <<a, b, c>> = <<d, e, f>> => a = d /\ b = e /\ c = f
    OBVIOUS
  <2>4. QED
    BY <2>2, <2>3
<1>6. j = i
  BY <1>4, <1>5
<1>7. (v[i] % 10 = 1 /\ w[i] = v[i] - 1) \/ (w[i] % 10 = 1 /\ v[i] = w[i] - 1)
  BY <1>1, <1>2, <1>5, <1>6, FormatsTell
<1>8. QED
  BY <1>1, <1>7 DEF AllButEqual

\* A sweep that reports success has an entry for every combination; in every file that
\* it writes to the directory of one (but raw.csv may be cut short) and in its cell of
\* the heatmap are the results of that combination in this sweep, whatever failed sweeps
\* left behind.  What it does not write and finds there is of an earlier sweep, or was
\* cut short (sweep.go:227, 290-344; reporter.go:27-36, 63).
THEOREM SweepsComplete == Spec => []SweepComplete
<1>1. Init => SweepInv
  <2>1. Init => ~Running /\ pc = "ended"
    BY DEF Init, Running
  <2>2. Init => IndexInv
    BY IndexInvInitially
  <2>3. QED
    BY <2>1, <2>2 DEF SweepInv, LoadedOK, PlaceOK, IndexedOK, FilesOK, PctOK, CellsOK, LeftoversOK, Init
<1>2. SweepInv /\ [Next]_vars => SweepInv'
  <2> SUFFICES ASSUME SweepInv, [Next]_vars PROVE SweepInv'
    OBVIOUS
  <2>1. IndexInv' /\ LoadedOK'
    BY IndexInvInductive, StepLoaded DEF SweepInv
  <2>2. PlaceOK' /\ IndexedOK' /\ FilesOK' /\ PctOK' /\ CellsOK' /\ LeftoversOK'
    BY StepIndexed, StepFiles, StepPct, StepCells, StepLeftovers DEF SweepInv
  <2>3. QED
    BY <2>1, <2>2 DEF SweepInv
<1>3. SweepInv => SweepComplete
  <2> SUFFICES ASSUME SweepInv, pc = "done" PROVE SweepComplete
    BY DEF SweepComplete
  <2>1. Running /\ Gone = Positions /\ LoadedOK /\ Combinations = { ValuesAt(p) : p \in Positions }
    BY CombinationsAre DEF Running, Gone, SweepInv
  <2>2. ToSet(index) = { IndexEntry(v) : v \in Combinations } /\ Len(index) = Cardinality(Positions)
    BY <2>1 DEF SweepInv, IndexedOK
  <2>3. sweep \in Nat
    BY DEF SweepInv, IndexInv, TypeOK
  <2>4. ASSUME NEW v \in Combinations
        PROVE  LET label == Label(Parameters, v)
               IN  /\ Sharing(label) = {v} \/ AllButEqual
                   /\ \A f \in ToSet(Files) :
                        LET content == disk[label][f]
                        IN  IF content = Partial
                            THEN f = "raw.csv"
                            ELSE content.sweep = sweep /\ content.result \in ResultsOf(Sharing(label))
                   /\ \A f \in DOMAIN disk[label] \ ToSet(Files) : Leftover(disk[label][f])
                   /\ Len(Parameters) = 2 =>
                        heatmapFile.cells[v] \in IF cfg.both THEN ResultsOf(Sharing(label)) ELSE {None}
    <3> DEFINE label == Label(Parameters, v)
    <3>1. Sharing(label) = {v} \/ AllButEqual
      <4>1. v \in Sharing(label)
        BY DEF Sharing
      <4>2. \A w \in Sharing(label) : w = v \/ AllButEqual
        BY <2>1, LabelsTell DEF Sharing
      <4>3. QED
        BY <4>1, <4>2
    <3>2. label \in Labels
      BY <2>1 DEF Labels, LabelAt
    <3>3. \A f \in ToSet(Files) : Right(label, f, disk[label][f])
      BY <2>1, <3>2 DEF SweepInv, FilesOK, Good
    <3>4. Len(Parameters) = 2 =>
            heatmapFile.cells[v] \in IF cfg.both THEN ResultsOf(Sharing(label)) ELSE {None}
      BY DEF SweepInv, CellsOK
    <3>5. ASSUME NEW f \in DOMAIN disk[label] \ ToSet(Files) PROVE Leftover(disk[label][f])
      <4>1. label \in DOMAIN disk
        <5>1. PICK f0 \in ToSet(Files) : TRUE
          BY SummaryHeadsFiles DEF ToSet
        <5>2. QED
          BY <2>1, <3>2, <5>1 DEF SweepInv, FilesOK, Good
      <4>2. disk[label][f] = Partial \/ Aged(disk[label][f], f \in ToSet(Files))
        BY <4>1 DEF SweepInv, LeftoversOK
      <4>3. QED
        BY <2>3, <4>2 DEF Aged, Leftover
    <3>6. QED
      BY <3>1, <3>3, <3>4, <3>5 DEF Right
  <2>5. Len(Parameters) # 2 => heatmapFile = None \/ Leftover(heatmapFile)
    BY <2>3 DEF SweepInv, LeftoversOK, Aged, Leftover
  <2>6. QED
    BY <2>2, <2>4, <2>5 DEF SweepComplete
<1>4. QED
  BY <1>1, <1>2, <1>3, PTL DEF Spec

-----------------------------------------------------------------------------
Places == {"off", "stat_cert", "stat_key", "read_cert", "read_key", "open_cert", "write_cert",
           "open_key", "write_key", "pool", "up", "failed"}

\* The shape of the state.
CertTypeOK ==
  /\ certFile \in Pairs \cup {NoFile, Empty} /\ keyFile \in Pairs \cup {NoFile, Empty}
  /\ at \in [Nodes -> Places] /\ starts \in [Nodes -> Nat]
  /\ cert \in [Nodes -> Pairs \cup {NoFile, Empty, NoCert}]
  /\ pool \in [Nodes -> Pairs \cup {NoFile, Empty, NoCert}]
  /\ \A s \in Nodes : MidPersist(s) => cert[s] \in Pairs
  /\ writable \in BOOLEAN /\ torn \in BOOLEAN /\ mixed \in BOOLEAN /\ raced \in BOOLEAN
  /\ disturbed \in [Nodes -> BOOLEAN]

\* The files are a certificate and its key.
Usable == certFile \in Pairs /\ keyFile = certFile

\* A server that persists is the only one that runs.
Alone == \A s, t \in Nodes : s # t /\ Persisting(s) => at[t] \in {"off", "failed"}

\* Between persists, a pair is missing a file or is usable.
Sound == (\A s \in Nodes : ~MidPersist(s)) => certFile = NoFile \/ keyFile = NoFile \/ Usable

\* What server s knows of the files where it is.
Knows(s) ==
  /\ at[s] = "stat_key" => certFile # NoFile
  /\ at[s] = "open_cert" => certFile = NoFile \/ keyFile = NoFile
  /\ at[s] \in {"open_key", "write_key"} => certFile = cert[s]
  /\ at[s] \in {"read_cert", "read_key", "pool", "up"} => Usable
  /\ at[s] \in {"read_key", "pool", "up"} => cert[s] = certFile
  /\ at[s] = "up" /\ s # Origin => pool[s] = certFile

Calm == Alone /\ Sound /\ \A s \in Nodes : Knows(s)

\* What server s can rely on as long as no two have written at once: what it wrote
\* itself, and what it saw if nobody wrote meanwhile.
Sees(s) ==
  /\ at[s] \in {"open_key", "write_key"} => certFile = cert[s]
  /\ ~disturbed[s] =>
       /\ Starting(s) => \A t \in Nodes : MidPersist(t) => t = s
       /\ at[s] = "stat_key" => certFile # NoFile
       /\ at[s] \in {"read_cert", "read_key"} => Usable
       /\ at[s] = "read_key" => cert[s] = certFile
       /\ at[s] = "failed" => ~writable

OneWriter == \A s, t \in Nodes : MidPersist(s) /\ MidPersist(t) => s = t
Orderly == OneWriter /\ Sound /\ \A s \in Nodes : Sees(s)

CertInv == CertTypeOK /\ (Undisturbed => Calm) /\ (~torn /\ ~mixed => Orderly)

-----------------------------------------------------------------------------
\* Initially no server runs, and a prepared pair is a pair.
LEMMA CertInitInv == CertInit => CertInv
<1> SUFFICES ASSUME CertInit PROVE CertInv
  OBVIOUS
<1>1. Prepared \in Pairs
  BY DEF Prepared, Pairs
<1>2. CertTypeOK
  BY <1>1, WritableAssumption DEF CertInit, CertTypeOK, Places, MidPersist
<1>3. Calm
  BY <1>1, FilesAssumption
  DEF CertInit, Calm, Alone, Sound, Knows, Usable, Persisting, MidPersist
<1>4. Orderly
  BY <1>1, FilesAssumption
  DEF CertInit, Orderly, OneWriter, Sound, Sees, Starting, Usable, MidPersist
<1>5. QED
  BY <1>2, <1>3, <1>4 DEF CertInv

\* Every step keeps the types.
LEMMA CertStepTypeOK == CertTypeOK /\ [CertNext]_certVars => CertTypeOK'
<1> SUFFICES ASSUME CertTypeOK, CertNext PROVE CertTypeOK'
  BY DEF CertTypeOK, MidPersist, certVars, server
<1> USE DEF server, MidPersist
<1>1. /\ raced' \in BOOLEAN /\ writable' \in BOOLEAN /\ mixed' \in BOOLEAN
      /\ disturbed' \in [Nodes -> BOOLEAN]
  BY DEF CertNext, CertTypeOK, Disturbs
<1>2. PICK s \in Nodes : Step(s)
  BY DEF CertNext
<1>3. <<s, starts[s]>> \in Pairs
  BY DEF CertTypeOK, Pairs
<1>4. CASE StartServer(s) \/ StatCert(s) \/ StatKey(s) \/ ReadCert(s) \/ ReadKey(s)
  BY <1>1, <1>4 DEF StartServer, StatCert, StatKey, ReadCert, ReadKey, Ready, Goto, CertTypeOK, Places
<1>5. CASE OpenCert(s) \/ WriteCert(s) \/ OpenKey(s) \/ WriteKey(s) \/ LoadPool(s)
  BY <1>1, <1>3, <1>5 DEF OpenCert, WriteCert, OpenKey, WriteKey, LoadPool, Ready, Goto, CertTypeOK, Places
<1>6. CASE Crash(s)
  BY <1>1, <1>6 DEF Crash, CertTypeOK, Places
<1>7. QED
  BY <1>2, <1>4, <1>5, <1>6 DEF Step

\* What a step that is not disturbed keeps.
LEMMA StepCalm ==
  ASSUME CertTypeOK, CertTypeOK', Undisturbed => Calm, CertNext, Undisturbed'
  PROVE  Calm'
<1> USE DEF server
<1>1. PICK s \in Nodes : Step(s)
  BY DEF CertNext
<1>2. ~raced /\ ~Overlap' /\ writable' = writable
  BY DEF CertNext, Undisturbed
<1>3. Calm
  <2>1. torn => torn'
    BY <1>1 DEF Step, StartServer, StatCert, StatKey, ReadCert, ReadKey, OpenCert,
                WriteCert, OpenKey, WriteKey, LoadPool, Crash
  <2>2. QED
    BY <1>2, <2>1 DEF Undisturbed
<1>4. \A t \in Nodes : t # s => at'[t] = at[t] /\ cert'[t] = cert[t] /\ pool'[t] = pool[t]
  BY <1>1 DEF Step, StartServer, StatCert, StatKey, ReadCert, ReadKey, OpenCert,
              WriteCert, OpenKey, WriteKey, LoadPool, Crash, Goto, CertTypeOK
<1>5. \A t, u \in Nodes : t # u /\ Persisting(t)' => at'[u] \in {"off", "up", "failed"}
  BY <1>2 DEF Overlap, Starting
<1>6. CASE StartServer(s)
  BY <1>2, <1>3, <1>4, <1>5, <1>6
  DEF StartServer, Goto, Calm, Alone, Sound, Knows, Usable, Persisting, MidPersist, CertTypeOK
<1>7. CASE StatCert(s) \/ StatKey(s)
  BY <1>2, <1>3, <1>4, <1>5, <1>7, FilesAssumption
  DEF StatCert, StatKey, Goto, Calm, Alone, Sound, Knows, Usable, Persisting, MidPersist, CertTypeOK
<1>8. CASE ReadCert(s) \/ ReadKey(s) \/ LoadPool(s)
  BY <1>2, <1>3, <1>4, <1>5, <1>8, FilesAssumption
  DEF ReadCert, ReadKey, LoadPool, Ready, Goto, Calm, Alone, Sound, Knows, Usable, Persisting, MidPersist, CertTypeOK
<1>9. CASE OpenCert(s)
  BY <1>2, <1>3, <1>4, <1>5, <1>9, FilesAssumption
  DEF OpenCert, Goto, Calm, Alone, Sound, Knows, Usable, Persisting, MidPersist, CertTypeOK
<1>10. CASE WriteCert(s) \/ OpenKey(s)
  BY <1>2, <1>3, <1>4, <1>5, <1>10, FilesAssumption
  DEF WriteCert, OpenKey, Goto, Calm, Alone, Sound, Knows, Usable, Persisting, MidPersist, CertTypeOK
<1>11. CASE WriteKey(s)
  BY <1>2, <1>3, <1>4, <1>5, <1>11, FilesAssumption
  DEF WriteKey, Ready, Goto, Calm, Alone, Sound, Knows, Usable, Persisting, MidPersist, CertTypeOK
<1>12. CASE Crash(s)
  <2>1. /\ at'[s] = "off" /\ UNCHANGED <<certFile, keyFile, cert, pool, writable>>
        /\ MidPersist(s) => keyFile = NoFile
    BY <1>2, <1>12 DEF Crash, CertTypeOK, Undisturbed
  <2>2. Alone'
    BY <1>3, <1>4, <2>1 DEF Calm, Alone, Persisting
  <2>3. Sound'
    <3>1. CASE MidPersist(s)
      BY <2>1, <3>1 DEF Sound
    <3>2. CASE ~MidPersist(s)
      BY <1>3, <1>4, <2>1, <3>2 DEF Calm, Sound, MidPersist, Usable
    <3>3. QED
      BY <3>1, <3>2
  <2>4. \A t \in Nodes : Knows(t)'
    <3>1. Knows(s)'
      BY <2>1 DEF Knows
    <3>2. ASSUME NEW t \in Nodes, t # s PROVE Knows(t)'
      BY <1>3, <1>4, <2>1, <3>2 DEF Calm, Knows, Usable
    <3>3. QED
      BY <3>1, <3>2
  <2>5. QED
    BY <2>2, <2>3, <2>4 DEF Calm
<1>13. QED
  BY <1>1, <1>6, <1>7, <1>8, <1>9, <1>10, <1>11, <1>12 DEF Step

\* What a step keeps as long as no two servers have written at once.
LEMMA StepOrderly ==
  ASSUME CertTypeOK, CertTypeOK', ~torn /\ ~mixed => Orderly, CertNext, ~torn', ~mixed'
  PROVE  Orderly'
<1> USE DEF server
<1>1. PICK s \in Nodes : Step(s)
  BY DEF CertNext
<1>2. ~mixed /\ ~TwoWrite' /\ writable' = writable
  BY DEF CertNext
<1>3. Orderly
  <2>1. torn => torn'
    BY <1>1 DEF Step, StartServer, StatCert, StatKey, ReadCert, ReadKey, OpenCert,
                WriteCert, OpenKey, WriteKey, LoadPool, Crash
  <2>2. QED
    BY <1>2, <2>1
<1>4. \A t \in Nodes : t # s => at'[t] = at[t] /\ cert'[t] = cert[t]
  BY <1>1 DEF Step, StartServer, StatCert, StatKey, ReadCert, ReadKey, OpenCert,
              WriteCert, OpenKey, WriteKey, LoadPool, Crash, Goto, CertTypeOK
<1>5. OneWriter'
  BY <1>2 DEF TwoWrite, OneWriter
\* Only a server that writes changes the files.
<1>6. /\ MidPersist(s) \/ MidPersist(s)' \/ UNCHANGED <<certFile, keyFile>>
      /\ MidPersist(s)' \/ certFile' = certFile
  BY <1>1 DEF Step, StartServer, StatCert, StatKey, ReadCert, ReadKey, OpenCert,
              WriteCert, OpenKey, WriteKey, LoadPool, Crash, Goto, MidPersist, CertTypeOK
<1>7. ASSUME NEW t \in Nodes, ~disturbed'[t]
      PROVE  /\ at[t] = "off" \/ ~disturbed[t]
             /\ Starting(t)' => \A u \in Nodes : MidPersist(u)' => u = t
  BY <1>7 DEF CertNext, Disturbs, MidPersist
<1>8. ASSUME NEW t \in Nodes, t # s PROVE Sees(t)'
  <2>1. at'[t] = at[t] /\ cert'[t] = cert[t]
    BY <1>4, <1>8
  <2>2. ASSUME at'[t] \in {"open_key", "write_key"} PROVE certFile' = cert'[t]
    <3>1. MidPersist(t)'
      BY <2>2 DEF MidPersist
    <3>2. ~MidPersist(s)'
      BY <1>5, <1>8, <3>1 DEF OneWriter
    <3>3. QED
      BY <1>3, <1>6, <2>1, <2>2, <3>2 DEF Orderly, Sees
  <2>3. ASSUME ~disturbed'[t], Starting(t)' PROVE ~disturbed[t] /\ UNCHANGED <<certFile, keyFile>>
    <3>1. Starting(t) /\ ~disturbed[t]
      BY <1>7, <2>1, <2>3 DEF Starting
    <3>2. ~MidPersist(s) /\ ~MidPersist(s)'
      BY <1>3, <1>7, <1>8, <2>3, <3>1 DEF Orderly, Sees
    <3>3. QED
      BY <1>6, <3>1, <3>2
  <2>4. ASSUME ~disturbed'[t], at'[t] = "failed" PROVE ~writable'
    BY <1>2, <1>3, <1>7, <2>1, <2>4 DEF Orderly, Sees
  <2>5. ASSUME ~disturbed'[t]
        PROVE  /\ at'[t] = "stat_key" => certFile' # NoFile
               /\ at'[t] \in {"read_cert", "read_key"} => Usable'
               /\ at'[t] = "read_key" => cert'[t] = certFile'
    BY <1>3, <2>1, <2>3, <2>5 DEF Orderly, Sees, Usable, Starting
  <2>6. QED
    BY <1>7, <2>2, <2>4, <2>5 DEF Sees
<1>9. Sound' /\ Sees(s)'
  <2>1. ~disturbed'[s] /\ Starting(s)' => \A u \in Nodes : MidPersist(u)' => u = s
    BY <1>7
  <2>2. CASE StartServer(s)
    BY <1>3, <1>4, <1>7, <2>1, <2>2
    DEF StartServer, Goto, Orderly, Sound, Sees, Usable, MidPersist, Starting, CertTypeOK
  <2>3. CASE StatCert(s) \/ StatKey(s)
    <3>1. /\ UNCHANGED <<certFile, keyFile, cert>> /\ Starting(s)
          /\ \A t \in Nodes : MidPersist(t)' <=> MidPersist(t)
      BY <1>4, <2>3 DEF StatCert, StatKey, Goto, MidPersist, Starting, CertTypeOK
    <3>2. Sound'
      BY <1>3, <3>1 DEF Orderly, Sound, Usable
    <3>3. ~disturbed'[s] => ~disturbed[s] /\ \A t \in Nodes : ~MidPersist(t)
      BY <1>3, <1>7, <2>3, <3>1 DEF StatCert, StatKey, Goto, Orderly, Sees, MidPersist, CertTypeOK
    <3>4. CASE StatCert(s)
      BY <2>1, <3>1, <3>2, <3>3, <3>4 DEF StatCert, Goto, Sees, CertTypeOK
    <3>5. CASE StatKey(s)
      <4>1. at[s] = "stat_key" /\ at'[s] = IF keyFile = NoFile THEN "open_cert" ELSE "read_cert"
        BY <3>5 DEF StatKey, Goto, CertTypeOK
      <4>2. ~disturbed'[s] /\ keyFile # NoFile => Usable'
        BY <1>3, <3>1, <3>3, <4>1 DEF Orderly, Sound, Sees, Usable
      <4>3. QED
        BY <2>1, <3>2, <4>1, <4>2 DEF Sees
    <3>6. QED
      BY <2>3, <3>4, <3>5
  <2>4. CASE ReadCert(s) \/ ReadKey(s) \/ LoadPool(s)
    <3>1. /\ UNCHANGED <<certFile, keyFile>> /\ Starting(s)
          /\ \A t \in Nodes : MidPersist(t)' <=> MidPersist(t)
      BY <1>4, <2>4 DEF ReadCert, ReadKey, LoadPool, Ready, Goto, MidPersist, Starting, CertTypeOK
    <3>2. Sound'
      BY <1>3, <3>1 DEF Orderly, Sound, Usable
    <3>3. ~disturbed'[s] => ~disturbed[s]
      BY <1>7, <3>1 DEF Starting
    <3>4. CASE ReadCert(s)
      BY <1>3, <2>1, <3>1, <3>2, <3>3, <3>4 DEF ReadCert, Goto, Orderly, Sees, Usable, CertTypeOK
    <3>5. CASE ReadKey(s)
      <4>1. /\ at[s] = "read_key" /\ cert' = cert
            /\ at'[s] = IF keyFile = cert[s] /\ keyFile \notin {NoFile, Empty} THEN Ready(s) ELSE "failed"
        BY <3>5 DEF ReadKey, Goto, CertTypeOK
      <4>2. ~disturbed'[s] => at'[s] = Ready(s)
        BY <1>3, <3>3, <4>1, FilesAssumption DEF Orderly, Sees, Usable
      <4>3. QED
        BY <2>1, <3>2, <4>1, <4>2 DEF Sees, Ready
    <3>6. CASE LoadPool(s)
      BY <2>1, <3>2, <3>6 DEF LoadPool, Goto, Sees, CertTypeOK
    <3>7. QED
      BY <2>4, <3>4, <3>5, <3>6
  <2>5. CASE OpenCert(s)
    <3>1. CASE writable
      BY <2>1, <2>5, <3>1 DEF OpenCert, Goto, Sound, Sees, MidPersist, CertTypeOK
    <3>2. CASE ~writable
      BY <1>2, <1>3, <1>4, <2>1, <2>5, <3>2
      DEF OpenCert, Goto, Orderly, Sound, Sees, Usable, MidPersist, CertTypeOK
    <3>3. QED
      BY <3>1, <3>2
  <2>6. CASE WriteCert(s) \/ OpenKey(s)
    BY <1>3, <2>1, <2>6 DEF WriteCert, OpenKey, Goto, Orderly, Sound, Sees, MidPersist, CertTypeOK
  <2>7. CASE WriteKey(s)
    <3>1. /\ at[s] = "write_key" /\ at'[s] = Ready(s) /\ certFile' = certFile /\ keyFile' = cert[s]
      BY <2>7 DEF WriteKey, Goto, CertTypeOK
    <3>2. Usable'
      BY <1>3, <3>1 DEF Orderly, Sees, Usable, CertTypeOK, MidPersist
    <3>3. QED
      BY <2>1, <3>1, <3>2 DEF Sound, Sees, Ready
  <2>8. CASE Crash(s)
    <3>1. /\ at'[s] = "off" /\ UNCHANGED <<certFile, keyFile, cert>>
          /\ MidPersist(s) => keyFile = NoFile
      BY <2>8 DEF Crash, CertTypeOK
    <3>2. CASE MidPersist(s)
      BY <3>1, <3>2 DEF Sound, Sees, Starting
    <3>3. CASE ~MidPersist(s)
      <4>1. \A t \in Nodes : MidPersist(t) => MidPersist(t)'
        BY <1>4, <3>3 DEF MidPersist
      <4>2. QED
        BY <1>3, <3>1, <4>1 DEF Orderly, Sound, Sees, Starting, Usable
    <3>4. QED
      BY <3>2, <3>3
  <2>9. QED
    BY <1>1, <2>2, <2>3, <2>4, <2>5, <2>6, <2>7, <2>8 DEF Step
<1>10. QED
  BY <1>5, <1>8, <1>9 DEF Orderly

\* The invariant holds throughout.
LEMMA CertInvariance == CertSpec => []CertInv
<1>1. CertInv /\ [CertNext]_certVars => CertInv'
  <2>1. ASSUME CertInv, CertNext PROVE CertInv'
    <3>1. CertTypeOK'
      BY <2>1, CertStepTypeOK DEF CertInv
    <3>2. ~torn' /\ ~mixed' => Orderly'
      BY <2>1, <3>1, StepOrderly DEF CertInv
    <3>3. Undisturbed' => Calm'
      BY <2>1, <3>1, StepCalm DEF CertInv
    <3>4. QED
      BY <3>1, <3>2, <3>3 DEF CertInv
  <2>2. ASSUME CertInv, UNCHANGED certVars PROVE CertInv'
    BY <2>2 DEF CertInv, certVars, server, CertTypeOK, Undisturbed, Calm, Alone, Sound, Knows, Usable,
                Orderly, OneWriter, Sees, Starting, Persisting, MidPersist
  <2>3. QED
    BY <2>1, <2>2
<1>2. QED
  BY <1>1, CertInitInv, PTL DEF CertSpec

-----------------------------------------------------------------------------
\* For any number of servers, starts and crashes, a server that may write fails to start
\* only if another one wrote the pair meanwhile, or two have written it at once, or a
\* crash left a key that is not of its certificate (cert.go:38-44, 99-117).
THEOREM StartsSafely == CertSpec => []StartsUnlessTorn
<1>1. CertInv => StartsUnlessTorn
  BY DEF CertInv, StartsUnlessTorn, Orderly, Sees
<1>2. QED
  BY <1>1, CertInvariance, PTL

\* Likewise, as long as no start overlapped a decision to write, whether edges verify an
\* upstream that is up, by its name or by its address, depends on nothing but where the
\* one certificate they all hold was generated (the mains, docker/certs/generate.sh:42).
THEOREM UpstreamsVerified == CertSpec => []EdgesVerifyUpstreams
<1>1. CertInv => EdgesVerifyUpstreams
  <2> SUFFICES ASSUME CertInv, Undisturbed, NEW s \in Edges, NEW u \in Nodes, at[s] = "up", at[u] = "up"
               PROVE  LET generator == cert[u][1]
                      IN  /\ Verifies(s, u, "name") <=> u # Origin \/ generator \notin Edges
                          /\ Verifies(s, u, "address") <=>
                               generator = "prepared" \/ (generator = Origin <=> u = Origin)
    BY DEF EdgesVerifyUpstreams
  <2>1. certFile \in Pairs /\ cert[u] = certFile /\ pool[s] = certFile
    BY NodesAssumption DEF CertInv, Calm, Knows, Usable, Nodes
  <2>2. pool[s] # NoCert
    BY <2>1, FilesAssumption
  <2>3. \A by : Verifies(s, u, by) <=> GoodFor(certFile, u, by)
    BY <2>1, <2>2 DEF Verifies
  <2>4. CASE certFile = Prepared
    BY <2>1, <2>3, <2>4, NodesAssumption DEF GoodFor, OriginLists, EdgeLists, Prepared
  <2>5. CASE certFile # Prepared
    <3>1. certFile[1] \in Nodes
      BY <2>1, <2>5 DEF Pairs
    <3>2. QED
      BY <2>1, <2>3, <2>5, <3>1, NodesAssumption DEF GoodFor, OriginLists, EdgeLists, Nodes
  <2>6. QED
    BY <2>4, <2>5
<1>2. QED
  BY <1>1, CertInvariance, PTL
=============================================================================
