------------------------------- MODULE Sweep --------------------------------
(***************************************************************************)
(* RunSweep of internal/experiment/sweep.go (the command "cdnsim sweep"),  *)
(* with WriteJSON and WriteCSV of reporter.go: one experiment for every    *)
(* combination of parameter values, each with its files in a directory     *)
(* named after the combination, then an index and perhaps a heatmap.       *)
(* Sweeps follow each other in one output directory; a sweep may end at    *)
(* any step, by an error or a kill, and leaves its files behind.           *)
(*                                                                         *)
(* A number v stands for v / 10; one whose last digit is 1 is an integer   *)
(* but for less than 1e-9.  What a modeled experiment computes is a        *)
(* function of its configuration and seed, and stands for itself; an       *)
(* emulated one measures a real network, and what it measured is named     *)
(* after the configuration and seed it ran with.                           *)
(***************************************************************************)
EXTENDS Integers, Sequences, FiniteSets, SequencesExt

CONSTANTS
  Configs,    \* the sweep configurations: [base, valid, both, emulated, csv, parameters]
  MaxSweeps,  \* bound on the sweeps in the output directory
  None

\* A file that was cut short; what it holds is of no use to a reader.
Partial == [cut |-> TRUE]

\* The paths applyOverride knows; two of them set integers.
IntPaths == {"clients.count", "content.duration_seconds"}
SupportedPaths == IntPaths \cup {"base_rtt_ms", "uniform_percent", "bandwidth_mbps"}

\* SweepConfig; both says whether the base runs both protocols, emulated which mode it
\* has, csv whether it emits CSV, and valid whether it passes what else Validate checks
\* (names, protocols, edges, the mode): no override touches that.
IsSweep(c) ==
  /\ c.base \in [SupportedPaths \cup {"seed"} -> Int]
  /\ c.valid \in BOOLEAN /\ c.both \in BOOLEAN /\ c.emulated \in BOOLEAN /\ c.csv \in BOOLEAN
  /\ c.parameters \in Seq([name : STRING, path : STRING, values : Seq(Int)])

ASSUME ConfigsAssumption == \A c \in Configs : IsSweep(c)

VARIABLES
  sweep, pc, cfg,
  idx,        \* crossProduct: for every parameter the position of its value
  todo,       \* the files of the combination that are still to be written
  index, pct, \* the index and latencyP95Pct, in memory
  disk,       \* for every directory its files
  indexFile, heatmapFile,
  log         \* history: what the modeled experiments computed

memory == <<idx, index, pct>>
vars == <<sweep, pc, cfg, todo, memory, disk, indexFile, heatmapFile, log>>

Init ==
  /\ sweep = 0 /\ pc = "ended" /\ cfg = None
  /\ idx = << >> /\ todo = << >> /\ index = << >> /\ pct = << >>
  /\ disk = << >> /\ indexFile = None /\ heatmapFile = None
  /\ log = {}

Parameters == cfg.parameters

\* LoadSweepConfig, with Validate of the base.
Loadable(c) ==
  /\ c.parameters # << >>
  /\ \A i \in DOMAIN c.parameters : c.parameters[i].name # "" /\ c.parameters[i].values # << >>
  /\ c.valid /\ c.base["clients.count"] > 0

Start(c) ==
  /\ pc \in {"ended", "done"} /\ sweep < MaxSweeps
  /\ sweep' = sweep + 1
  /\ cfg' = c
  /\ pc' = IF Loadable(c) THEN "combination" ELSE "ended"
  /\ idx' = [i \in DOMAIN c.parameters |-> 1]
  /\ todo' = << >> /\ index' = << >> /\ pct' = << >>
  /\ UNCHANGED <<disk, indexFile, heatmapFile, log>>

-----------------------------------------------------------------------------
\* formatSweepValue: what is all but an integer looks like one.
Format(v) == IF v % 10 <= 1 THEN <<v \div 10>> ELSE <<v \div 10, v % 10>>

\* combinationLabel lists the parameters by name, whatever the order they are declared
\* in; only those of one name keep that order (sort.Slice moves them in no list that
\* is short enough for it to insert).
Label(params, values) ==
  { <<params[i].name,
      Cardinality({ j \in DOMAIN params : j <= i /\ params[j].name = params[i].name }),
      Format(values[i])>> : i \in DOMAIN params }

\* The params of an index entry: of two values of one name the later one stays.
ByName(params, values) ==
  [name \in { params[i].name : i \in DOMAIN params } |->
     values[Max({ i \in DOMAIN params : params[i].name = name })]]

Values == [i \in DOMAIN Parameters |-> Parameters[i].values[idx[i]]]

\* The base configuration with the overrides applied in their order.
Overridden(base, params, values) ==
  [p \in SupportedPaths |->
     LET setters == { i \in DOMAIN params : params[i].path = p }
     IN  IF setters = {} THEN base[p]
         ELSE IF p \in IntPaths THEN values[Max(setters)] \div 10 ELSE values[Max(setters)]]

\* Validate fills in a missing duration; a missing client count is an error.
WithDefaults(c) ==
  [c EXCEPT !["content.duration_seconds"] = IF @ <= 0 THEN 60 ELSE @]

\* Mutant: the seed is that of the position in the list.
SeedByPosition(base, label, position) == <<base["seed"], position>>

\* combinationSeed.
Seed(base, label, position) == <<base["seed"], label>>

\* What an experiment computes: all of it follows from configuration and seed.
Result(base, params, values, position) ==
  [config |-> WithDefaults(Overridden(base, params, values)),
   seed |-> Seed(base, Label(params, values), position)]

Current == Result(cfg.base, Parameters, Values, idx)
Dir == Label(Parameters, Values)

Runnable ==
  /\ \A i \in DOMAIN Parameters : Parameters[i].path \in SupportedPaths
  /\ Current.config["clients.count"] > 0

\* The files of a combination, in the order they are written; an emulated experiment
\* has no EnhancedComparison.
Files ==
  <<"summary.json">>
    \o (IF cfg.both THEN <<"comparison.json">> ELSE << >>)
    \o (IF cfg.both /\ ~cfg.emulated THEN <<"enhanced_comparison.json">> ELSE << >>)
    \o (IF cfg.csv THEN <<"raw.csv">> ELSE << >>)

\* What the history remembers of it.
Ran == [base |-> cfg.base, parameters |-> Parameters, values |-> Values, result |-> Current]
Logged == IF cfg.emulated THEN log ELSE log \cup {Ran}

\* The entry of a combination in the index.
IndexEntry(values) == [params |-> ByName(Parameters, values), subdir |-> Label(Parameters, values)]

\* Mutant: the index is kept up to date on disk, one combination ahead.
RunCombinationIndexed ==
  /\ pc = "combination" /\ Runnable
  /\ pc' = "files" /\ todo' = Files
  /\ indexFile' = [sweep |-> sweep, results |-> Append(index, IndexEntry(Values))]
  /\ log' = Logged
  /\ UNCHANGED <<sweep, cfg, memory, disk, heatmapFile>>

\* The experiment of the combination runs to its end.
RunCombination ==
  /\ pc = "combination" /\ Runnable
  /\ pc' = "files" /\ todo' = Files
  /\ log' = Logged
  /\ UNCHANGED <<sweep, cfg, memory, disk, indexFile, heatmapFile>>

\* f with v under the key k.
Stored(f, k, v) == [x \in DOMAIN f \cup {k} |-> IF x = k THEN v ELSE f[x]]

\* os.WriteFile of one file of the combination.
Content == [sweep |-> sweep, result |-> Current]
InDir(file, what) ==
  Stored(disk, Dir, Stored(IF Dir \in DOMAIN disk THEN disk[Dir] ELSE << >>, file, what))

WriteFile ==
  /\ pc = "files" /\ todo # << >>
  /\ disk' = InDir(Head(todo), Content)
  /\ todo' = Tail(todo)
  /\ UNCHANGED <<sweep, pc, cfg, memory, indexFile, heatmapFile, log>>

\* WriteCSV leaves the last bytes to a deferred Flush whose error nobody sees.
FlushFails ==
  /\ pc = "files" /\ todo # << >> /\ Head(todo) = "raw.csv"
  /\ disk' = InDir("raw.csv", Partial)
  /\ todo' = Tail(todo)
  /\ UNCHANGED <<sweep, pc, cfg, memory, indexFile, heatmapFile, log>>

\* Mutant: the digits to the right of the carry keep their values.
AdvancedNoReset(k) == [idx EXCEPT ![k] = @ + 1]

\* The rightmost position that has a next value takes it, those after it start over.
Advanced(k) == [i \in DOMAIN idx |-> IF i < k THEN idx[i] ELSE IF i = k THEN idx[k] + 1 ELSE 1]

\* The combination enters the index, and the loop goes on.
Record ==
  LET more == { i \in DOMAIN idx : idx[i] < Len(Parameters[i].values) }
  IN  /\ pc = "files" /\ todo = << >>
      /\ index' = Append(index, IndexEntry(Values))
      /\ pct' = IF cfg.both THEN Stored(pct, Dir, Current) ELSE pct
      /\ IF more = {}
         THEN pc' = "index" /\ UNCHANGED idx
         ELSE pc' = "combination" /\ idx' = Advanced(Max(more))
      /\ UNCHANGED <<sweep, cfg, todo, disk, indexFile, heatmapFile, log>>

WriteIndex ==
  /\ pc = "index"
  /\ indexFile' = [sweep |-> sweep, results |-> index]
  /\ pc' = IF Len(Parameters) = 2 THEN "heatmap" ELSE "done"
  /\ UNCHANGED <<sweep, cfg, todo, memory, disk, heatmapFile, log>>

\* buildHeatmap: a cell for each two values; one without a comparison counts as zero.
Heatmap ==
  LET Cell(values) == LET label == Label(Parameters, values)
                      IN  IF label \in DOMAIN pct THEN pct[label] ELSE None
  IN  [sweep |-> sweep,
       cells |-> [values \in ToSet(Parameters[1].values) \X ToSet(Parameters[2].values) |->
                    Cell(values)]]

WriteHeatmap ==
  /\ pc = "heatmap"
  /\ heatmapFile' = Heatmap
  /\ pc' = "done"
  /\ UNCHANGED <<sweep, cfg, todo, memory, disk, indexFile, log>>

\* An error of an override, of Validate, of the experiment or of a write, or a kill:
\* the file that was being written is as it was, or partly written.
Interrupt ==
  /\ pc \notin {"ended", "done"}
  /\ pc' = "ended"
  /\ \/ UNCHANGED <<disk, indexFile, heatmapFile>>
     \/ /\ pc = "files" /\ todo # << >>
        /\ disk' = InDir(Head(todo), Partial)
        /\ UNCHANGED <<indexFile, heatmapFile>>
     \/ pc = "index" /\ indexFile' = Partial /\ UNCHANGED <<disk, heatmapFile>>
     \/ pc = "heatmap" /\ heatmapFile' = Partial /\ UNCHANGED <<disk, indexFile>>
  /\ UNCHANGED <<sweep, cfg, todo, memory, log>>

Next ==
  \/ \E c \in Configs : Start(c)
  \/ RunCombination \/ WriteFile \/ FlushFails \/ Record \/ WriteIndex \/ WriteHeatmap \/ Interrupt

Spec == Init /\ [][Next]_vars

-----------------------------------------------------------------------------
\* The places of the cross product.
Positions ==
  { p \in [DOMAIN Parameters -> UNION { DOMAIN Parameters[i].values : i \in DOMAIN Parameters }] :
      \A i \in DOMAIN p : p[i] \in DOMAIN Parameters[i].values }

\* The combinations there are, and those that share the directory of one.
Combinations ==
  { v \in [DOMAIN Parameters -> UNION { ToSet(Parameters[i].values) : i \in DOMAIN Parameters }] :
      \A i \in DOMAIN v : v[i] \in ToSet(Parameters[i].values) }
Sharing(label) == { v \in Combinations : Label(Parameters, v) = label }

\* What the experiments of these combinations compute.
ResultsOf(combinations) == { Result(cfg.base, Parameters, v, idx) : v \in combinations }

\* Two values of a parameter that are all but equal.
AllButEqual == \E i \in DOMAIN Parameters : \E v, w \in ToSet(Parameters[i].values) :
                 v % 10 = 1 /\ w = v - 1

\* Nobody clears a directory: a file this sweep does not write is of an earlier one.
Leftover(content) == content = Partial \/ content.sweep < sweep

\* A sweep that ends has an entry for every combination, and every file it writes is
\* its own: each holds the results of the combination of its directory, and so it is
\* with the cells of the heatmap.  Only values that differ by less than 1e-9 share a
\* directory (sweep.go:227), with the results of one of them, and only raw.csv may be
\* cut short in a sweep that reports success (reporter.go:63).  A file of another name
\* that an earlier sweep left in the directory stays there, under the new index: the
\* comparisons, when this sweep has none (reporter.go:27-36), raw.csv and the heatmap.
SweepComplete ==
  pc = "done" =>
    /\ ToSet(index) = { IndexEntry(v) : v \in Combinations } /\ Len(index) = Cardinality(Positions)
    /\ \A v \in Combinations :
         LET label == Label(Parameters, v)
         IN  /\ Sharing(label) = {v} \/ AllButEqual
             /\ \A f \in ToSet(Files) :
                  LET content == disk[label][f]
                  IN  IF content = Partial
                      THEN f = "raw.csv"
                      ELSE content.sweep = sweep /\ content.result \in ResultsOf(Sharing(label))
             /\ \A f \in DOMAIN disk[label] \ ToSet(Files) : Leftover(disk[label][f])
             /\ Len(Parameters) = 2 =>
                  heatmapFile.cells[v] \in IF cfg.both THEN ResultsOf(Sharing(label)) ELSE {None}
    /\ Len(Parameters) # 2 => heatmapFile = None \/ Leftover(heatmapFile)

\* However sweeps fail and follow each other, an index on disk lists no directory
\* without a summary, and none with a summary older than itself; a summary is half
\* written only when a later sweep was interrupted (sweep.go:304, 332-336).
IndexNeverDangles ==
  indexFile \notin {None, Partial} =>
    \A e \in ToSet(indexFile.results) :
      /\ e.subdir \in DOMAIN disk /\ "summary.json" \in DOMAIN disk[e.subdir]
      /\ LET summary == disk[e.subdir]["summary.json"]
         IN  IF summary = Partial THEN sweep > indexFile.sweep ELSE summary.sweep >= indexFile.sweep

\* The values of a combination by the path they are for.
Assigned(r) == { <<r.parameters[i].name, r.parameters[i].path, r.values[i]>> : i \in DOMAIN r.values }

\* No two parameters set one path or have one name.
Apart(r) == \A i, j \in DOMAIN r.parameters :
  i # j => r.parameters[i].path # r.parameters[j].path /\ r.parameters[i].name # r.parameters[j].name

\* "each combination is seeded as baseSeed XOR hash(label), so the order of execution
\* does not affect individual run outputs" (sweep.go:247): the same values give the
\* same results at any place of any modeled sweep over the base, in whatever order its
\* parameters are declared, unless two of them set the same path or have one name.
OrderIndependent ==
  \A r, s \in log :
    r.base = s.base /\ Assigned(r) = Assigned(s) /\ Apart(r) /\ Apart(s) => r.result = s.result
=============================================================================
