------------------------ MODULE WhatIfAnalyzerProofs ------------------------
(***************************************************************************)
(* Theorems about WhatIfAnalyzer, for every set of analyses, pattern files, *)
(* reported changes and limit of days.                                      *)
(***************************************************************************)
EXTENDS WhatIfAnalyzer, TLAPS

(* The entries an analysis may have read. *)
Loaded == {Load(f, <<>>) : f \in PatternFiles}

-----------------------------------------------------------------------------
(* The patterns and the statistics                                         *)

LEMMA LoadedEntries ==
  ASSUME NEW entries \in Loaded, NEW i \in DOMAIN entries
  PROVE  entries[i] \in Entries
<1>1. PICK f \in PatternFiles : entries = Load(f, <<>>)
  BY DEF Loaded
<1>2. CASE f = Unparsable
  BY <1>1, <1>2 DEF Load
<1>3. CASE f # Unparsable
  <2>1. entries \in Seq(Entries)
    BY <1>1, <1>3, PatternFilesAssumption DEF Load
  <2>2. QED BY <2>1
<1>4. QED BY <1>2, <1>3

LEMMA RecordedType ==
  ASSUME NEW entries \in Loaded, NEW category \in Categories,
         NEW type \in Types \cup {Common}, NEW subject
  PROVE  RecordPatternMatch(entries, category, type, subject) \subseteq Entries
<1>1. \A i \in DOMAIN entries : entries[i].pattern \in Patterns
  BY LoadedEntries DEF Entries
<1>2. FirstFound(entries, category, type, subject) \subseteq Patterns
  BY <1>1 DEF FirstFound, Found, PatternsOf
<1>3. QED BY <1>2 DEF RecordPatternMatch, Entries

LEMMA MatchedType ==
  ASSUME NEW entries \in Loaded, NEW result \in WhatIfResults
  PROVE  MatchedPatterns(entries, result) \subseteq Entries
<1> SUFFICES ASSUME NEW c \in result, NEW p \in c.props
             PROVE  RecordedBy(entries, c.type, p) \subseteq Entries
  BY DEF MatchedPatterns
<1>1. c.type \in Types \cup {Common}
  BY WhatIfResultsAssumption DEF Changes
<1>2. {"readonly_patterns", "arm_reference_patterns"} \subseteq Categories
      /\ Common \in Types \cup {Common}
  BY DEF Categories
<1>3. QED BY <1>1, <1>2, RecordedType DEF RecordedBy

(* The keys of the statistics are keys some pattern file defines. *)
LEMMA ValidAreKeys ==
  ASSUME NEW entries \in Loaded
  PROVE  ValidStatKeys(entries) \subseteq Keys
<1>1. PICK f \in PatternFiles : entries = Load(f, <<>>)
  BY DEF Loaded
<1>2. CASE f = Unparsable
  BY <1>1, <1>2 DEF Load, ValidStatKeys, Range
<1>3. CASE f # Unparsable
  BY <1>1, <1>3 DEF Load, Keys
<1>4. QED BY <1>2, <1>3

(* What is defined is an entry, and what sorts a change is defined. *)
LEMMA ValidAreEntries ==
  ASSUME NEW entries \in Loaded
  PROVE  ValidStatKeys(entries) \subseteq Entries
BY LoadedEntries DEF ValidStatKeys, Range

LEMMA UsedAreKeys ==
  ASSUME NEW entries \in Loaded, NEW result
  PROVE  OfUse(entries, result) \subseteq Keys
BY ValidAreKeys DEF OfUse

(* A pattern that can be recorded is, if it was of use.  *)
LEMMA UsedAreRecorded ==
  ASSUME NEW entries \in Loaded, NEW result, NEW e \in OfUse(entries, result), e \in Recordable
  PROVE  e \in MatchedPatterns(entries, result)
<1>1. e \in Entries /\ e.category \in StatCategories
  BY ValidAreEntries DEF OfUse, ValidStatKeys
<1>2. PICK c \in result : \E p \in c.props :
        /\ e.category = GetReferenceInfo(entries, c.type, p)
        /\ Sorts(entries, e, c.type, p.path)
  <2>1. e.category # "create_false_positive_patterns"
    BY DEF Recordable
  <2>2. QED BY <2>1 DEF OfUse
<1>p. PICK p \in c.props : /\ e.category = GetReferenceInfo(entries, c.type, p)
                          /\ Sorts(entries, e, c.type, p.path)
  BY <1>2
<1>3. /\ e.scope = c.type
      /\ e.pattern \in FirstFound(entries, e.category, c.type, p.path)
  BY <1>p DEF Sorts, Recordable
<1>4. e = [scope |-> c.type, category |-> e.category, pattern |-> e.pattern]
  BY <1>1, <1>3 DEF Entries
<1>5. e \in RecordPatternMatch(entries, e.category, c.type, p.path)
  BY <1>3, <1>4 DEF RecordPatternMatch
<1>6. e \in RecordedBy(entries, c.type, p)
  BY <1>1, <1>p, <1>5 DEF RecordedBy, Categories
<1>7. QED BY <1>p, <1>6 DEF MatchedPatterns

(* What is recorded under a key the file defines was of use. *)
LEMMA RecordedAreUsed ==
  ASSUME NEW entries \in Loaded, NEW result, NEW e \in MatchedPatterns(entries, result),
         e \in ValidStatKeys(entries)
  PROVE  e \in OfUse(entries, result)
<1>c. PICK c \in result : \E p \in c.props : e \in RecordedBy(entries, c.type, p)
  BY DEF MatchedPatterns
<1>1. PICK p \in c.props : e \in RecordedBy(entries, c.type, p)
  BY <1>c
<1> DEFINE label == GetReferenceInfo(entries, c.type, p)
<1>2. e.category \in StatCategories
  BY DEF ValidStatKeys
<1>3. e \notin RecordPatternMatch(entries, "readonly_patterns", c.type, p.path)
      /\ e \notin RecordPatternMatch(entries, "arm_reference_patterns", Common, p.value)
  BY <1>2 DEF StatCategories, RecordPatternMatch
<1>4. e \in RecordPatternMatch(entries, label, c.type, p.path)
  BY <1>1, <1>3 DEF RecordedBy
<1> HIDE DEF label
<1>5. /\ e.scope = c.type /\ e.category = label
      /\ e.pattern \in FirstFound(entries, e.category, c.type, p.path)
  BY <1>4 DEF RecordPatternMatch
<1>6. Sorts(entries, e, c.type, p.path)
  BY <1>5 DEF Sorts
<1>7. QED BY <1>5, <1>6 DEF OfUse, label

LEMMA StatsType ==
  ASSUME NEW s \in Stats
  PROVE  /\ s \in [DOMAIN s -> Ages] /\ DOMAIN s \subseteq Keys
BY DEF Stats

LEMMA NoStatsType == NoStats \in Stats /\ DOMAIN NoStats = {}
<1>1. NoStats \in [{} -> Ages]
  BY DEF NoStats
<1>2. QED BY <1>1 DEF Stats, NoStats

LEMMA LoadedStatsType ==
  ASSUME NEW s \in Stats \cup {Unparsable} PROVE Load(s, NoStats) \in Stats
BY NoStatsType DEF Load

LEMMA SaveStatsType ==
  ASSUME NEW old \in Stats, NEW matched, NEW entries \in Loaded
  PROVE  SaveStats(old, matched, entries) \in Stats
<1> DEFINE D == (DOMAIN old \cup matched) \cap ValidStatKeys(entries)
<1>1. D \subseteq Keys
  BY ValidAreKeys
<1>2. 0 \in Ages /\ old \in [DOMAIN old -> Ages]
  BY DaysAssumption, StatsType DEF Ages
<1>3. SaveStats(old, matched, entries) \in [D -> Ages]
  BY <1>2 DEF SaveStats
<1>4. QED BY <1>1, <1>3 DEF Stats

LEMMA OlderType == ASSUME NEW age \in Ages PROVE Older(age) \in Ages
BY DaysAssumption DEF Older, Ages

LEMMA OlderMonotone ==
  ASSUME NEW a \in Ages, NEW b \in Ages, a >= b
  PROVE  Older(a) >= Older(b)
BY DaysAssumption DEF Older, Ages

-----------------------------------------------------------------------------
(* Types                                                                   *)

LEMMA IdleType == Idle \in Analysis /\ Idle.step = "idle" /\ Idle.matched = {}
<1>1. <<>> \in Loaded
  BY PatternFilesAssumption DEF Loaded, Load
<1>2. QED BY <1>1, NoStatsType DEF Idle, Analysis, Loaded

LEMMA TypeInit == Init => TypeOK
<1> SUFFICES ASSUME Init PROVE TypeOK
  OBVIOUS
<1>1. {} \subseteq Keys /\ Days + 1 \in Ages
  BY DaysAssumption DEF Ages
<1>2. run \in [Analyzers -> Analysis] /\ seen \in [Keys -> Ages]
  BY <1>1, IdleType DEF Init
<1>3. mishaps \in 0 .. MaxMishaps /\ edits \in 0 .. MaxEdits
  BY DaysAssumption DEF Init
<1>4. QED BY <1>2, <1>3 DEF Init, TypeOK

(* An analysis that stays one after a change of the named fields. *)
LEMMA AnalyzeType ==
  ASSUME TypeOK, NEW a \in Analyzers, Analyze(a)
  PROVE  run' \in [Analyzers -> Analysis]
<1> DEFINE entries == Load(patterns, <<>>)
<1>1. PICK result \in WhatIfResults :
        run' = [run EXCEPT ![a] = [Idle EXCEPT !.step = "load", !.result = result,
                  !.entries = entries, !.matched = MatchedPatterns(entries, result)]]
  BY DEF Analyze
<1>2. entries \in Loaded
  BY DEF TypeOK, Loaded
<1>3. MatchedPatterns(entries, result) \in SUBSET Entries
  BY <1>2, MatchedType
<1> HIDE DEF entries
<1>4. [Idle EXCEPT !.step = "load", !.result = result, !.entries = entries,
                   !.matched = MatchedPatterns(entries, result)] \in Analysis
  BY <1>2, <1>3, IdleType DEF Analysis, Loaded
<1>5. QED BY <1>1, <1>4 DEF TypeOK

LEMMA LoadStatsType ==
  ASSUME TypeOK, NEW a \in Analyzers, LoadStats(a)
  PROVE  run' \in [Analyzers -> Analysis]
<1> DEFINE mem == SaveStats(Load(stats, NoStats), run[a].matched, run[a].entries)
<1>1. run' = [run EXCEPT ![a] = [Idle EXCEPT !.step = "open", !.mem = mem,
                                             !.matched = run[a].matched]]
  BY DEF LoadStats
<1>2. run[a].entries \in Loaded /\ run[a].matched \in SUBSET Entries
  BY DEF TypeOK, Analysis, Loaded
<1>3. mem \in Stats
  BY <1>2, LoadedStatsType, SaveStatsType DEF TypeOK
<1> HIDE DEF mem
<1>4. [Idle EXCEPT !.step = "open", !.mem = mem, !.matched = run[a].matched] \in Analysis
  BY <1>2, <1>3, IdleType DEF Analysis
<1>5. QED BY <1>1, <1>4 DEF TypeOK

LEMMA TypeStep == TypeOK /\ [Next]_vars => TypeOK'
<1> SUFFICES ASSUME TypeOK, [Next]_vars PROVE TypeOK'
  OBVIOUS
<1>1. ASSUME NEW a \in Analyzers, Analyze(a) PROVE TypeOK'
  <2>1. 0 \in Ages
    BY DaysAssumption DEF Ages
  <2>2. seen' \in [Keys -> Ages] /\ stays' \subseteq Recordable
    BY <1>1, <2>1 DEF Analyze, TypeOK
  <2>3. QED BY <1>1, <2>2, AnalyzeType DEF Analyze, TypeOK
<1>2. ASSUME NEW a \in Analyzers, LoadStats(a) PROVE TypeOK'
  BY <1>2, LoadStatsType DEF LoadStats, observers, TypeOK
<1>3. ASSUME NEW a \in Analyzers, OpenStats(a) PROVE TypeOK'
  <2>1. run' \in [Analyzers -> Analysis]
    BY <1>3 DEF OpenStats, TypeOK, Analysis
  <2>2. QED BY <1>3, <2>1 DEF OpenStats, observers, TypeOK
<1>4. ASSUME NEW a \in Analyzers, DumpStats(a) PROVE TypeOK'
  <2>1. run' \in [Analyzers -> Analysis]
    BY <1>4 DEF DumpStats, TypeOK, Analysis
  <2>2. stats' \in Stats
    BY <1>4 DEF DumpStats, TypeOK, Analysis
  <2>3. QED BY <1>4, <2>1, <2>2 DEF DumpStats, TypeOK
<1>5. ASSUME NEW a \in Analyzers, FailToSave(a) PROVE TypeOK'
  <2>1. run' \in [Analyzers -> Analysis]
    BY <1>5 DEF FailToSave, TypeOK, Analysis
  <2>2. mishaps' \in 0 .. MaxMishaps
    BY <1>5, DaysAssumption DEF FailToSave, TypeOK
  <2>3. unsaved' \subseteq Recordable
    BY <1>5 DEF FailToSave, LosesWhatIsNotSaved, TypeOK
  <2>4. QED BY <1>5, <2>1, <2>2, <2>3 DEF FailToSave, TypeOK
<1>6. ASSUME NEW a \in Analyzers, Warn(a) PROVE TypeOK'
  <2>1. run[a].mem \in Stats
    BY DEF TypeOK, Analysis
  <2>2. warned' \subseteq Keys
    BY <1>6, <2>1, StatsType DEF Warn, GetUnusedPatterns
  <2>3. run' \in [Analyzers -> Analysis]
    BY <1>6, IdleType DEF Warn, TypeOK
  <2>4. QED BY <1>6, <2>2, <2>3 DEF Warn, observers, TypeOK
<1>7. ASSUME NEW a \in Analyzers, Interrupt(a) PROVE TypeOK'
  <2>1. run' \in [Analyzers -> Analysis]
    BY <1>7, IdleType DEF Interrupt, TypeOK
  <2>2. mishaps' \in 0 .. MaxMishaps
    BY <1>7, DaysAssumption DEF Interrupt, TypeOK
  <2>3. unsaved' \subseteq Recordable
    BY <1>7 DEF Interrupt, LosesWhatIsNotSaved, TypeOK
  <2>4. QED BY <1>7, <2>1, <2>2, <2>3 DEF Interrupt, TypeOK
<1>8. CASE EditPatterns
  BY <1>8, DaysAssumption DEF EditPatterns, observers, TypeOK
<1>9. CASE PassDay
  <2>1. seen' \in [Keys -> Ages]
    BY <1>9, OlderType DEF PassDay, TypeOK
  <2>2. stats' \in Stats \cup {Unparsable}
    <3>1. CASE stats = Unparsable
      BY <1>9, <3>1 DEF PassDay
    <3>2. CASE stats # Unparsable
      <4>1. stats \in [DOMAIN stats -> Ages] /\ DOMAIN stats \subseteq Keys
        BY <3>2, StatsType DEF TypeOK
      <4>2. stats' \in [DOMAIN stats -> Ages]
        BY <1>9, <3>2, <4>1, OlderType DEF PassDay
      <4>3. QED BY <4>1, <4>2 DEF Stats
    <3>3. QED BY <3>1, <3>2
  <2>3. QED BY <1>9, <2>1, <2>2 DEF PassDay, TypeOK
<1>10. CASE UNCHANGED vars
  BY <1>10 DEF vars, observers, TypeOK
<1>11. QED BY <1>1, <1>2, <1>3, <1>4, <1>5, <1>6, <1>7, <1>8, <1>9, <1>10 DEF Next

-----------------------------------------------------------------------------
(* The history.  An analysis has seen what it is about to record; what it   *)
(* has in memory is of age 0 where it matched, never younger than the last  *)
(* use, and right for what can be recorded, unless a match was not saved.   *)

Alone == ~overlapped => \A a, b \in Analyzers : Running(a) /\ Running(b) => a = b

(* What is recorded is written, or lost, with the analysis. *)
NothingLeft == \A a \in Analyzers : run[a].step \in {"idle", "warn"} => run[a].matched = {}

SeenOf(a) ==
  run[a].step = "load" =>
    \A k \in run[a].matched \cap ValidStatKeys(run[a].entries) : seen[k] = 0

InMemory(a) ==
  run[a].step \in {"open", "dump", "warn"} => \A k \in DOMAIN run[a].mem :
    /\ run[a].mem[k] >= seen[k]
    /\ ~overlapped /\ k \in Recordable /\ (k \notin unsaved \/ k \in run[a].matched) =>
         run[a].mem[k] = seen[k]

Inv ==
  /\ TypeOK /\ Alone /\ NothingLeft /\ HistoryIsTrue
  /\ \A a \in Analyzers : SeenOf(a) /\ InMemory(a)

LEMMA InvInit == Init => Inv
<1> SUFFICES ASSUME Init PROVE Inv
  OBVIOUS
<1>1. \A a \in Analyzers : run[a].step = "idle" /\ run[a].matched = {}
  BY IdleType DEF Init
<1>2. QED BY <1>1, TypeInit
          DEF Init, Inv, Alone, NothingLeft, Running, HistoryIsTrue, SeenOf, InMemory

(* What each step of an analysis makes of it; it leaves the others alone. *)
LEMMA RunAnalyze ==
  ASSUME TypeOK, NEW a \in Analyzers, Analyze(a)
  PROVE  /\ ~Running(a)
         /\ run'[a].step = "load" /\ run'[a].entries = Load(patterns, <<>>)
         /\ \E result \in WhatIfResults :
              /\ run'[a].matched = MatchedPatterns(Load(patterns, <<>>), result)
              /\ seen' = [k \in Keys |-> IF k \in OfUse(Load(patterns, <<>>), result)
                                         THEN 0 ELSE seen[k]]
              /\ stays' = (stays \cap ValidStatKeys(Load(patterns, <<>>)))
                            \cup (OfUse(Load(patterns, <<>>), result) \cap Recordable)
         /\ \A b \in Analyzers \ {a} : run'[b] = run[b]
         /\ UNCHANGED <<stats, unsaved>>
<1> DEFINE entries == Load(patterns, <<>>)
<1>1. PICK result \in WhatIfResults :
        /\ run' = [run EXCEPT ![a] = [Idle EXCEPT !.step = "load", !.result = result,
                     !.entries = entries, !.matched = MatchedPatterns(entries, result)]]
        /\ seen' = [k \in Keys |-> IF k \in OfUse(entries, result) THEN 0 ELSE seen[k]]
        /\ stays' = (stays \cap ValidStatKeys(entries)) \cup (OfUse(entries, result) \cap Recordable)
  BY DEF Analyze
<1> HIDE DEF entries
<1>2. run'[a] = [Idle EXCEPT !.step = "load", !.result = result,
                   !.entries = entries, !.matched = MatchedPatterns(entries, result)]
  BY <1>1 DEF TypeOK
<1>3. /\ run'[a].step = "load" /\ run'[a].entries = entries
      /\ run'[a].matched = MatchedPatterns(entries, result)
  BY <1>2, IdleType DEF Analysis
<1>4. \A b \in Analyzers \ {a} : run'[b] = run[b]
  BY <1>1 DEF TypeOK
<1>5. ~Running(a) /\ UNCHANGED <<stats, unsaved>>
  BY DEF Analyze
<1>6. QED BY <1>1, <1>3, <1>4, <1>5 DEF entries

LEMMA RunLoad ==
  ASSUME TypeOK, NEW a \in Analyzers, LoadStats(a)
  PROVE  /\ run[a].step = "load" /\ run'[a].step = "open"
         /\ run'[a].mem = SaveStats(Load(stats, NoStats), run[a].matched, run[a].entries)
         /\ run'[a].matched = run[a].matched
         /\ \A b \in Analyzers \ {a} : run'[b] = run[b]
         /\ UNCHANGED <<stats, observers, overlapped>>
<1> DEFINE mem == SaveStats(Load(stats, NoStats), run[a].matched, run[a].entries)
<1>1. /\ run' = [run EXCEPT ![a] = [Idle EXCEPT !.step = "open", !.mem = mem,
                                                !.matched = run[a].matched]]
      /\ run[a].step = "load" /\ UNCHANGED <<stats, observers, overlapped>>
  BY DEF LoadStats
<1> HIDE DEF mem
<1>2. run'[a] = [Idle EXCEPT !.step = "open", !.mem = mem, !.matched = run[a].matched]
  BY <1>1 DEF TypeOK
<1>3. run'[a].step = "open" /\ run'[a].mem = mem /\ run'[a].matched = run[a].matched
  BY <1>2, IdleType DEF Analysis
<1>4. \A b \in Analyzers \ {a} : run'[b] = run[b]
  BY <1>1 DEF TypeOK
<1>5. QED BY <1>1, <1>3, <1>4 DEF mem

LEMMA RunWrite ==
  ASSUME TypeOK, NEW a \in Analyzers, OpenStats(a) \/ DumpStats(a)
  PROVE  /\ run'[a].mem = run[a].mem
         /\ OpenStats(a) => run[a].step = "open" /\ run'[a].step = "dump"
                            /\ run'[a].matched = run[a].matched
                            /\ stats' = Unparsable /\ UNCHANGED unsaved
         /\ DumpStats(a) => run[a].step = "dump" /\ run'[a].step = "warn"
                            /\ run'[a].matched = {} /\ stats' = run[a].mem
                            /\ unsaved' = unsaved \ run[a].matched
         /\ \A b \in Analyzers \ {a} : run'[b] = run[b]
         /\ UNCHANGED <<seen, stays, overlapped>>
<1>1. CASE OpenStats(a)
  BY <1>1 DEF OpenStats, DumpStats, observers, TypeOK, Analysis
<1>2. CASE DumpStats(a)
  BY <1>2 DEF DumpStats, OpenStats, TypeOK, Analysis
<1>3. QED BY <1>1, <1>2

LEMMA RunFails ==
  ASSUME TypeOK, NothingLeft, NEW a \in Analyzers, FailToSave(a) \/ Interrupt(a) \/ Warn(a)
  PROVE  /\ run'[a].matched = {} /\ run'[a].step \in {"warn", "idle"}
         /\ FailToSave(a) => run'[a].mem = run[a].mem /\ run[a].step \in {"open", "dump"}
         /\ ~FailToSave(a) => run'[a].step = "idle"
         /\ run[a].matched \cap Recordable \subseteq unsaved'
         /\ run[a].step = "dump" => unsaved' = Recordable
         /\ unsaved \subseteq unsaved'
         /\ run[a].step # "idle"
         /\ \A b \in Analyzers \ {a} : run'[b] = run[b]
         /\ UNCHANGED <<stats, seen, stays, overlapped>>
<1>1. CASE FailToSave(a)
  <2>1. /\ run' = [run EXCEPT ![a].step = "warn", ![a].matched = {}]
        /\ run[a].step \in {"open", "dump"}
        /\ unsaved' = unsaved \cup IF run[a].step = "dump" THEN Recordable
                                   ELSE run[a].matched \cap Recordable
        /\ UNCHANGED <<stats, seen, stays, overlapped>>
    BY <1>1 DEF FailToSave, LosesWhatIsNotSaved
  <2>2. /\ run'[a].matched = {} /\ run'[a].step = "warn" /\ run'[a].mem = run[a].mem
        /\ \A b \in Analyzers \ {a} : run'[b] = run[b]
    BY <2>1 DEF TypeOK, Analysis
  <2>3. unsaved \subseteq Recordable
    BY DEF TypeOK
  <2>4. QED BY <1>1, <2>1, <2>2, <2>3
<1>2. CASE Interrupt(a) /\ ~FailToSave(a)
  <2>1. /\ run' = [run EXCEPT ![a] = Idle] /\ run[a].step # "idle"
        /\ unsaved' = unsaved \cup IF run[a].step = "dump" THEN Recordable
                                   ELSE run[a].matched \cap Recordable
        /\ UNCHANGED <<stats, seen, stays, overlapped>>
    BY <1>2 DEF Interrupt, LosesWhatIsNotSaved, Running
  <2>2. /\ run'[a].matched = {} /\ run'[a].step = "idle"
        /\ \A b \in Analyzers \ {a} : run'[b] = run[b]
    BY <2>1, IdleType DEF TypeOK
  <2>3. unsaved \subseteq Recordable
    BY DEF TypeOK
  <2>4. QED BY <1>2, <2>1, <2>2, <2>3
<1>3. CASE Warn(a) /\ ~FailToSave(a)
  <2>1. /\ run' = [run EXCEPT ![a] = Idle] /\ run[a].step = "warn"
        /\ UNCHANGED <<stats, observers, overlapped>>
    BY <1>3 DEF Warn
  <2>2. /\ run'[a].matched = {} /\ run'[a].step = "idle"
        /\ \A b \in Analyzers \ {a} : run'[b] = run[b]
    BY <2>1, IdleType DEF TypeOK
  <2>3. run[a].matched = {}
    BY <2>1 DEF NothingLeft
  <2>4. QED BY <1>3, <2>1, <2>2, <2>3 DEF observers
<1>4. QED BY <1>1, <1>2, <1>3

LEMMA RestStep ==
  ASSUME EditPatterns \/ UNCHANGED vars
  PROVE  UNCHANGED <<stats, run, observers, overlapped>>
BY DEF EditPatterns, vars

LEMMA AloneStep == TypeOK /\ Alone /\ NothingLeft /\ [Next]_vars => Alone'
<1> SUFFICES ASSUME TypeOK, Alone, NothingLeft, [Next]_vars, ~overlapped',
                    NEW b \in Analyzers, NEW c \in Analyzers, Running(b)', Running(c)'
             PROVE  b = c
  BY DEF Alone
<1>1. ASSUME NEW a \in Analyzers, Analyze(a) PROVE b = c
  <2>1. \A x \in Analyzers : ~Running(x)
    BY <1>1 DEF Analyze
  <2>2. \A x \in Analyzers \ {a} : run'[x] = run[x]
    BY <1>1, RunAnalyze
  <2>3. QED BY <2>1, <2>2 DEF Running
<1>2. ASSUME ~overlapped, \A x \in Analyzers : Running(x)' => Running(x) PROVE b = c
  BY <1>2 DEF Alone
<1>3. ASSUME NEW a \in Analyzers, LoadStats(a) \/ OpenStats(a) \/ DumpStats(a)
      PROVE  b = c
  <2>1. Running(a) /\ ~overlapped
    BY <1>3, RunLoad, RunWrite DEF Running
  <2>2. \A x \in Analyzers \ {a} : run'[x] = run[x]
    BY <1>3, RunLoad, RunWrite
  <2>3. QED BY <1>2, <2>1, <2>2 DEF Running
<1>4. ASSUME NEW a \in Analyzers, FailToSave(a) \/ Interrupt(a) \/ Warn(a) PROVE b = c
  <2>1. Running(a) /\ ~overlapped /\ \A x \in Analyzers \ {a} : run'[x] = run[x]
    BY <1>4, RunFails DEF Running
  <2>2. QED BY <1>2, <2>1 DEF Running
<1>5. CASE PassDay
  BY <1>2, <1>5 DEF PassDay, Running
<1>6. CASE EditPatterns \/ UNCHANGED vars
  BY <1>2, <1>6, RestStep DEF Running
<1>7. QED BY <1>1, <1>3, <1>4, <1>5, <1>6 DEF Next

LEMMA NothingLeftStep == TypeOK /\ NothingLeft /\ [Next]_vars => NothingLeft'
<1> SUFFICES ASSUME TypeOK, NothingLeft, [Next]_vars PROVE NothingLeft'
  OBVIOUS
<1>1. ASSUME NEW a \in Analyzers, Analyze(a) PROVE NothingLeft'
  BY <1>1, RunAnalyze DEF NothingLeft
<1>2. ASSUME NEW a \in Analyzers, LoadStats(a) PROVE NothingLeft'
  BY <1>2, RunLoad DEF NothingLeft
<1>3. ASSUME NEW a \in Analyzers, OpenStats(a) PROVE NothingLeft'
  BY <1>3, RunWrite DEF NothingLeft
<1>4. ASSUME NEW a \in Analyzers, DumpStats(a) PROVE NothingLeft'
  BY <1>4, RunWrite DEF NothingLeft
<1>5. ASSUME NEW a \in Analyzers, FailToSave(a) \/ Interrupt(a) \/ Warn(a) PROVE NothingLeft'
  BY <1>5, RunFails DEF NothingLeft
<1>6. CASE PassDay
  BY <1>6 DEF PassDay, NothingLeft
<1>7. CASE EditPatterns \/ UNCHANGED vars
  BY <1>7, RestStep DEF NothingLeft
<1>8. QED BY <1>1, <1>2, <1>3, <1>4, <1>5, <1>6, <1>7 DEF Next

LEMMA SeenStep == Inv /\ [Next]_vars => \A b \in Analyzers : SeenOf(b)'
<1> SUFFICES ASSUME Inv, [Next]_vars, NEW b \in Analyzers, run'[b].step = "load",
                    NEW k \in run'[b].matched \cap ValidStatKeys(run'[b].entries)
             PROVE  seen'[k] = 0
  BY DEF SeenOf
<1> USE DEF Inv
<1>1. CASE run'[b] = run[b] /\ seen' = seen
  BY <1>1 DEF SeenOf
<1>2. ASSUME NEW a \in Analyzers, Analyze(a) PROVE seen'[k] = 0
  <2> DEFINE entries == Load(patterns, <<>>)
  <2>0. entries \in Loaded
    BY DEF TypeOK, Loaded
  <2>1. PICK result \in WhatIfResults :
          /\ run'[a].matched = MatchedPatterns(entries, result)
          /\ seen' = [q \in Keys |-> IF q \in OfUse(entries, result) THEN 0 ELSE seen[q]]
    BY <1>2, RunAnalyze
  <2>2. run'[a].entries = entries /\ \A x \in Analyzers \ {a} : run'[x] = run[x]
    BY <1>2, RunAnalyze
  <2> HIDE DEF entries
  <2>3. CASE b = a
    <3>1. k \in OfUse(entries, result) /\ k \in Keys
      BY <2>0, <2>1, <2>2, <2>3, RecordedAreUsed, ValidAreKeys
    <3>2. QED BY <2>1, <3>1
  <2>4. CASE b # a
    <3>1. run'[b] = run[b] /\ run[b].entries \in Loaded
      BY <2>2, <2>4 DEF TypeOK, Analysis, Loaded
    <3>2. seen[k] = 0 /\ k \in Keys
      BY <3>1, ValidAreKeys DEF SeenOf
    <3>3. QED BY <2>1, <3>2
  <2>5. QED BY <2>3, <2>4
<1>3. ASSUME NEW a \in Analyzers, LoadStats(a) \/ OpenStats(a) \/ DumpStats(a)
      PROVE  seen'[k] = 0
  <2>1. run'[a].step # "load" /\ seen' = seen
    BY <1>3, RunLoad, RunWrite DEF observers
  <2>2. \A x \in Analyzers \ {a} : run'[x] = run[x]
    BY <1>3, RunLoad, RunWrite
  <2>3. QED BY <1>1, <2>1, <2>2
<1>4. ASSUME NEW a \in Analyzers, FailToSave(a) \/ Interrupt(a) \/ Warn(a)
      PROVE  seen'[k] = 0
  BY <1>1, <1>4, RunFails
<1>5. CASE PassDay
  BY <1>5 DEF PassDay, Running
<1>6. CASE EditPatterns \/ UNCHANGED vars
  BY <1>1, <1>6, RestStep DEF observers
<1>7. QED BY <1>2, <1>3, <1>4, <1>5, <1>6 DEF Next

LEMMA HistoryStep == Inv /\ [Next]_vars => HistoryIsTrue'
<1> SUFFICES ASSUME Inv, [Next]_vars, stats' # Unparsable, NEW k \in DOMAIN stats'
             PROVE  /\ stats'[k] >= seen'[k]
                    /\ ~overlapped' /\ k \in Recordable \ Pending' => stats'[k] = seen'[k]
  BY DEF HistoryIsTrue
<1> USE DEF Inv
<1>1. ASSUME UNCHANGED <<stats, seen>>, overlapped' = overlapped, unsaved \subseteq unsaved',
             \A a \in Analyzers : run[a].matched \cap Recordable \subseteq Pending'
      PROVE  /\ stats'[k] >= seen'[k]
             /\ ~overlapped' /\ k \in Recordable \ Pending' => stats'[k] = seen'[k]
  <2>1. k \in Recordable /\ k \in Pending => k \in Pending'
    BY <1>1 DEF Pending
  <2>2. QED BY <1>1, <2>1 DEF HistoryIsTrue
<1>2. ASSUME NEW a \in Analyzers, Analyze(a)
      PROVE  /\ stats'[k] >= seen'[k]
             /\ ~overlapped' /\ k \in Recordable \ Pending' => stats'[k] = seen'[k]
  <2> DEFINE entries == Load(patterns, <<>>)
  <2>0. entries \in Loaded
    BY DEF TypeOK, Loaded
  <2>1. PICK result \in WhatIfResults :
          /\ run'[a].matched = MatchedPatterns(entries, result)
          /\ seen' = [q \in Keys |-> IF q \in OfUse(entries, result) THEN 0 ELSE seen[q]]
    BY <1>2, RunAnalyze
  <2>2. UNCHANGED <<stats, unsaved>>
    BY <1>2, RunAnalyze
  <2> HIDE DEF entries
  <2>3. stats \in Stats /\ k \in DOMAIN stats
    BY <2>2 DEF TypeOK
  <2>4. k \in Keys /\ stats[k] \in Ages
    BY <2>3, StatsType
  <2>5. stats[k] >= 0 /\ stats[k] >= seen[k]
    BY <2>2, <2>4, DaysAssumption DEF Ages, HistoryIsTrue
  <2>6. ASSUME ~overlapped', k \in Recordable \ Pending' PROVE stats[k] = seen'[k]
    <3>1. ~overlapped /\ \A x \in Analyzers : run[x].matched = {}
      BY <1>2, <2>6 DEF Analyze, Running, NothingLeft
    <3>2. k \notin unsaved /\ k \notin MatchedPatterns(entries, result)
      BY <2>1, <2>2, <2>6 DEF Pending
    <3>3. k \notin Pending /\ k \notin OfUse(entries, result)
      BY <2>0, <2>6, <3>1, <3>2, UsedAreRecorded DEF Pending
    <3>4. stats[k] = seen[k]
      BY <2>2, <2>6, <3>1, <3>3 DEF HistoryIsTrue
    <3>5. QED BY <2>1, <2>4, <3>3, <3>4
  <2>7. QED BY <2>1, <2>2, <2>4, <2>5, <2>6
<1>3. ASSUME NEW a \in Analyzers, LoadStats(a)
      PROVE  /\ stats'[k] >= seen'[k]
             /\ ~overlapped' /\ k \in Recordable \ Pending' => stats'[k] = seen'[k]
  <2>1. \A b \in Analyzers : run'[b].matched = run[b].matched
    BY <1>3, RunLoad
  <2>2. UNCHANGED <<stats, seen, unsaved, overlapped>>
    BY <1>3, RunLoad DEF observers
  <2>3. QED BY <1>1, <2>1, <2>2 DEF Pending
<1>4. ASSUME NEW a \in Analyzers, OpenStats(a) PROVE FALSE
  BY <1>4, RunWrite
<1>5. ASSUME NEW a \in Analyzers, DumpStats(a)
      PROVE  /\ stats'[k] >= seen'[k]
             /\ ~overlapped' /\ k \in Recordable \ Pending' => stats'[k] = seen'[k]
  <2>1. /\ stats' = run[a].mem /\ unsaved' = unsaved \ run[a].matched
        /\ run[a].step = "dump" /\ UNCHANGED <<seen, overlapped>>
    BY <1>5, RunWrite
  <2>2. k \notin Pending' => k \notin unsaved \/ k \in run[a].matched
    BY <2>1 DEF Pending
  <2>3. QED BY <2>1, <2>2 DEF InMemory
<1>6. ASSUME NEW a \in Analyzers, FailToSave(a) \/ Interrupt(a) \/ Warn(a)
      PROVE  /\ stats'[k] >= seen'[k]
             /\ ~overlapped' /\ k \in Recordable \ Pending' => stats'[k] = seen'[k]
  <2>1. \A b \in Analyzers : run[b].matched \cap Recordable \subseteq Pending'
    BY <1>6, RunFails DEF Pending
  <2>2. QED BY <1>1, <1>6, <2>1, RunFails
<1>7. CASE PassDay
  <2>1. stats # Unparsable /\ stats' = [q \in DOMAIN stats |-> Older(stats[q])]
    BY <1>7 DEF PassDay
  <2>2. /\ k \in DOMAIN stats /\ stats'[k] = Older(stats[k])
        /\ UNCHANGED <<run, unsaved, overlapped>>
    BY <1>7, <2>1 DEF PassDay
  <2>3. stats[k] \in Ages /\ k \in Keys /\ seen[k] \in Ages
    BY <2>1, <2>2, StatsType DEF TypeOK
  <2>4. seen'[k] = Older(seen[k])
    BY <1>7, <2>3 DEF PassDay
  <2>5. Pending' = Pending
    BY <2>2 DEF Pending
  <2>6. stats[k] >= seen[k] /\ (~overlapped /\ k \in Recordable \ Pending => stats[k] = seen[k])
    BY <2>1, <2>2 DEF HistoryIsTrue
  <2>7. QED BY <2>2, <2>3, <2>4, <2>5, <2>6, OlderMonotone
<1>8. CASE EditPatterns \/ UNCHANGED vars
  BY <1>1, <1>8, RestStep DEF observers, Pending
<1>9. QED BY <1>2, <1>3, <1>4, <1>5, <1>6, <1>7, <1>8 DEF Next

LEMMA MemoryStep == Inv /\ [Next]_vars => \A b \in Analyzers : InMemory(b)'
<1> SUFFICES ASSUME Inv, [Next]_vars, NEW b \in Analyzers,
                    run'[b].step \in {"open", "dump", "warn"}, NEW k \in DOMAIN run'[b].mem
             PROVE  /\ run'[b].mem[k] >= seen'[k]
                    /\ ~overlapped' /\ k \in Recordable
                       /\ (k \notin unsaved' \/ k \in run'[b].matched) =>
                         run'[b].mem[k] = seen'[k]
  BY DEF InMemory
<1> DEFINE Goal == /\ run'[b].mem[k] >= seen'[k]
                   /\ ~overlapped' /\ k \in Recordable
                      /\ (k \notin unsaved' \/ k \in run'[b].matched) =>
                        run'[b].mem[k] = seen'[k]
<1> USE DEF Inv
<1>1. ASSUME run'[b].mem = run[b].mem, run[b].step \in {"open", "dump", "warn"},
             UNCHANGED <<seen, overlapped>>,
             k \in Recordable /\ k \in unsaved /\ k \notin run[b].matched =>
               \/ overlapped
               \/ k \in unsaved' /\ k \notin run'[b].matched
      PROVE  Goal
  BY <1>1 DEF InMemory
<1>a. ASSUME NEW a \in Analyzers \ {b}, ~overlapped, Running(a), run'[b] = run[b] PROVE FALSE
  BY <1>a DEF Alone, Running
<1>2. ASSUME NEW a \in Analyzers, Analyze(a) PROVE Goal
  <2>1. a # b /\ run'[b] = run[b] /\ Running(b)
    BY <1>2, RunAnalyze DEF Running
  <2>2. overlapped'
    BY <1>2, <2>1 DEF Analyze
  <2>3. PICK result \in WhatIfResults :
          seen' = [q \in Keys |-> IF q \in OfUse(Load(patterns, <<>>), result) THEN 0 ELSE seen[q]]
    BY <1>2, RunAnalyze
  <2>4. run[b].mem \in Stats
    BY DEF TypeOK, Analysis
  <2>5. k \in Keys /\ run[b].mem[k] \in Ages
    BY <2>1, <2>4, StatsType
  <2>6. run[b].mem[k] >= 0 /\ run[b].mem[k] >= seen[k]
    BY <2>1, <2>5, DaysAssumption DEF Ages, InMemory
  <2>7. QED BY <2>1, <2>2, <2>3, <2>5, <2>6
<1>3. ASSUME NEW a \in Analyzers \ {b},
             LoadStats(a) \/ OpenStats(a) \/ DumpStats(a)
               \/ FailToSave(a) \/ Interrupt(a) \/ Warn(a)
      PROVE  Goal
  <2>1. run'[b] = run[b] /\ UNCHANGED <<seen, overlapped>> /\ Running(a)
    <3>1. CASE LoadStats(a)
      BY <3>1, RunLoad DEF Running, observers
    <3>2. CASE OpenStats(a) \/ DumpStats(a)
      BY <3>2, RunWrite DEF Running
    <3>3. CASE FailToSave(a) \/ Interrupt(a) \/ Warn(a)
      BY <3>3, RunFails DEF Running
    <3>4. QED BY <1>3, <3>1, <3>2, <3>3
  <2>2. overlapped
    BY <1>a, <2>1
  <2>3. QED BY <1>1, <2>1, <2>2
<1>4. ASSUME LoadStats(b) PROVE Goal
  <2> DEFINE old == Load(stats, NoStats)
             mem == SaveStats(old, run[b].matched, run[b].entries)
  <2>1. /\ run[b].step = "load" /\ run'[b].mem = mem /\ run'[b].matched = run[b].matched
        /\ UNCHANGED <<stats, seen, unsaved, overlapped>>
    BY <1>4, RunLoad DEF observers
  <2>2. k \in (DOMAIN old \cup run[b].matched) \cap ValidStatKeys(run[b].entries)
    BY <2>1 DEF SaveStats
  <2>3. mem[k] = IF k \in run[b].matched THEN 0 ELSE old[k]
    BY <2>2 DEF SaveStats
  <2>4. CASE k \in run[b].matched
    <3>1. seen[k] = 0
      BY <2>1, <2>2, <2>4 DEF SeenOf
    <3>2. QED BY <2>1, <2>3, <2>4, <3>1
  <2>5. CASE k \notin run[b].matched
    <3>1. k \in DOMAIN old
      BY <2>2, <2>5
    <3>2. stats # Unparsable /\ old = stats
      BY <3>1, NoStatsType DEF Load
    <3>3. ASSUME ~overlapped, k \in Recordable, k \notin unsaved PROVE k \notin Pending
      <4>1. \A x \in Analyzers \ {b} : run[x].matched = {}
        BY <2>1, <3>3 DEF Alone, Running, NothingLeft
      <4>2. QED BY <2>5, <3>3, <4>1 DEF Pending
    <3>4. /\ stats[k] >= seen[k]
          /\ ~overlapped /\ k \in Recordable /\ k \notin Pending => stats[k] = seen[k]
      BY <3>1, <3>2 DEF HistoryIsTrue
    <3>5. mem[k] = stats[k]
      BY <2>3, <2>5, <3>2
    <3> HIDE DEF mem, old
    <3>6. QED BY <2>1, <2>5, <3>3, <3>4, <3>5
  <2>6. QED BY <2>4, <2>5
<1>5. ASSUME OpenStats(b) PROVE Goal
  BY <1>1, <1>5, RunWrite
<1>6. ASSUME DumpStats(b) PROVE Goal
  BY <1>1, <1>6, RunWrite
<1>7. ASSUME FailToSave(b) \/ Interrupt(b) \/ Warn(b) PROVE Goal
  <2>1. CASE FailToSave(b)
    BY <1>1, <2>1, RunFails
  <2>2. CASE ~FailToSave(b)
    BY <1>7, <2>2, RunFails
  <2>3. QED BY <2>1, <2>2
<1>8. CASE PassDay
  BY <1>8 DEF PassDay, Running
<1>9. CASE EditPatterns \/ UNCHANGED vars
  BY <1>1, <1>9, RestStep DEF observers
<1>10. QED BY <1>2, <1>3, <1>4, <1>5, <1>6, <1>7, <1>8, <1>9 DEF Next

LEMMA Invariance == Spec => []Inv
<1>1. Inv /\ [Next]_vars => Inv'
  BY TypeStep, AloneStep, NothingLeftStep, SeenStep, HistoryStep, MemoryStep DEF Inv
<1>2. QED BY InvInit, <1>1, PTL DEF Spec

-----------------------------------------------------------------------------
(* Nothing is lost.  An analysis sorts by the patterns the file had, which  *)
(* is why what stays is defined for it; once it has changed the statistics  *)
(* they have a key for all that stays, unless its match was never saved;    *)
(* with Alone, no other writes in between.                                  *)
Defined(a) == run[a].step = "load" => stays \subseteq ValidStatKeys(run[a].entries)

InTheMemory(a) ==
  run[a].step \in {"open", "dump"} =>
    \A k \in stays : k \in run[a].matched \/ k \notin unsaved => k \in DOMAIN run[a].mem

KeptInv ==
  /\ HistoryIsKept
  /\ ~overlapped => \A a \in Analyzers : Defined(a) /\ InTheMemory(a)

LEMMA KeptInit == Init => KeptInv
<1> SUFFICES ASSUME Init PROVE KeptInv
  OBVIOUS
<1>1. \A a \in Analyzers : run[a].step = "idle"
  BY IdleType DEF Init
<1>2. stays = {}
  BY DEF Init
<1>3. QED BY <1>1, <1>2 DEF KeptInv, HistoryIsKept, Defined, InTheMemory

LEMMA KeptStep == Inv /\ KeptInv /\ [Next]_vars => KeptInv'
<1> DEFINE Keeps ==
      (\A a \in Analyzers : run'[a].step # "dump") =>
         \A k \in stays' \ Pending' : stats' # Unparsable /\ k \in DOMAIN stats'
    Plans(a) ==
      /\ run'[a].step = "load" => stays' \subseteq ValidStatKeys(run'[a].entries)
      /\ run'[a].step \in {"open", "dump"} =>
           \A k \in stays' : k \in run'[a].matched \/ k \notin unsaved' => k \in DOMAIN run'[a].mem
<1> SUFFICES ASSUME Inv, KeptInv, [Next]_vars, ~overlapped', ~overlapped
             PROVE  Keeps /\ \A a \in Analyzers : Plans(a)
  <2>1. ASSUME [Next]_vars, ~overlapped' PROVE ~overlapped
    BY <2>1 DEF Next, Analyze, LoadStats, OpenStats, DumpStats, Warn, FailToSave, Interrupt,
                EditPatterns, PassDay, vars
  <2>2. QED BY <2>1 DEF KeptInv, HistoryIsKept, Defined, InTheMemory
<1> USE DEF Inv
<1>k. /\ (\A a \in Analyzers : run[a].step # "dump") =>
           \A k \in stays \ Pending : stats # Unparsable /\ k \in DOMAIN stats
      /\ \A a \in Analyzers : Defined(a) /\ InTheMemory(a)
  BY DEF KeptInv, HistoryIsKept
<1>a. \A a, b \in Analyzers : Running(a) /\ Running(b) => a = b
  BY DEF Alone
<1>i. ASSUME NEW a \in Analyzers, Running(a)
      PROVE  /\ \A b \in Analyzers \ {a} : run[b].step = "idle" /\ run[b].matched = {}
             /\ Pending = unsaved \cup run[a].matched
  <2>1. \A b \in Analyzers \ {a} : run[b].step = "idle"
    BY <1>a, <1>i DEF Running
  <2>2. \A b \in Analyzers \ {a} : run[b].matched = {}
    BY <2>1 DEF NothingLeft
  <2>3. QED BY <2>1, <2>2 DEF Pending
<1>s. stays \subseteq Recordable
  BY DEF TypeOK
<1>1. ASSUME NEW a \in Analyzers, Analyze(a) PROVE Keeps /\ \A b \in Analyzers : Plans(b)
  <2> DEFINE entries == Load(patterns, <<>>)
  <2>0. entries \in Loaded
    BY DEF TypeOK, Loaded
  <2>1. PICK result \in WhatIfResults :
          /\ run'[a].matched = MatchedPatterns(entries, result)
          /\ stays' = (stays \cap ValidStatKeys(entries))
                        \cup (OfUse(entries, result) \cap Recordable)
    BY <1>1, RunAnalyze
  <2>2. /\ run'[a].step = "load" /\ run'[a].entries = entries
        /\ \A b \in Analyzers \ {a} : run'[b] = run[b]
        /\ UNCHANGED <<stats, unsaved>>
    BY <1>1, RunAnalyze
  <2>3. \A b \in Analyzers : run[b].step = "idle" /\ run[b].matched = {}
    BY <1>1 DEF Analyze, Running, NothingLeft
  <2>4. OfUse(entries, result) \subseteq ValidStatKeys(entries)
    BY DEF OfUse
  <2> HIDE DEF entries
  <2>5. ASSUME NEW k \in stays' \ Pending' PROVE stats' # Unparsable /\ k \in DOMAIN stats'
    <3>1. k \notin run'[a].matched /\ k \notin unsaved
      BY <2>2, <2>5 DEF Pending
    <3>2. ~(k \in OfUse(entries, result) \cap Recordable)
      BY <2>0, <2>1, <3>1, UsedAreRecorded
    <3>3. k \in stays /\ k \notin Pending
      BY <2>1, <2>3, <2>5, <3>1, <3>2 DEF Pending
    <3>4. QED BY <1>k, <2>2, <2>3, <3>3
  <2>6. Plans(a)
    BY <2>1, <2>2, <2>4
  <2>7. \A b \in Analyzers \ {a} : Plans(b)
    BY <2>2, <2>3
  <2>8. QED BY <2>5, <2>6, <2>7
<1>2. ASSUME NEW a \in Analyzers, LoadStats(a) PROVE Keeps /\ \A b \in Analyzers : Plans(b)
  <2> DEFINE old == Load(stats, NoStats)
             mem == SaveStats(old, run[a].matched, run[a].entries)
  <2>1. /\ run[a].step = "load" /\ run'[a].step = "open"
        /\ run'[a].mem = mem /\ run'[a].matched = run[a].matched
        /\ \A b \in Analyzers \ {a} : run'[b] = run[b]
        /\ UNCHANGED <<stats, unsaved, stays>>
    BY <1>2, RunLoad DEF observers
  <2>2. DOMAIN mem = (DOMAIN old \cup run[a].matched) \cap ValidStatKeys(run[a].entries)
    BY DEF SaveStats
  <2> HIDE DEF mem
  <2>3. \A b \in Analyzers \ {a} : run[b].step = "idle" /\ run[b].matched = {}
    BY <1>i, <2>1 DEF Running
  <2>4. Pending = unsaved \cup run[a].matched /\ Pending' = Pending
    BY <1>i, <2>1 DEF Running, Pending
  <2>5. \A k \in stays \ Pending : k \in DOMAIN stats /\ stats # Unparsable
    BY <1>k, <2>1, <2>3
  <2>6. \A k \in stays \ Pending : k \in DOMAIN old
    BY <2>5 DEF Load
  <2>7. stays \subseteq ValidStatKeys(run[a].entries)
    BY <1>k, <2>1 DEF Defined
  <2>8. Plans(a)
    BY <2>1, <2>2, <2>4, <2>6, <2>7
  <2>9. Keeps
    BY <2>1, <2>4, <2>5
  <2>10. \A b \in Analyzers \ {a} : Plans(b)
    BY <2>1, <2>3
  <2>11. QED BY <2>8, <2>9, <2>10
<1>3. ASSUME NEW a \in Analyzers, OpenStats(a) PROVE Keeps /\ \A b \in Analyzers : Plans(b)
  <2>1. /\ run[a].step = "open" /\ run'[a].step = "dump" /\ run'[a].mem = run[a].mem
        /\ run'[a].matched = run[a].matched
        /\ \A b \in Analyzers \ {a} : run'[b] = run[b]
        /\ UNCHANGED <<unsaved, stays>>
    BY <1>3, RunWrite
  <2>2. \A b \in Analyzers \ {a} : run[b].step = "idle"
    BY <1>i, <2>1 DEF Running
  <2>3. Plans(a)
    BY <1>k, <2>1 DEF InTheMemory
  <2>4. QED BY <2>1, <2>2, <2>3
<1>4. ASSUME NEW a \in Analyzers, DumpStats(a) PROVE Keeps /\ \A b \in Analyzers : Plans(b)
  <2>1. /\ run[a].step = "dump" /\ run'[a].step = "warn" /\ stats' = run[a].mem
        /\ unsaved' = unsaved \ run[a].matched /\ stays' = stays
        /\ \A b \in Analyzers \ {a} : run'[b] = run[b]
    BY <1>4, RunWrite
  <2>2. \A b \in Analyzers \ {a} : run[b].step = "idle"
    BY <1>i, <2>1 DEF Running
  <2>3. stats' # Unparsable
    BY <2>1, UnparsableAssumption DEF TypeOK, Analysis
  <2>4. \A k \in stays \ Pending' : k \in run[a].matched \/ k \notin unsaved
    BY <2>1 DEF Pending
  <2>5. Keeps
    BY <1>k, <2>1, <2>3, <2>4 DEF InTheMemory
  <2>6. QED BY <2>1, <2>2, <2>5
<1>5. ASSUME NEW a \in Analyzers, FailToSave(a) \/ Interrupt(a) \/ Warn(a)
      PROVE  Keeps /\ \A b \in Analyzers : Plans(b)
  <2>1. /\ run[a].step # "idle" /\ run'[a].step \in {"warn", "idle"}
        /\ run[a].matched \cap Recordable \subseteq unsaved'
        /\ run[a].step = "dump" => unsaved' = Recordable
        /\ unsaved \subseteq unsaved' /\ UNCHANGED <<stats, stays>>
        /\ \A b \in Analyzers \ {a} : run'[b] = run[b]
    BY <1>5, RunFails
  <2>2. /\ \A b \in Analyzers \ {a} : run[b].step = "idle"
        /\ Pending = unsaved \cup run[a].matched
    BY <1>i, <2>1 DEF Running
  <2>3. unsaved' \subseteq Pending'
    BY DEF Pending
  <2>4. CASE run[a].step = "dump"
    <3>1. stays' \ Pending' = {}
      BY <1>s, <2>1, <2>3, <2>4
    <3>2. QED BY <2>1, <2>2, <3>1
  <2>5. CASE run[a].step # "dump"
    <3>1. \A k \in stays \ Pending' : k \notin Pending
      BY <1>s, <2>1, <2>2, <2>3
    <3>2. Keeps
      BY <1>k, <2>1, <2>2, <2>5, <3>1
    <3>3. QED BY <2>1, <2>2, <3>2
  <2>6. QED BY <2>4, <2>5
<1>6. CASE PassDay
  <2>1. /\ \A a \in Analyzers : run[a].step = "idle"
        /\ UNCHANGED <<run, unsaved, stays>>
    BY <1>6 DEF PassDay, Running
  <2>2. Pending' = Pending
    BY <2>1 DEF Pending
  <2>3. stats # Unparsable => DOMAIN stats' = DOMAIN stats /\ stats' # Unparsable
    <3>1. CASE stats # Unparsable
      <4>1. stats \in [DOMAIN stats -> Ages] /\ DOMAIN stats \subseteq Keys
        BY <3>1, StatsType DEF TypeOK
      <4>2. stats' \in [DOMAIN stats -> Ages]
        BY <1>6, <3>1, <4>1, OlderType DEF PassDay
      <4>3. stats' \in Stats
        BY <4>1, <4>2 DEF Stats
      <4>4. QED BY <4>2, <4>3, UnparsableAssumption
    <3>2. QED BY <3>1
  <2>4. QED BY <1>k, <2>1, <2>2, <2>3
<1>7. CASE EditPatterns \/ UNCHANGED vars
  <2>1. UNCHANGED <<stats, run, unsaved, stays>> /\ Pending' = Pending
    BY <1>7, RestStep DEF observers, Pending
  <2>2. \A a \in Analyzers : Plans(a)
    BY <1>k, <2>1 DEF Defined, InTheMemory
  <2>3. QED BY <1>k, <2>1, <2>2
<1>8. QED BY <1>1, <1>2, <1>3, <1>4, <1>5, <1>6, <1>7 DEF Next

-----------------------------------------------------------------------------
(* The variables of the analyses and the files stay in their types: no      *)
(* pattern that no file defines gets into the statistics.                   *)
THEOREM AnalyzerIsTyped == Spec => []TypeOK
<1>1. Inv => TypeOK
  BY DEF Inv
<1>2. QED BY <1>1, Invariance, PTL

(* pattern_stats.json never makes a pattern look used later than it was,    *)
(* however many analyses write it.  If none overlap, the age of a pattern   *)
(* of a resource type is that of the last analysis that had a change sorted *)
(* by it, saved or not, except where a match was not saved since it last    *)
(* was.                                                                     *)
THEOREM StatisticsAreTrue == Spec => []HistoryIsTrue
<1>1. Inv => HistoryIsTrue
  BY DEF Inv
<1>2. QED BY <1>1, Invariance, PTL

(* If no analyses overlap, a pattern of a resource type that was of use is  *)
(* in the file for as long as each analysis finds it defined, and no match  *)
(* of it went unsaved; nothing is said of the common patterns, whose        *)
(* matches are recorded by resource type and dropped, nor of overlaps.      *)
THEOREM HistoryStays == Spec => []HistoryIsKept
<1>1. KeptInv => HistoryIsKept
  BY DEF KeptInv
<1>2. QED BY <1>1, Invariance, KeptInit, KeptStep, PTL DEF Spec

(* An analysis names each pattern in its statistics that sorted no change   *)
(* for longer than the limit, whatever overlapped or failed.  If none       *)
(* overlap, a pattern of a resource type that it names was of no use since, *)
(* in any analysis, saved or not, unless a match of it was not saved.       *)
THEOREM UnusedAreUnused == Spec => WarningsAreRight
<1>1. Inv /\ [Next]_vars =>
        [\A a \in Analyzers : Warn(a) =>
           /\ {k \in DOMAIN run[a].mem : seen[k] > Days} \subseteq warned'
           /\ ~overlapped =>
                \A k \in (warned' \cap Recordable) \ unsaved : seen[k] >= Days]_vars
  <2> SUFFICES ASSUME Inv, NEW a \in Analyzers, Warn(a)
               PROVE  /\ {k \in DOMAIN run[a].mem : seen[k] > Days} \subseteq warned'
                      /\ ~overlapped =>
                           \A k \in (warned' \cap Recordable) \ unsaved : seen[k] >= Days
    OBVIOUS
  <2>1. run[a].step = "warn" /\ warned' \in GetUnusedPatterns(run[a].mem)
    BY DEF Warn
  <2>2. \A k \in DOMAIN run[a].mem :
          /\ run[a].mem[k] >= seen[k]
          /\ ~overlapped /\ k \in Recordable \ unsaved => run[a].mem[k] = seen[k]
    BY <2>1 DEF Inv, InMemory
  <2>3. run[a].mem \in Stats
    BY DEF Inv, TypeOK, Analysis
  <2>4. \A k \in DOMAIN run[a].mem : run[a].mem[k] \in Ages /\ k \in Keys
    BY <2>3, StatsType
  <2>5. \A k \in Keys : seen[k] \in Ages
    BY DEF Inv, TypeOK
  <2>6. /\ \A k \in DOMAIN run[a].mem : run[a].mem[k] > Days => k \in warned'
        /\ \A k \in warned' : k \in DOMAIN run[a].mem /\ run[a].mem[k] >= Days
    BY <2>1 DEF GetUnusedPatterns
  <2>7. ASSUME NEW k \in DOMAIN run[a].mem, seen[k] > Days PROVE k \in warned'
    BY <2>2, <2>4, <2>5, <2>6, <2>7, DaysAssumption DEF Ages
  <2>8. QED BY <2>2, <2>6, <2>7
<1>2. QED BY <1>1, Invariance, PTL DEF Spec, WarningsAreRight

(* Whatever patterns are defined, what is noise to the JSON output because  *)
(* it is read-only has a label that says so in the text, and conversely.    *)
THEOREM OutputsAgree == Spec => []VerdictsAgree
<1>1. ASSUME NEW entries, NEW type, NEW p
      PROVE  LET label == GetReferenceInfo(entries, type, p)
                 why   == EvaluatePropertyChange(entries, type, p)
             IN  /\ why = "readOnly" => label \in {"readonly_patterns", "custom_patterns"}
                 /\ label = "readonly_patterns" => why # "pending"
  BY DEF GetReferenceInfo, EvaluatePropertyChange
<1>2. VerdictsAgree
  BY <1>1 DEF VerdictsAgree
<1>3. QED BY <1>2, PTL

(* Whatever is reported and whatever patterns are defined, the text output  *)
(* hides no resource that the JSON output counts or leaves to decide.       *)
THEOREM NothingIsHidden == Spec => []TextTellsAll
<1>1. ASSUME NEW entries, NEW result
      PROVE  LET text == TextOutput(entries, result)
             IN  /\ \A c \in result : IsEffectiveChange(c) =>
                      c \in text.shown \/ IsCreateFalsePositive(entries, c)
                 /\ text.false_positives =
                      Cardinality({c \in result : IsCreateFalsePositive(entries, c)})
                 /\ \A cp \in PendingEvaluations(entries, result) : cp[1] \in text.shown
  <2> DEFINE candidates == {c \in result : ShouldShowResource(c)}
             unreal == {c \in result : IsCreateFalsePositive(entries, c)}
  <2>1. \A c \in result : IsEffectiveChange(c) => c \in candidates
    BY DEF IsEffectiveChange, EFFECTIVE_OPERATIONS, ShouldShowResource,
           IsKnownAcrAcrpullUnsupported
  <2>2. \A c \in unreal : c.operation = "Create"
    BY DEF IsCreateFalsePositive
  <2>3. candidates \cap unreal = unreal
    BY <2>1, <2>2 DEF IsEffectiveChange, EFFECTIVE_OPERATIONS
  <2>4. \A cp \in PendingEvaluations(entries, result) :
          cp[1] \in result /\ cp[1].operation \in {"Modify", "Delete"}
    BY DEF PendingEvaluations
  <2>5. \A cp \in PendingEvaluations(entries, result) : cp[1] \in candidates \ unreal
    BY <2>1, <2>2, <2>4 DEF IsEffectiveChange, EFFECTIVE_OPERATIONS
  <2>6. /\ TextOutput(entries, result).shown = candidates \ unreal
        /\ TextOutput(entries, result).false_positives = Cardinality(candidates \cap unreal)
    BY DEF TextOutput
  <2>7. QED BY <2>1, <2>3, <2>5, <2>6
<1>2. TextTellsAll
  BY <1>1 DEF TextTellsAll
<1>3. QED BY <1>2, PTL
=============================================================================
