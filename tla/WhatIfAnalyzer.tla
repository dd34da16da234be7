--------------------------- MODULE WhatIfAnalyzer ---------------------------
(***************************************************************************)
(* what_if_analyzer.py: sorts the changes `az deployment sub what-if`       *)
(* reports by the patterns of noise_patterns.json, prints the resources     *)
(* worth a look, and keeps in pattern_stats.json when each pattern was last *)
(* of use, so that patterns that have not been for Days days can be named.  *)
(* The pattern file is edited between and during analyses; an analysis may  *)
(* end anywhere, and its write of the statistics is not atomic.             *)
(*                                                                         *)
(* Time is the age, in days, of what is remembered, up to the first age at  *)
(* which a pattern counts as unused; no analysis outlasts a day.            *)
(***************************************************************************)
EXTENDS Integers, Sequences, Functions, FiniteSets

CONSTANTS
  Analyzers,      \* the processes that may run at the same time
  Types,          \* resource types
  FilteredTypes,  \* filtered_resource_types of display_config.json
  Subjects,       \* what patterns are searched in: paths, values, names
  Patterns,       \* the regular expressions
  Hits,           \* the subjects each of them is found in
  PatternFiles,   \* the contents noise_patterns.json may have
  Unparsable,     \* the content of a file that is missing or no JSON
  WhatIfResults,  \* the changes what-if may report, filtered and flattened
  Days,           \* get_unused_patterns(days)
  MaxMishaps,     \* bound: how many analyses may be cut short, or not save
  MaxEdits        \* bound: how often the pattern file is edited

(* Where a pattern is defined: for a type, or for all of them.  It is also  *)
(* the type of a resource whose id names no provider.                       *)
Common == "common"

(* The categories whose statistics are kept: _get_valid_stat_keys.          *)
StatCategories == {"custom_patterns", "auto_managed_patterns",
                   "create_false_positive_patterns"}
Categories == StatCategories \cup {"readonly_patterns", "arm_reference_patterns"}

Operations == {"Create", "Modify", "Delete", "NoChange", "Ignore", "Unsupported"}
EFFECTIVE_OPERATIONS == {"Create", "Modify", "Delete"}

(* An entry of the pattern file, and the key of its statistics.             *)
Entries == [scope : Types \cup {Common}, category : Categories, pattern : Patterns]

(* A change of a property that has no children.  value: what was there, or  *)
(* will be, of the two the one in which a pattern is found; default: is it  *)
(* a known default value; bicep: what find_bicep_definition found.          *)
PropertyChanges == [path : Subjects, value : Subjects,
                    change : {"Create", "Modify", "Delete", "NoEffect"},
                    default : BOOLEAN, bicep : {"defined", "notDefined", "unknown"}]

(* name stands for the type, the name and the id, which are searched alike; *)
(* provider: the type that the last /providers/ of the id names; child: has *)
(* the id more than a type and a name after it; states: is there a before   *)
(* or an after state; acrpull: is it the known AcrPull role assignment.     *)
Changes == [operation : Operations, type : Types \cup {Common}, provider : Types,
            name : Subjects, child : BOOLEAN, states : BOOLEAN, acrpull : BOOLEAN,
            props : SUBSET PropertyChanges]

ASSUME TypesAssumption == Common \notin Types /\ FilteredTypes \subseteq Types
ASSUME HitsAssumption == Hits \in [Patterns -> SUBSET Subjects]
ASSUME PatternFilesAssumption ==
  /\ Unparsable \in PatternFiles
  /\ \A f \in PatternFiles \ {Unparsable} : f \in Seq(Entries)
ASSUME WhatIfResultsAssumption == \A r \in WhatIfResults : r \subseteq Changes
ASSUME DaysAssumption == {Days, MaxMishaps, MaxEdits} \subseteq Nat

VARIABLES
  patterns,  \* noise_patterns.json
  stats,     \* pattern_stats.json: the age of each pattern's last match
  run,       \* the analyses
  warned,    \* the patterns named as unused, until the next analysis
  seen,      \* observer: the age of the last analysis that had a change
             \* sorted by the pattern, were it saved or not
  unsaved,   \* observer: recordable patterns a match of which was not saved
  stays,     \* observer: those that were of use once, and that every
             \* analysis since has found in the pattern file
  mishaps,   \* how many analyses were cut short or could not write
  edits,     \* how often the pattern file was edited
  overlapped \* observer: has an analysis begun before another had ended?

observers == <<seen, unsaved, stays>>
vars == <<patterns, stats, run, warned, observers, mishaps, edits, overlapped>>

Ages == 0 .. Days + 1
Older(age) == IF age > Days THEN age ELSE age + 1

(* What is read from a file that is no JSON: no patterns, no statistics.    *)
NoStats == [k \in {} |-> 0]
Load(file, nothing) == IF file = Unparsable THEN nothing ELSE file

-----------------------------------------------------------------------------
(* The patterns                                                            *)

(* get_custom_patterns and its like: those for the type and the common ones, *)
(* by their places in the file.                                             *)
PatternsOf(entries, category, type) ==
  {i \in DOMAIN entries : entries[i].category = category /\ entries[i].scope \in {Common, type}}

Found(entries, category, type, subject) ==
  {i \in PatternsOf(entries, category, type) : subject \in Hits[entries[i].pattern]}

Matches(entries, category, type, subject) ==
  Found(entries, category, type, subject) # {}

(* The common ones are searched first, each scope in the order of the file. *)
Precedes(entries, i, j) ==
  IF entries[i].scope = entries[j].scope THEN i <= j ELSE entries[i].scope = Common

FirstFound(entries, category, type, subject) ==
  LET found == Found(entries, category, type, subject)
  IN  {entries[i].pattern : i \in {k \in found : \A j \in found : Precedes(entries, k, j)}}

(* record_pattern_match: the first pattern that is found, under the type of *)
(* the resource, wherever the pattern is defined.                           *)
RecordPatternMatch(entries, category, type, subject) ==
  {[scope |-> type, category |-> category, pattern |-> q] :
     q \in FirstFound(entries, category, type, subject)}

-----------------------------------------------------------------------------
(* A change of a property                                                  *)

EvaluatePropertyChange(entries, type, p) ==
  IF p.change = "NoEffect" THEN "noEffect"
  ELSE IF Matches(entries, "readonly_patterns", type, p.path) THEN "readOnly"
  ELSE IF Matches(entries, "arm_reference_patterns", Common, p.value) THEN "armReference"
  ELSE "pending"

(* Mistake: only the common patterns are asked whether it is read-only. *)
GetReferenceInfoCommon(entries, type, p) ==
  IF Matches(entries, "custom_patterns", type, p.path) THEN "custom_patterns"
  ELSE IF Matches(entries, "readonly_patterns", Common, p.path) THEN "readonly_patterns"
  ELSE IF Matches(entries, "auto_managed_patterns", type, p.path) THEN "auto_managed_patterns"
  ELSE IF p.default THEN "known_defaults"
  ELSE IF p.bicep = "defined" THEN "defined" ELSE "unclassified"

(* The label of the text output, for the first category that applies. *)
GetReferenceInfo(entries, type, p) ==
  IF Matches(entries, "custom_patterns", type, p.path) THEN "custom_patterns"
  ELSE IF Matches(entries, "readonly_patterns", type, p.path) THEN "readonly_patterns"
  ELSE IF Matches(entries, "auto_managed_patterns", type, p.path) THEN "auto_managed_patterns"
  ELSE IF p.default THEN "known_defaults"
  ELSE IF p.bicep = "defined" THEN "defined" ELSE "unclassified"

(* What the two record on the way.  The readOnly check comes before the one *)
(* for ARM references, and none is made of a change without an effect.      *)
RecordedBy(entries, type, p) ==
  LET label == GetReferenceInfo(entries, type, p)
      why   == EvaluatePropertyChange(entries, type, p)
  IN  (IF label \notin Categories THEN {}
       ELSE RecordPatternMatch(entries, label, type, p.path))
      \cup (IF why # "readOnly" THEN {}
            ELSE RecordPatternMatch(entries, "readonly_patterns", type, p.path))
      \cup (IF why # "armReference" THEN {}
            ELSE RecordPatternMatch(entries, "arm_reference_patterns", Common, p.value))

MatchedPatterns(entries, result) ==
  UNION {UNION {RecordedBy(entries, c.type, p) : p \in c.props} : c \in result}

-----------------------------------------------------------------------------
(* A change of a resource                                                  *)

IsKnownAcrAcrpullUnsupported(c) == c.operation = "Unsupported" /\ c.acrpull

(* A Create of which nothing is known, or that a pattern says is none. *)
IsCreateFalsePositive(entries, c) ==
  /\ c.operation = "Create"
  /\ ~c.states \/ Matches(entries, "create_false_positive_patterns", c.type, c.name)

IsMainResource(c) ==
  /\ ~IsKnownAcrAcrpullUnsupported(c)
  /\ ~c.child
  /\ {c.type, c.provider} \cap FilteredTypes = {}

IsEffectiveChange(c) == c.operation \in EFFECTIVE_OPERATIONS

(* Mistake: the filter is asked first. *)
ShouldShowMain(c) == ~IsKnownAcrAcrpullUnsupported(c) /\ IsMainResource(c)

ShouldShowResource(c) ==
  /\ ~IsKnownAcrAcrpullUnsupported(c)
  /\ IsEffectiveChange(c) \/ IsMainResource(c)

(* The text output: the resources on it, and the two counts below them. *)
TextOutput(entries, result) ==
  LET candidates == {c \in result : ShouldShowResource(c)}
      unreal     == {c \in result : IsCreateFalsePositive(entries, c)}
  IN  [shown |-> candidates \ unreal,
       false_positives |-> Cardinality(candidates \cap unreal),
       hidden |-> Cardinality({c \in result \ (candidates \cup unreal) : IsEffectiveChange(c)})]

(* The JSON output's list of what is left to decide. *)
PendingEvaluations(entries, result) ==
  UNION {{<<c, p>> : p \in {q \in c.props : EvaluatePropertyChange(entries, c.type, q) = "pending"}} :
           c \in {d \in result : d.operation \in {"Modify", "Delete"}}}

-----------------------------------------------------------------------------
(* The statistics                                                          *)

(* _get_valid_stat_keys: the defined patterns whose statistics are kept. *)
ValidStatKeys(entries) == {e \in Range(entries) : e.category \in StatCategories}

(* Mistake: nothing is removed. *)
SaveStatsKeepingAll(old, matched, entries) ==
  [k \in DOMAIN old \cup matched |-> IF k \in matched THEN 0 ELSE old[k]]

(* Mistake: lastMatched is set with firstMatched only. *)
SaveStatsFirstMatch(old, matched, entries) ==
  [k \in (DOMAIN old \cup matched) \cap ValidStatKeys(entries) |->
     IF k \in DOMAIN old THEN old[k] ELSE 0]

(* Mistake: only what matched this time is kept. *)
SaveStatsForgetful(old, matched, entries) ==
  [k \in matched \cap ValidStatKeys(entries) |-> 0]

(* What matched is of age 0, and what is defined no more is removed. *)
SaveStats(old, matched, entries) ==
  [k \in (DOMAIN old \cup matched) \cap ValidStatKeys(entries) |->
     IF k \in matched THEN 0 ELSE old[k]]

(* The categories' entries that some pattern file has, by their keys. *)
Keys == UNION {ValidStatKeys(f) : f \in PatternFiles \ {Unparsable}}

(* Mistake: the limit is a day too early. *)
GetUnusedPatternsEarly(mem) ==
  {S \in SUBSET {k \in DOMAIN mem : mem[k] >= Days - 1} :
     {k \in DOMAIN mem : mem[k] > Days - 1} \subseteq S}

(* On the day on which a match is Days days old, the time of the day        *)
(* decides.                                                                 *)
GetUnusedPatterns(mem) ==
  {S \in SUBSET {k \in DOMAIN mem : mem[k] >= Days} :
     {k \in DOMAIN mem : mem[k] > Days} \subseteq S}

-----------------------------------------------------------------------------
(* What the observers note                                                 *)

(* The entries by which a change is sorted, wherever they are defined: the  *)
(* common ones too, and those that tell a Create to be none.                *)
Sorts(entries, e, type, subject) ==
  e.scope \in {Common, type} /\ e.pattern \in FirstFound(entries, e.category, type, subject)

OfUse(entries, result) ==
  {e \in ValidStatKeys(entries) : \E c \in result :
     \/ /\ e.category = "create_false_positive_patterns"
        /\ c.operation = "Create" /\ c.states
        /\ Sorts(entries, e, c.type, c.name)
     \/ \E p \in c.props : /\ e.category = GetReferenceInfo(entries, c.type, p)
                           /\ Sorts(entries, e, c.type, p.path)}

(* The patterns of which matches can be recorded under their own keys: not  *)
(* the common ones, whose matches go by the type of the resource, nor those *)
(* that tell a Create to be none, which are recorded nowhere.               *)
Recordable == {k \in Keys : k.scope # Common /\ k.category # "create_false_positive_patterns"}

-----------------------------------------------------------------------------
(* An analysis                                                             *)

(* What nothing reads any more is forgotten: result and entries when the    *)
(* statistics are changed, matched when they are written.                   *)
Idle == [step |-> "idle", result |-> {}, entries |-> <<>>, matched |-> {}, mem |-> NoStats]

Running(a) == run[a].step # "idle"

Init ==
  /\ patterns \in PatternFiles
  /\ stats = Unparsable
  /\ run = [a \in Analyzers |-> Idle]
  /\ warned = {}
  /\ seen = [k \in Keys |-> Days + 1]
  /\ unsaved = {} /\ stays = {}
  /\ mishaps = 0 /\ edits = 0
  /\ overlapped = FALSE

(* run_what_if and build_output, with the patterns loaded on first use. *)
Analyze(a) ==
  /\ ~Running(a)
  /\ LET entries == Load(patterns, <<>>)
     IN  \E result \in WhatIfResults :
           /\ run' = [run EXCEPT ![a] = [Idle EXCEPT !.step = "load", !.result = result,
                        !.entries = entries, !.matched = MatchedPatterns(entries, result)]]
           /\ seen' = [k \in Keys |-> IF k \in OfUse(entries, result) THEN 0 ELSE seen[k]]
           /\ stays' = (stays \cap ValidStatKeys(entries))
                         \cup (OfUse(entries, result) \cap Recordable)
  /\ warned' = {}
  /\ overlapped' = (overlapped \/ \E b \in Analyzers : Running(b))
  /\ UNCHANGED <<patterns, stats, unsaved, mishaps, edits>>

(* save_stats up to its open(): the statistics are read, and changed. *)
LoadStats(a) ==
  /\ run[a].step = "load"
  /\ LET mem == SaveStats(Load(stats, NoStats), run[a].matched, run[a].entries)
     IN  run' = [run EXCEPT ![a] = [Idle EXCEPT !.step = "open", !.mem = mem,
                                                !.matched = run[a].matched]]
  /\ UNCHANGED <<patterns, stats, warned, observers, mishaps, edits, overlapped>>

(* open(..., "w") empties the file. *)
OpenStats(a) ==
  /\ run[a].step = "open"
  /\ stats' = Unparsable
  /\ run' = [run EXCEPT ![a].step = "dump"]
  /\ UNCHANGED <<patterns, warned, observers, mishaps, edits, overlapped>>

(* json.dump and the file's close. *)
DumpStats(a) ==
  /\ run[a].step = "dump"
  /\ stats' = run[a].mem
  /\ unsaved' = unsaved \ run[a].matched
  /\ run' = [run EXCEPT ![a].step = "warn", ![a].matched = {}]
  /\ UNCHANGED <<patterns, warned, seen, stays, mishaps, edits, overlapped>>

(* What an analysis that ends here never saves: its matches, and all that   *)
(* the file held once it is emptied.                                        *)
LosesWhatIsNotSaved(a) ==
  unsaved' = unsaved \cup IF run[a].step = "dump" THEN Recordable
                          ELSE run[a].matched \cap Recordable

(* An OSError of either is logged; the file stays as it is. *)
FailToSave(a) ==
  /\ run[a].step \in {"open", "dump"}
  /\ mishaps < MaxMishaps
  /\ mishaps' = mishaps + 1
  /\ LosesWhatIsNotSaved(a)
  /\ run' = [run EXCEPT ![a].step = "warn", ![a].matched = {}]
  /\ UNCHANGED <<patterns, stats, warned, seen, stays, edits, overlapped>>

(* get_unused_patterns, from the statistics in memory. *)
Warn(a) ==
  /\ run[a].step = "warn"
  /\ warned' \in GetUnusedPatterns(run[a].mem)
  /\ run' = [run EXCEPT ![a] = Idle]
  /\ UNCHANGED <<patterns, stats, observers, mishaps, edits, overlapped>>

-----------------------------------------------------------------------------
(* Around it                                                               *)

Interrupt(a) ==
  /\ Running(a)
  /\ mishaps < MaxMishaps
  /\ mishaps' = mishaps + 1
  /\ LosesWhatIsNotSaved(a)
  /\ run' = [run EXCEPT ![a] = Idle]
  /\ UNCHANGED <<patterns, stats, warned, seen, stays, edits, overlapped>>

EditPatterns ==
  /\ edits < MaxEdits
  /\ edits' = edits + 1
  /\ patterns' \in PatternFiles \ {patterns}
  /\ UNCHANGED <<stats, run, warned, observers, mishaps, overlapped>>

PassDay ==
  /\ \A a \in Analyzers : ~Running(a)
  /\ stats' = IF stats = Unparsable THEN stats
              ELSE [k \in DOMAIN stats |-> Older(stats[k])]
  /\ seen' = [k \in Keys |-> Older(seen[k])]
  /\ UNCHANGED <<patterns, run, warned, unsaved, stays, mishaps, edits, overlapped>>

Next ==
  \/ \E a \in Analyzers :
       \/ Analyze(a) \/ LoadStats(a) \/ OpenStats(a) \/ DumpStats(a) \/ Warn(a)
       \/ FailToSave(a) \/ Interrupt(a)
  \/ EditPatterns
  \/ PassDay

Spec == Init /\ [][Next]_vars

-----------------------------------------------------------------------------
(* Properties                                                              *)

Stats == UNION {[D -> Ages] : D \in SUBSET Keys}

(* What is no JSON is no statistics. *)
ASSUME UnparsableAssumption == Unparsable \notin Stats

Analysis == [step : {"idle", "load", "open", "dump", "warn"},
             result : WhatIfResults \cup {{}},
             entries : {Load(f, <<>>) : f \in PatternFiles},
             matched : SUBSET Entries, mem : Stats]

(* The variables have their types; of the patterns that are matched, the    *)
(* statistics are only of those that some pattern file defined.             *)
TypeOK ==
  /\ patterns \in PatternFiles
  /\ stats \in Stats \cup {Unparsable}
  /\ run \in [Analyzers -> Analysis]
  /\ warned \subseteq Keys
  /\ seen \in [Keys -> Ages]
  /\ unsaved \subseteq Recordable /\ stays \subseteq Recordable
  /\ mishaps \in 0 .. MaxMishaps
  /\ edits \in 0 .. MaxEdits
  /\ overlapped \in BOOLEAN

(* The matches that are in no file: of analyses that have yet to save them, *)
(* and of those that could not or were cut short.                           *)
Pending == unsaved \cup UNION {run[a].matched : a \in Analyzers}

(* pattern_stats.json never makes a pattern look used after it was, whoever *)
(* writes it.  Without overlaps a pattern of a resource type has in it the  *)
(* age of the last change that was sorted by it, whatever edits of the      *)
(* patterns come between, except where that match was never saved           *)
(* (save_stats, record_pattern_match).                                      *)
HistoryIsTrue ==
  stats # Unparsable => \A k \in DOMAIN stats :
    /\ stats[k] >= seen[k]
    /\ ~overlapped /\ k \in Recordable \ Pending => stats[k] = seen[k]

(* The text output, which people read, and the JSON output agree: what is   *)
(* created, modified or deleted is shown, but for the creates that the JSON *)
(* marks as false positives and the text counts; and a resource with        *)
(* something left to decide is shown (format_azd_style_output).             *)
TextTellsAll ==
  \A a \in Analyzers :
    LET result  == run[a].result
        entries == run[a].entries
        text    == TextOutput(entries, result)
    IN  /\ \A c \in result : IsEffectiveChange(c) =>
             c \in text.shown \/ IsCreateFalsePositive(entries, c)
        /\ text.false_positives =
             Cardinality({c \in result : IsCreateFalsePositive(entries, c)})
        /\ \A cp \in PendingEvaluations(entries, result) : cp[1] \in text.shown

(* The two verdicts on a change, get_reference_info's and                   *)
(* evaluate_property_change's, never contradict each other: what is noise   *)
(* because it is read-only is labelled so or by a custom pattern, and what  *)
(* is labelled read-only is not left to decide.                             *)
VerdictsAgree ==
  \A a \in Analyzers : \A c \in run[a].result : \A p \in c.props :
    LET label == GetReferenceInfo(run[a].entries, c.type, p)
        why   == EvaluatePropertyChange(run[a].entries, c.type, p)
    IN  /\ why = "readOnly" => label \in {"readonly_patterns", "custom_patterns"}
        /\ label = "readonly_patterns" => why # "pending"

(* Without overlaps a pattern of a resource type that was of use stays in   *)
(* the file for as long as the analyses find its definition, while other    *)
(* patterns come and go, matches fail to be saved, and the file is emptied  *)
(* before it is written; but for a match that was never saved (save_stats). *)
HistoryIsKept ==
  ~overlapped /\ (\A a \in Analyzers : run[a].step # "dump") =>
    \A k \in stays \ Pending : stats # Unparsable /\ k \in DOMAIN stats

(* An analysis names every pattern in its statistics that was of no use for *)
(* more than Days days, whatever happened to the statistics.  Without       *)
(* overlaps it names no pattern of a resource type that was of use since,   *)
(* unless that match was never saved (get_unused_patterns).                 *)
WarningsAreRight ==
  [][\A a \in Analyzers : Warn(a) =>
       /\ {k \in DOMAIN run[a].mem : seen[k] > Days} \subseteq warned'
       /\ ~overlapped => \A k \in (warned' \cap Recordable) \ unsaved : seen[k] >= Days]_vars
=============================================================================
