---------------------------- MODULE BicepSearch ----------------------------
(***************************************************************************)
(* Where the what-if analyzer looks for the definition of a changed         *)
(* property: it does not parse Bicep, but looks for lines with the          *)
(* property's name, and follows the brackets around them.                   *)
(*                                                                         *)
(* Of a line it sees: the name it starts with, if a ":" follows (key); the  *)
(* names that occur in it (words); the resource type it declares (type);    *)
(* whether it is a comment; and its brackets, in their order, by name       *)
(* ("lbrace" is {, "rbracket" is ]).  A path is a sequence of names, each   *)
(* with the index that follows it, if one does.  A directory is a sequence  *)
(* of files, a file a sequence of lines.                                    *)
(***************************************************************************)
EXTENDS Integers, Sequences, FiniteSets, FiniteSetsExt, SequencesExt

NoName  == ""
NoIndex == -1

(* The steps of a path that count, and those of them with an index.         *)
Meaningful(path) ==
  LET kept[i \in 0 .. Len(path)] ==
        IF i = 0 THEN <<>>
        ELSE IF path[i].name = "properties" THEN kept[i - 1]
        ELSE Append(kept[i - 1], path[i])
  IN  kept[Len(path)]

Indexed(path) ==
  LET kept[i \in 0 .. Len(path)] ==
        IF i = 0 THEN <<>>
        ELSE IF path[i].name = "properties" \/ path[i].index = NoIndex THEN kept[i - 1]
        ELSE Append(kept[i - 1], path[i])
  IN  kept[Len(path)]

(* The search term, its parents, and the indices on the way.                *)
ExtractSearchTerms(path) ==
  LET meaningful == Meaningful(path)
  IN  [term    |-> Last(IF meaningful = <<>> THEN path ELSE meaningful).name,
       parents |-> IF meaningful = <<>> THEN <<>> ELSE Front(meaningful),
       indices |-> Indexed(path)]

-----------------------------------------------------------------------------
(* Brackets                                                                *)

Count(line, bracket) ==
  Cardinality({i \in DOMAIN line.brackets : line.brackets[i] = bracket})

(* How many more blocks of a kind are opened than closed from one line to   *)
(* another.                                                                 *)
Depth(lines, from, to, opening, closing) ==
  LET depth[j \in 0 .. Len(lines)] ==
        IF j < from THEN 0
        ELSE depth[j - 1] + Count(lines[j], opening) - Count(lines[j], closing)
  IN  depth[to]

Opens(lines, from, to, opening) ==
  \E i \in from .. to : Count(lines[i], opening) > 0

(* The last line of the block that a declaration opens: the first at which  *)
(* as many braces are closed as were opened.                                *)
BlockEnd(lines, start) ==
  LET ends == {j \in start .. Len(lines) :
                 Opens(lines, start, j, "lbrace") /\ Depth(lines, start, j, "lbrace", "rbrace") = 0}
  IN  IF ends = {} THEN start ELSE Min(ends)

(* The blocks of the resources of a type, as pairs of their first and last  *)
(* lines.  A declaration inside another's block is not looked for.          *)
FindResourceBlockRange(lines, type) ==
  LET declared == {i \in DOMAIN lines : lines[i].type = type /\ type # NoName}
  IN  {<<i, BlockEnd(lines, i)>> :
         i \in {j \in declared : \A k \in declared : k < j => BlockEnd(lines, k) < j}}

Within(n, range) == range[1] <= n /\ n <= range[2]

(* Mistake: the parent's block may have been closed on the way. *)
IsInsideParentBlockOnce(lines, n, parents) ==
  LET parent == SelectLastInSubSeq(lines, 1, n - 1, LAMBDA line : line.key = Last(parents).name)
  IN  parent # 0

(* The last line before n that starts with the parent's name opens a block, *)
(* and on no line up to n are all of its brackets closed.                   *)
IsInsideParentBlock(lines, n, parents) ==
  LET parent  == SelectLastInSubSeq(lines, 1, n - 1, LAMBDA line : line.key = Last(parents).name)
      Open(j) == \/ Depth(lines, parent, j, "lbrace", "rbrace") > 0
                 \/ Depth(lines, parent, j, "lbracket", "rbracket") > 0
  IN  parent # 0 /\ \A j \in (parent + 1 .. n - 1) \cup {n - 1} : Open(j)

-----------------------------------------------------------------------------
(* Elements of arrays                                                      *)

(* The lines of an element, as first and last; <<0, 0>> is none.            *)
NoRange == <<0, 0>>

(* The walk over the brackets from an array's own on: its elements are the  *)
(* braces that are not in other braces.                                     *)
Walk(walk, bracket, line) ==
  IF walk.ended THEN walk
  ELSE
  CASE bracket = "rbracket" /\ walk.depth = 0 -> [walk EXCEPT !.ended = TRUE]
    [] bracket = "lbrace" ->
         [walk EXCEPT !.depth = @ + 1,
                      !.element = IF walk.depth = 0 THEN @ + 1 ELSE @,
                      !.start = IF walk.depth = 0 /\ walk.element + 1 = walk.wanted
                                THEN line ELSE @]
    [] bracket = "rbrace" ->
         IF walk.depth = 1 /\ walk.start # 0
         THEN [walk EXCEPT !.ended = TRUE, !.range = <<walk.start, line>>]
         ELSE [walk EXCEPT !.depth = @ - 1]
    [] OTHER -> walk

WalkLine(walk, lines, n) ==
  FoldLeft(LAMBDA w, bracket : Walk(w, bracket, n), walk, lines[n].brackets)

(* What the walk for an element knows after all lines.                      *)
Walked(lines, from, index) ==
  LET walk[i \in 0 .. Len(lines)] ==
        IF i < from
        THEN [depth |-> 0, element |-> -1, wanted |-> index, start |-> 0,
              range |-> NoRange, ended |-> FALSE]
        ELSE WalkLine(walk[i - 1], lines, i)
  IN  walk[Len(lines)]

(* The first array of the name, from a line on; its bracket is on its line  *)
(* or one of the next two.                                                  *)
FindArrayElementRange(lines, name, index, from) ==
  LET array   == SelectInSubSeq(lines, from, Len(lines), LAMBDA line : line.key = name)
      bracket == SelectInSubSeq(lines, array, Min({array + 2, Len(lines)}),
                                LAMBDA line : Count(line, "lbracket") > 0)
  IN  IF array = 0 \/ bracket = 0 THEN NoRange ELSE Walked(lines, bracket, index).range

(* Each array is looked for from the start of the resource's block on. *)
IsInsideArrayElement(lines, n, indices, ranges) ==
  LET start == {r[1] : r \in {q \in ranges : Within(n, q)}}
  IN  \A i \in DOMAIN indices :
        Within(n, FindArrayElementRange(lines, indices[i].name, indices[i].index,
                                        IF start = {} THEN 1 ELSE Min(start)))

-----------------------------------------------------------------------------
(* The definition                                                          *)

(* The lines of the directory, as pairs of a file and a line, that have the *)
(* term, outside of comments, in a block of the resource type if there is one. *)
Matches(dir, term, type) ==
  {at \in UNION {{f} \X DOMAIN dir[f] : f \in DOMAIN dir} :
     LET line == dir[at[1]][at[2]]
     IN  /\ term \in line.words /\ ~line.comment
         /\ type # NoName =>
              \E r \in FindResourceBlockRange(dir[at[1]], type) : Within(at[2], r)}

(* A path with parents or indices has a context, and a match in it is one   *)
(* inside the nearest parent's block and the elements that are named.       *)
InContext(dir, at, terms, type) ==
  LET lines == dir[at[1]]
  IN  /\ terms.parents # <<>> \/ terms.indices # <<>>
      /\ terms.parents # <<>> => IsInsideParentBlock(lines, at[2], terms.parents)
      /\ IsInsideArrayElement(lines, at[2], terms.indices, FindResourceBlockRange(lines, type))

(* The status and the lines it rests on.  Without a match in its context, a *)
(* path with parents is not defined, whatever else matches.                 *)
FindBicepDefinition(dir, path, type) ==
  LET terms     == ExtractSearchTerms(path)
      matches   == Matches(dir, terms.term, type)
      inContext == {at \in matches : InContext(dir, at, terms, type)}
      found     == IF inContext # {} THEN inContext
                   ELSE IF terms.parents # <<>> THEN {} ELSE matches
  IN  [status |-> CASE dir # <<>> /\ found = {} -> "notDefined"
                    [] Cardinality(found) = 1 -> "defined"
                    [] OTHER -> "unknown",
       found  |-> found]
=============================================================================
