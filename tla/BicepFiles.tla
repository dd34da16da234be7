----------------------------- MODULE BicepFiles -----------------------------
(***************************************************************************)
(* The directories of Bicep files that the search of BicepSearch is made    *)
(* for: an author writes them line by line, and what the search answers is  *)
(* compared with the files' blocks.                                         *)
(***************************************************************************)
EXTENDS BicepSearch

CONSTANTS
  Types,         \* the types of the resources that are declared
  Objects,       \* the names whose values are objects, or not written out
  Arrays,        \* the names whose values are arrays of objects
  Leaves,        \* the names whose values are neither
  MaxLines       \* bound: lines of all files together

(* No name is both an array's and an object's, and the empty one is none.   *)
ASSUME NamesAssumption ==
  /\ Arrays \cap Objects = {}
  /\ NoName \notin Types \cup Objects \cup Arrays \cup Leaves
  /\ "properties" \notin Objects \cup Arrays \cup Leaves
ASSUME MaxLinesAssumption == MaxLines \in Nat

VARIABLE dir

Line(key, words, type, brackets) ==
  [key |-> key, words |-> words, type |-> type, comment |-> FALSE, brackets |-> brackets]

Resource(type)    == Line(NoName, {}, type, <<"lbrace">>)
Property(name, b) == Line(name, {name}, NoName, b)
Mention(name)     == Line("description", {"description", name}, NoName, <<>>)
Comment(name)     == [Line(NoName, {name}, NoName, <<>>) EXCEPT !.comment = TRUE]
Bracket(b)        == Line(NoName, {}, NoName, <<b>>)

-----------------------------------------------------------------------------
(* The blocks around a line, outermost first: what opened each, the names   *)
(* it has so far, and which element of an array it is.                      *)
Block(line, kind, element) ==
  [key |-> line.key, type |-> line.type, kind |-> kind, names |-> {},
   element |-> element, elements |-> 0]

AddName(blocks, name) ==
  IF blocks = <<>> \/ name = NoName THEN blocks
  ELSE [blocks EXCEPT ![Len(blocks)].names = @ \cup {name}]

AfterLine(blocks, line) ==
  LET named == AddName(blocks, line.key)
      element == line.brackets = <<"lbrace">> /\ blocks # <<>> /\ Last(blocks).kind = "lbracket"
  IN  CASE element ->
             Append([named EXCEPT ![Len(named)].elements = @ + 1],
                    Block(line, "lbrace", Last(named).elements))
        [] line.brackets \in {<<"lbrace">>, <<"lbracket">>} /\ ~element ->
             Append(named, Block(line, line.brackets[1], NoIndex))
        [] line.brackets \in {<<"rbrace">>, <<"rbracket">>} -> Front(named)
        [] OTHER -> named

BlocksAt(lines, n) ==
  LET blocks[k \in 0 .. Len(lines)] ==
        IF k = 0 THEN <<>> ELSE AfterLine(blocks[k - 1], lines[k])
  IN  blocks[n - 1]

-----------------------------------------------------------------------------
(* The author                                                              *)

Blocks  == BlocksAt(Last(dir), Len(Last(dir)) + 1)
Written == MapThenSumSet(LAMBDA f : Len(dir[f]), DOMAIN dir)

Init == dir = <<>>

(* There are enough lines left to close what is open. *)
Write(line) ==
  /\ Written + Len(AfterLine(Blocks, line)) < MaxLines
  /\ dir' = [dir EXCEPT ![Len(dir)] = Append(@, line)]

NewFile ==
  /\ dir # <<>> => Blocks = <<>> /\ Last(dir) # <<>>
  /\ Written < MaxLines
  /\ dir' = Append(dir, <<>>)

WriteResource ==
  /\ dir # <<>> /\ Blocks = <<>>
  /\ \E type \in Types : Write(Resource(type))

InObject == dir # <<>> /\ Blocks # <<>> /\ Last(Blocks).kind = "lbrace"

(* A name is given once in an object. *)
WriteProperty ==
  /\ InObject
  /\ \E line \in {Property(name, <<"lbrace">>) : name \in Objects}
            \cup {Property(name, <<"lbracket">>) : name \in Arrays}
            \cup {Property(name, <<>>) : name \in Objects \cup Leaves} :
       line.key \notin Last(Blocks).names /\ Write(line)

(* One line of another kind is enough. *)
WriteOther ==
  /\ InObject
  /\ \A f \in DOMAIN dir : \A n \in DOMAIN dir[f] :
       ~dir[f][n].comment /\ dir[f][n].key # "description"
  /\ \E name \in Leaves : Write(Comment(name)) \/ Write(Mention(name))

WriteElement ==
  /\ dir # <<>> /\ Blocks # <<>> /\ Last(Blocks).kind = "lbracket"
  /\ Write(Bracket("lbrace"))

Close ==
  /\ dir # <<>> /\ Blocks # <<>>
  /\ Write(Bracket(IF Last(Blocks).kind = "lbrace" THEN "rbrace" ELSE "rbracket"))

(* The files are complete. *)
Rest ==
  /\ dir # <<>> /\ Blocks = <<>>
  /\ UNCHANGED dir

Next == NewFile \/ WriteResource \/ WriteProperty \/ WriteOther \/ WriteElement \/ Close \/ Rest

Spec == Init /\ [][Next]_dir

-----------------------------------------------------------------------------
(* What the search is asked for: a name, by itself, in an object, or in an  *)
(* element of an array, which may be in an object.                          *)
Step(name, index) == [name |-> name, index |-> index]

Paths ==
  {<<Step(x, NoIndex)>> : x \in Leaves}
  \cup {<<Step("properties", NoIndex), Step(o, NoIndex), Step(x, NoIndex)>> :
          o \in Objects, x \in Leaves}
  \cup {<<Step(a, i), Step(x, NoIndex)>> : a \in Arrays, i \in 0 .. 1, x \in Leaves}
  \cup {<<Step(o, NoIndex), Step(a, 0), Step(x, NoIndex)>> :
          o \in Objects, a \in Arrays, x \in Leaves}

(* A line is where the path leads: its term is there, in a resource of the  *)
(* type, inside the nearest parent and in the elements the path names.      *)
Leads(lines, n, path, type) ==
  LET terms  == ExtractSearchTerms(path)
      blocks == BlocksAt(lines, n)
  IN  /\ lines[n].key = terms.term
      /\ type # NoName => \E b \in DOMAIN blocks : blocks[b].type = type
      /\ terms.parents # <<>> =>
           \E b \in DOMAIN blocks : blocks[b].key = Last(terms.parents).name
      /\ \A i \in DOMAIN terms.indices : \E b \in DOMAIN blocks :
           /\ blocks[b].key = terms.indices[i].name
           /\ b < Len(blocks) /\ blocks[b + 1].element = terms.indices[i].index

(* The limits of the search, which is by line: the term does not occur but  *)
(* as a name; the value of a parent is written out wherever its name is     *)
(* given; a name is not inside itself; and an array's name is given once in *)
(* a file, or once in a resource if the type is asked for.                  *)
Plain(lines, path, type) ==
  LET terms == ExtractSearchTerms(path)
      Given(name) == {n \in DOMAIN lines : lines[n].key = name}
      In(n) == {r \in FindResourceBlockRange(lines, type) : Within(n, r)}
  IN  /\ \A n \in DOMAIN lines :
           terms.term \in lines[n].words => lines[n].key = terms.term \/ lines[n].comment
      /\ terms.parents # <<>> => \A n \in Given(Last(terms.parents).name) :
           /\ lines[n].brackets # <<>>
           /\ \A b \in DOMAIN BlocksAt(lines, n) : BlocksAt(lines, n)[b].key # lines[n].key
      /\ \A i \in DOMAIN terms.indices : \A n, m \in Given(terms.indices[i].name) :
           n # m => type # NoName /\ In(n) # In(m)

(* In files that are complete and plain, a property is said to be defined   *)
(* at a line if that line, and no other, is where its path leads to; and    *)
(* not to be defined if none is (find_bicep_definition with its tracking of *)
(* brackets in is_inside_parent_block and find_array_element_range).        *)
SearchIsExact ==
  (dir # <<>> /\ Blocks = <<>>) =>
    \A path \in Paths, type \in Types \cup {NoName} :
      (\A f \in DOMAIN dir : Plain(dir[f], path, type)) =>
        LET answer == FindBicepDefinition(dir, path, type)
            places == UNION {{<<f, n>> : n \in {k \in DOMAIN dir[f] : Leads(dir[f], k, path, type)}} :
                               f \in DOMAIN dir}
        IN  /\ answer.status = "defined" <=> Cardinality(places) = 1
            /\ answer.status = "defined" => answer.found = places
            /\ answer.status = "notDefined" <=> places = {}
=============================================================================
