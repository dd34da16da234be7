------------------------- MODULE BicepSearchProofs -------------------------
(***************************************************************************)
(* SearchIsExact, for any number of files of any length, any types and      *)
(* names. The search counts brackets line by line; the reference keeps the  *)
(* blocks that are open.  The proof relates the two: a line is in a block   *)
(* from the line that opens it to the line that closes it (Nesting), the    *)
(* depth counted from there is the number of blocks above it (Depth), so    *)
(* that the parents found are the blocks around the line (Parents); the     *)
(* walk over an array knows how many elements have begun and whether it is  *)
(* in the one it looks for (Arrays), and a resource ends where its block    *)
(* does (Resources).  What is left is what the terms of a path are (Terms), *)
(* and that the author's files are of the shape all this rests on (The      *)
(* author).                                                                 *)
(***************************************************************************)
EXTENDS BicepFiles, FiniteSetTheorems, SequenceTheorems, WellFoundedInduction, TLAPS

-----------------------------------------------------------------------------
(* Induction and recursion                                                  *)

(* An element that is missing from the set would have a least one, whose    *)
(* predecessor is not missing.                                              *)
LEMMA IntervalInduction ==
  ASSUME NEW a \in Int, NEW b \in Int, NEW S, a \in S,
         \A k \in a .. b - 1 : k \in S => k + 1 \in S
  PROVE  a .. b \subseteq S
<1> DEFINE T == {d \in Nat : a + d \in (a .. b) \ S}
           R == OpToRel(<, Nat)
<1> SUFFICES ASSUME NEW k \in a .. b, k \notin S PROVE FALSE
  OBVIOUS
<1>1. k - a \in T
  <2>1. k - a \in Nat /\ a + (k - a) = k
    OBVIOUS
  <2>2. QED BY <2>1
<1>2. IsWellFoundedOn(R, Nat)
  BY NatLessThanWellFounded
<1>3. \A x, y \in Nat : x < y => <<x, y>> \in R
  BY DEF OpToRel
<1> HIDE DEF R
<1>4. PICK x \in T : \A y \in T : ~ (<<y, x>> \in R)
  BY <1>1, <1>2, WFMin
<1>5. x \in Nat \ {0} /\ x - 1 \in Nat
  OBVIOUS
<1>6. a + (x - 1) \in a .. b - 1 /\ (a + (x - 1)) + 1 = a + x
  BY <1>5
<1>7. a + (x - 1) \in S
  <2>1. <<x - 1, x>> \in R
    BY <1>3, <1>5
  <2>2. x - 1 \notin T
    BY <2>1, <1>4
  <2>3. QED BY <2>2, <1>5, <1>6
<1>8. QED BY <1>6, <1>7

(* A function may be defined step by step.                                  *)
IsStep(step, n, V) == step \in [V \X (1 .. n) -> V]

IsRun(g, step, n, V, v) ==
  g \in [0 .. n -> V] /\ g[0] = v /\ \A j \in 1 .. n : g[j] = step[<<g[j - 1], j>>]

LEMMA Recursion ==
  ASSUME NEW n \in Nat, NEW V, NEW v \in V, NEW step, IsStep(step, n, V)
  PROVE  \E g : IsRun(g, step, n, V, v)
<1> USE DEF IsStep
<1> DEFINE Run(g, m) == g[0] = v /\ \A j \in 1 .. m : g[j] = step[<<g[j - 1], j>>]
           S == {m \in Nat : m <= n => \E g \in [0 .. m -> V] : Run(g, m)}
<1>1. 0 \in S
  <2> DEFINE g == [j \in 0 .. 0 |-> v]
  <2>1. g \in [0 .. 0 -> V] /\ Run(g, 0)
    OBVIOUS
  <2>2. QED BY <2>1
<1>2. ASSUME NEW m \in 0 .. n - 1, m \in S PROVE m + 1 \in S
  <2>1. PICK g \in [0 .. m -> V] : Run(g, m)
    BY <1>2
  <2> DEFINE h == [j \in 0 .. m + 1 |-> IF j = m + 1 THEN step[<<g[m], m + 1>>] ELSE g[j]]
  <2>2. h \in [0 .. m + 1 -> V]
    <3>1. <<g[m], m + 1>> \in V \X (1 .. n)
      OBVIOUS
    <3>2. step[<<g[m], m + 1>>] \in V
      BY <3>1
    <3>3. QED BY <3>2
  <2>3. h[0] = v
    BY <2>1
  <2>4. ASSUME NEW j \in 1 .. m + 1 PROVE h[j] = step[<<h[j - 1], j>>]
    <3>1. j - 1 \in 0 .. m /\ h[j - 1] = g[j - 1]
      OBVIOUS
    <3>2. CASE j = m + 1
      <4>1. h[j] = step[<<g[j - 1], j>>]
        BY <3>2
      <4>2. QED BY <3>1, <4>1
    <3>3. CASE j # m + 1
      <4>1. j \in 1 .. m /\ h[j] = g[j]
        BY <3>3
      <4>2. QED BY <2>1, <3>1, <4>1
    <3>4. QED BY <3>2, <3>3
  <2> HIDE DEF h
  <2>5. QED BY <2>2, <2>3, <2>4
<1> HIDE DEF S
<1>3. n \in S
  <2>1. 0 .. n \subseteq S
    BY <1>1, <1>2, IntervalInduction
  <2>2. QED BY <2>1
<1>4. QED BY <1>3 DEF S, IsRun

-----------------------------------------------------------------------------
(* Lines and blocks                                                         *)

Keys == Objects \cup Arrays \cup Leaves \cup {"description", NoName}

InAnObject ==
  {Property(name, <<"lbrace">>) : name \in Objects}
  \cup {Property(name, <<"lbracket">>) : name \in Arrays}
  \cup {Property(name, <<>>) : name \in Objects \cup Leaves}
  \cup {Comment(name) : name \in Leaves} \cup {Mention(name) : name \in Leaves}
  \cup {Bracket("rbrace")}

InAnArray == {Bracket("lbrace"), Bracket("rbracket")}

Lines == {Resource(type) : type \in Types} \cup InAnObject \cup InAnArray

ABlock ==
  [key : Keys, type : Types \cup {NoName}, kind : {"lbrace", "lbracket"}, names : SUBSET Keys,
   element : Int, elements : Nat]

Stacks == Seq(ABlock)

Opening(line) == line.brackets \in {<<"lbrace">>, <<"lbracket">>}
Closing(line) == line.brackets \in {<<"rbrace">>, <<"rbracket">>}

LEMMA LineShape ==
  ASSUME NEW line \in Lines
  PROVE  /\ line.key \in Keys /\ line.type \in Types \cup {NoName}
         /\ line.brackets = <<>> \/ Opening(line) \/ Closing(line)
         /\ ~Opening(line) \/ ~Closing(line)
         /\ Opening(line) => line.brackets # <<>> /\ line.brackets = <<line.brackets[1]>>
         /\ Opening(line) => line.brackets[1] \in {"lbrace", "lbracket"}
         /\ line.brackets = <<>> => ~Opening(line) /\ ~Closing(line)
<1> DEFINE P(l) ==
             /\ l.key \in Keys /\ l.type \in Types \cup {NoName}
             /\ l.brackets = <<>> \/ Opening(l) \/ Closing(l)
             /\ ~Opening(l) \/ ~Closing(l)
             /\ Opening(l) => l.brackets # <<>> /\ l.brackets = <<l.brackets[1]>>
             /\ Opening(l) => l.brackets[1] \in {"lbrace", "lbracket"}
             /\ l.brackets = <<>> => ~Opening(l) /\ ~Closing(l)
<1>1. \A l : l.brackets \in {<<>>, <<"lbrace">>, <<"lbracket">>, <<"rbrace">>, <<"rbracket">>}
              /\ l.key \in Keys /\ l.type \in Types \cup {NoName} => P(l)
  BY DEF Opening, Closing
<1>2. \A type \in Types : P(Resource(type))
  <2>1. QED BY <1>1 DEF Resource, Line, Keys
<1>3. \A name \in Objects : P(Property(name, <<"lbrace">>)) /\ P(Property(name, <<>>))
  <2>1. QED BY <1>1 DEF Property, Line, Keys
<1>4. \A name \in Arrays : P(Property(name, <<"lbracket">>))
  <2>1. QED BY <1>1 DEF Property, Line, Keys
<1>5. \A name \in Leaves : P(Property(name, <<>>)) /\ P(Mention(name))
  <2>1. QED BY <1>1 DEF Property, Mention, Line, Keys
<1>6. \A name \in Leaves : P(Comment(name))
  <2>1. \A name : /\ Comment(name).key = NoName /\ Comment(name).type = NoName
                  /\ Comment(name).brackets = <<>>
    BY DEF Comment, Line
  <2>2. QED BY <1>1, <2>1 DEF Keys
<1>7. /\ P(Bracket("lbrace")) /\ P(Bracket("rbrace")) /\ P(Bracket("rbracket"))
  <2>1. QED BY <1>1 DEF Bracket, Line, Keys
<1>8. P(line)
  <2> HIDE DEF P
  <2>1. CASE line \in {Resource(type) : type \in Types}
    BY <1>2, <2>1
  <2>2. CASE line \in InAnObject
    BY <1>3, <1>4, <1>5, <1>6, <1>7, <2>2 DEF InAnObject
  <2>3. CASE line \in InAnArray
    BY <1>7, <2>3 DEF InAnArray
  <2>4. QED BY <2>1, <2>2, <2>3 DEF Lines
<1>9. QED BY <1>8

(* What stays of a block while others are opened and closed.                *)
Alike(x, y) ==
  /\ x.key = y.key /\ x.type = y.type /\ x.kind = y.kind /\ x.element = y.element

LEMMA Named ==
  ASSUME NEW s \in Stacks, NEW name \in Keys
  PROVE  /\ AddName(s, name) \in Stacks /\ Len(AddName(s, name)) = Len(s)
         /\ \A p \in 1 .. Len(s) :
              /\ Alike(AddName(s, name)[p], s[p])
              /\ AddName(s, name)[p].elements = s[p].elements
<1>1. CASE s = <<>> \/ name = NoName
  BY <1>1 DEF AddName, Alike, Stacks
<1>2. CASE ~(s = <<>> \/ name = NoName)
  <2> DEFINE n == Len(s)
             x == [s[n] EXCEPT !.names = @ \cup {name}]
             t == AddName(s, name)
  <2>1. n \in Nat \ {0} /\ s \in [1 .. n -> ABlock]
    BY <1>2 DEF Stacks
  <2>2. x \in ABlock /\ Alike(x, s[n]) /\ x.elements = s[n].elements
    BY <2>1 DEF ABlock, Alike
  <2>3. t = [s EXCEPT ![n] = x]
    BY <1>2 DEF AddName
  <2> HIDE DEF n, x
  <2>4. /\ t \in [1 .. n -> ABlock]
        /\ \A p \in 1 .. n : t[p] = IF p = n THEN x ELSE s[p]
    BY <2>1, <2>2, <2>3
  <2> HIDE DEF t
  <2>5. t \in Stacks /\ Len(t) = n
    BY <2>1, <2>4 DEF Stacks
  <2>6. \A p \in 1 .. n : Alike(t[p], s[p]) /\ t[p].elements = s[p].elements
    BY <2>2, <2>4 DEF Alike
  <2>7. QED BY <2>5, <2>6 DEF t, n
<1>3. QED BY <1>1, <1>2

(* The three kinds of lines.                                                *)
LEMMA PlainLine ==
  ASSUME NEW s \in Stacks, NEW line \in Lines, line.brackets = <<>>
  PROVE  /\ AfterLine(s, line) \in Stacks /\ Len(AfterLine(s, line)) = Len(s)
         /\ \A p \in 1 .. Len(s) :
              /\ Alike(AfterLine(s, line)[p], s[p])
              /\ AfterLine(s, line)[p].elements = s[p].elements
<1>1. AfterLine(s, line) = AddName(s, line.key)
  BY DEF AfterLine
<1>2. QED BY <1>1, Named, LineShape

LEMMA ClosingLine ==
  ASSUME NEW s \in Stacks, NEW line \in Lines, Closing(line)
  PROVE  /\ AfterLine(s, line) \in Stacks
         /\ s # <<>> => /\ Len(AfterLine(s, line)) = Len(s) - 1
                        /\ \A p \in 1 .. Len(s) - 1 :
                             /\ Alike(AfterLine(s, line)[p], s[p])
                             /\ AfterLine(s, line)[p].elements = s[p].elements
<1> DEFINE t == AddName(s, line.key)
<1>1. AfterLine(s, line) = Front(t)
  BY DEF AfterLine, Closing
<1>2. /\ t \in Stacks /\ Len(t) = Len(s)
      /\ \A p \in 1 .. Len(s) : Alike(t[p], s[p]) /\ t[p].elements = s[p].elements
  BY Named, LineShape
<1> HIDE DEF t
<1>3. Front(t) \in Stacks
  BY <1>2 DEF Front, Stacks
<1>4. s # <<>> => /\ Len(Front(t)) = Len(s) - 1
                  /\ \A p \in 1 .. Len(s) - 1 : Front(t)[p] = t[p]
  BY <1>2 DEF Front, Stacks
<1>5. QED BY <1>1, <1>2, <1>3, <1>4

LEMMA OpeningLine ==
  ASSUME NEW s \in Stacks, NEW line \in Lines, Opening(line)
  PROVE  LET t == AfterLine(s, line)
             n == Len(s)
             element == s # <<>> /\ s[n].kind = "lbracket" /\ line.brackets = <<"lbrace">>
         IN  /\ t \in Stacks /\ Len(t) = n + 1
             /\ t[n + 1].key = line.key /\ t[n + 1].type = line.type
             /\ t[n + 1].kind = line.brackets[1] /\ t[n + 1].elements = 0
             /\ element => t[n + 1].element = s[n].elements
             /\ \A p \in 1 .. n : Alike(t[p], s[p])
             /\ \A p \in 1 .. n : t[p].elements =
                  IF element /\ p = n THEN s[p].elements + 1 ELSE s[p].elements
<1> DEFINE n == Len(s)
           named == AddName(s, line.key)
           element == line.brackets = <<"lbrace">> /\ s # <<>> /\ Last(s).kind = "lbracket"
           t == AfterLine(s, line)
<1>1. n \in Nat /\ (s # <<>> => n # 0 /\ Last(s) = s[n])
  BY DEF Stacks, Last
<1>2. /\ named \in Stacks /\ Len(named) = n
      /\ \A p \in 1 .. n : Alike(named[p], s[p]) /\ named[p].elements = s[p].elements
  BY Named, LineShape
<1>3. /\ line.key \in Keys /\ line.type \in Types \cup {NoName}
      /\ line.brackets[1] \in {"lbrace", "lbracket"}
  BY LineShape
<1> HIDE DEF named
<1>4. CASE element
  <2> DEFINE x == [named[n] EXCEPT !.elements = @ + 1]
             m == [named EXCEPT ![n] = x]
             y == Block(line, "lbrace", s[n].elements)
  <2>0. n \in 1 .. n /\ named[n] \in ABlock /\ s[n].elements \in Nat
    <3>1. n \in 1 .. n /\ s \in [1 .. n -> ABlock] /\ named \in [1 .. n -> ABlock]
      BY <1>1, <1>2, <1>4 DEF Stacks
    <3>2. s[n] \in ABlock /\ named[n] \in ABlock
      BY <3>1
    <3>3. QED BY <3>1, <3>2 DEF ABlock
  <2>1. x \in ABlock /\ Alike(x, s[n]) /\ x.elements = s[n].elements + 1
    BY <1>2, <2>0 DEF ABlock, Alike
  <2>2. y \in ABlock
    BY <1>3, <2>0 DEF Block, ABlock
  <2>3. t = Append(m, y)
    <3>1. Last(named) = named[n]
      BY <1>2 DEF Last
    <3>2. named[n].elements = s[n].elements
      BY <1>2, <2>0
    <3>3. t = Append([named EXCEPT ![Len(named)].elements = @ + 1],
                     Block(line, "lbrace", Last(named).elements))
      BY <1>4 DEF AfterLine, named
    <3>4. QED BY <1>2, <3>1, <3>2, <3>3
  <2> HIDE DEF x, y
  <2>4. m \in Stacks /\ Len(m) = n /\ \A p \in 1 .. n : m[p] = IF p = n THEN x ELSE named[p]
    BY <1>2, <2>0, <2>1 DEF Stacks
  <2> HIDE DEF m
  <2>5. t \in Stacks /\ Len(t) = n + 1 /\ t[n + 1] = y /\ \A p \in 1 .. n : t[p] = m[p]
    BY <2>2, <2>3, <2>4 DEF Stacks
  <2>6. /\ y.key = line.key /\ y.type = line.type /\ y.kind = "lbrace"
        /\ y.element = s[n].elements /\ y.elements = 0
    BY DEF y, Block
  <2>7. \A p \in 1 .. n : /\ Alike(t[p], s[p])
                          /\ t[p].elements = IF p = n THEN s[p].elements + 1 ELSE s[p].elements
    BY <1>2, <2>1, <2>4, <2>5
  <2>8. s # <<>> /\ s[n].kind = "lbracket" /\ line.brackets = <<"lbrace">> /\ line.brackets[1] = "lbrace"
    BY <1>1, <1>4
  <2> HIDE DEF t, n
  <2>9. QED BY <2>5, <2>6, <2>7, <2>8 DEF t, n
<1>5. CASE ~element
  <2> DEFINE y == Block(line, line.brackets[1], NoIndex)
  <2>1. t = Append(named, y)
    BY <1>5 DEF AfterLine, named, Opening
  <2>2. y \in ABlock
    BY <1>3 DEF Block, ABlock, NoIndex
  <2>3. /\ y.key = line.key /\ y.type = line.type /\ y.kind = line.brackets[1]
        /\ y.elements = 0
    BY DEF Block
  <2> HIDE DEF y
  <2>4. t \in Stacks /\ Len(t) = n + 1 /\ t[n + 1] = y /\ \A p \in 1 .. n : t[p] = named[p]
    BY <1>2, <2>1, <2>2 DEF Stacks
  <2>5. ~(s # <<>> /\ s[n].kind = "lbracket" /\ line.brackets = <<"lbrace">>)
    BY <1>1, <1>5
  <2> HIDE DEF t, n
  <2>6. QED BY <1>2, <2>3, <2>4, <2>5 DEF t, n
<1>6. QED BY <1>4, <1>5

-----------------------------------------------------------------------------
(* Files                                                                    *)

(* The blocks around each line, and behind the last.                        *)
Opened(B, lines) ==
  /\ B \in [1 .. Len(lines) + 1 -> Stacks]
  /\ B[1] = <<>>
  /\ \A n \in 1 .. Len(lines) : B[n + 1] = AfterLine(B[n], lines[n])

LEMMA BlocksAreOpened ==
  ASSUME NEW lines \in Seq(Lines)
  PROVE  Opened([n \in 1 .. Len(lines) + 1 |-> BlocksAt(lines, n)], lines)
<1> DEFINE m == Len(lines)
           Is(g) == g = [k \in 0 .. m |-> IF k = 0 THEN <<>> ELSE AfterLine(g[k - 1], lines[k])]
           step == [q \in Stacks \X (1 .. m) |-> AfterLine(q[1], lines[q[2]])]
<1>1. m \in Nat /\ \A k \in 1 .. m : lines[k] \in Lines
  OBVIOUS
<1>2. ASSUME NEW s \in Stacks, NEW k \in 1 .. m PROVE AfterLine(s, lines[k]) \in Stacks
  BY <1>1, PlainLine, OpeningLine, ClosingLine, LineShape
<1>3. step \in [Stacks \X (1 .. m) -> Stacks]
  BY <1>2
<1>4. <<>> \in Stacks
  BY DEF Stacks
<1>5. PICK g \in [0 .. m -> Stacks] :
        g[0] = <<>> /\ \A j \in 1 .. m : g[j] = step[<<g[j - 1], j>>]
  <2>1. IsStep(step, m, Stacks)
    BY <1>3 DEF IsStep
  <2> HIDE DEF step, m
  <2>2. PICK g : IsRun(g, step, m, Stacks, <<>>)
    BY <1>1, <1>4, <2>1, Recursion
  <2>3. QED BY <2>2 DEF IsRun
<1>6. ASSUME NEW j \in 1 .. m PROVE g[j] = AfterLine(g[j - 1], lines[j])
  <2>1. <<g[j - 1], j>> \in Stacks \X (1 .. m)
    BY <1>1
  <2>2. step[<<g[j - 1], j>>] = AfterLine(g[j - 1], lines[j])
    BY <2>1
  <2>3. QED BY <1>5, <2>2
<1>7. Is(g)
  <2>1. g = [k \in 0 .. m |-> g[k]]
    BY <1>5
  <2>2. \A k \in 0 .. m : g[k] = IF k = 0 THEN <<>> ELSE AfterLine(g[k - 1], lines[k])
    BY <1>5, <1>6
  <2>3. QED BY <2>1, <2>2
<1> DEFINE c == CHOOSE h : Is(h)
<1>8. Is(c)
  <2> HIDE DEF Is
  <2>1. QED BY <1>7
<1>9. \A n : BlocksAt(lines, n) = c[n - 1]
  BY Zenon DEF BlocksAt
<1> HIDE DEF c
<1>10. c[0] = <<>> /\ \A k \in 1 .. m : c[k] = AfterLine(c[k - 1], lines[k])
  BY <1>1, <1>8
<1>11. ASSUME NEW k \in 0 .. m PROVE c[k] \in Stacks
  <2> DEFINE S == {j \in 0 .. m : c[j] \in Stacks}
  <2>1. 0 \in S
    BY <1>1, <1>4, <1>10
  <2>2. \A j \in 0 .. m - 1 : j \in S => j + 1 \in S
    <3> TAKE j \in 0 .. m - 1
    <3>1. j + 1 \in 1 .. m /\ (j + 1) - 1 = j
      BY <1>1
    <3>2. QED BY <1>2, <1>10, <3>1
  <2> HIDE DEF S, m
  <2>3. 0 .. m \subseteq S
    <3>1. 0 \in Int /\ m \in Int
      BY <1>1
    <3>2. QED BY ONLY <2>1, <2>2, <3>1, IntervalInduction
  <2>4. QED BY <2>3 DEF S
<1> DEFINE B == [n \in 1 .. m + 1 |-> BlocksAt(lines, n)]
<1>12. \A n \in 1 .. m + 1 : B[n] = c[n - 1] /\ n - 1 \in 0 .. m
  BY <1>1, <1>9
<1>13. B \in [1 .. m + 1 -> Stacks]
  BY <1>9, <1>11, <1>1
<1>14. B[1] = <<>>
  BY <1>1, <1>10, <1>12
<1>15. ASSUME NEW n \in 1 .. m PROVE B[n + 1] = AfterLine(B[n], lines[n])
  <2>1. n + 1 \in 1 .. m + 1 /\ n \in 1 .. m + 1 /\ (n + 1) - 1 = n
    BY <1>1
  <2>2. B[n + 1] = c[n] /\ B[n] = c[n - 1]
    BY <1>12, <2>1
  <2> HIDE DEF B
  <2>3. QED BY <1>10, <2>2
<1>16. QED BY <1>13, <1>14, <1>15 DEF Opened

LEMMA OpenedOnce ==
  ASSUME NEW lines \in Seq(Lines), NEW more \in Seq(Lines), NEW B, NEW C,
         Opened(B, lines), Opened(C, more), Len(lines) <= Len(more),
         \A k \in 1 .. Len(lines) : lines[k] = more[k]
  PROVE  \A n \in 1 .. Len(lines) + 1 : B[n] = C[n]
<1> DEFINE S == {n \in 1 .. Len(lines) + 1 : B[n] = C[n]}
           m == Len(lines)
<1>1. m \in Nat /\ 1 \in S
  BY DEF Opened
<1>2. \A n \in 1 .. (m + 1) - 1 : n \in S => n + 1 \in S
  <2> TAKE n \in 1 .. (m + 1) - 1
  <2>1. n \in 1 .. Len(lines) /\ n \in 1 .. Len(more) /\ n + 1 \in 1 .. m + 1
    OBVIOUS
  <2>2. /\ B[n + 1] = AfterLine(B[n], lines[n])
        /\ C[n + 1] = AfterLine(C[n], more[n])
    BY <2>1 DEF Opened
  <2>3. QED BY <2>1, <2>2
<1> HIDE DEF S, m
<1>3. 1 .. m + 1 \subseteq S
  BY <1>1, <1>2, IntervalInduction
<1>4. QED BY <1>3 DEF S, m

LEMMA BlocksStay ==
  ASSUME NEW lines \in Seq(Lines), NEW line \in Lines
  PROVE  /\ \A n \in 1 .. Len(lines) + 1 : BlocksAt(Append(lines, line), n) = BlocksAt(lines, n)
         /\ BlocksAt(Append(lines, line), Len(lines) + 2) =
              AfterLine(BlocksAt(lines, Len(lines) + 1), line)
         /\ BlocksAt(<<>>, 1) = <<>>
<1> DEFINE m == Len(lines)
           more == Append(lines, line)
           B == [n \in 1 .. m + 1 |-> BlocksAt(lines, n)]
           C == [n \in 1 .. Len(more) + 1 |-> BlocksAt(more, n)]
<1>1. /\ m \in Nat /\ more \in Seq(Lines) /\ Len(more) = m + 1 /\ more[m + 1] = line
      /\ \A k \in 1 .. m : lines[k] = more[k]
  OBVIOUS
<1>2. Opened(B, lines) /\ Opened(C, more)
  <2> HIDE DEF more
  <2>1. QED BY <1>1, BlocksAreOpened
<1> HIDE DEF more
<1>3. \A n \in 1 .. m + 1 : B[n] = BlocksAt(lines, n) /\ C[n] = BlocksAt(more, n)
  BY <1>1
<1>4. C[m + 2] = BlocksAt(more, m + 2)
  BY <1>1
<1> HIDE DEF B, C
<1>5. \A n \in 1 .. m + 1 : B[n] = C[n]
  BY <1>1, <1>2, OpenedOnce
<1>6. C[m + 2] = AfterLine(C[m + 1], line)
  <2>1. m + 1 \in 1 .. Len(more) /\ (m + 1) + 1 = m + 2
    BY <1>1
  <2>2. C[(m + 1) + 1] = AfterLine(C[m + 1], more[m + 1])
    BY <1>2, <2>1 DEF Opened
  <2>3. QED BY <1>1, <2>1, <2>2
<1>7. m + 1 \in 1 .. m + 1
  BY <1>1
<1>8. BlocksAt(<<>>, 1) = <<>>
  <2> DEFINE D == [n \in 1 .. Len(<<>>) + 1 |-> BlocksAt(<<>>, n)]
  <2>1. Opened(D, <<>>)
    <3>1. <<>> \in Seq(Lines)
      OBVIOUS
    <3>2. QED BY <3>1, BlocksAreOpened, Zenon
  <2>2. D[1] = BlocksAt(<<>>, 1)
    OBVIOUS
  <2>3. QED BY <2>1, <2>2 DEF Opened
<1>9. QED BY <1>3, <1>4, <1>5, <1>6, <1>7, <1>8 DEF more

(* What may be written at a place.                                          *)
Allowed(s, line) ==
  /\ s = <<>> => line \in {Resource(type) : type \in Types}
  /\ s # <<>> /\ s[Len(s)].kind = "lbrace" => line \in InAnObject
  /\ s # <<>> /\ s[Len(s)].kind = "lbracket" => line \in InAnArray

WellFormed(B, lines) ==
  /\ lines \in Seq(Lines)
  /\ Opened(B, lines)
  /\ \A n \in 1 .. Len(lines) : Allowed(B[n], lines[n])

LEMMA AllowedBrackets ==
  ASSUME NEW s \in Stacks, NEW line \in Lines, Allowed(s, line)
  PROVE  /\ Closing(line) => /\ s # <<>>
                             /\ s[Len(s)].kind = "lbrace" <=> line.brackets = <<"rbrace">>
                             /\ s[Len(s)].kind = "lbracket" <=> line.brackets = <<"rbracket">>
         /\ line.type # NoName <=> s = <<>>
         /\ s = <<>> => line.brackets = <<"lbrace">> /\ line.key = NoName
         /\ s # <<>> /\ s[Len(s)].kind = "lbracket" => line.brackets \in {<<"lbrace">>, <<"rbracket">>}
<1>1. CASE s = <<>>
  <2>1. PICK type \in Types : line = Resource(type)
    BY <1>1 DEF Allowed
  <2>2. line.brackets = <<"lbrace">> /\ line.key = NoName /\ line.type = type
    BY <2>1 DEF Resource, Line
  <2>3. QED BY <1>1, <2>2, NamesAssumption DEF Closing
<1>2. CASE s # <<>>
  <2>1. Len(s) \in 1 .. Len(s) /\ s[Len(s)] \in ABlock
    BY <1>2 DEF Stacks
  <2>2. s[Len(s)].kind \in {"lbrace", "lbracket"}
    BY <2>1 DEF ABlock
  <2>3. CASE s[Len(s)].kind = "lbrace"
    <3> DEFINE P(l) == l.type = NoName /\ (Closing(l) => l.brackets = <<"rbrace">>)
    <3>1. \A l : l.type = NoName /\ l.brackets # <<"rbracket">> => P(l)
      BY DEF Closing
    <3>2. \A name : /\ P(Property(name, <<"lbrace">>)) /\ P(Property(name, <<"lbracket">>))
                    /\ P(Property(name, <<>>)) /\ P(Mention(name))
      BY <3>1 DEF Property, Mention, Line
    <3>3. \A name : P(Comment(name))
      <4>1. \A name : Comment(name).type = NoName /\ Comment(name).brackets = <<>>
        BY DEF Comment, Line
      <4>2. QED BY <3>1, <4>1
    <3>4. P(Bracket("rbrace"))
      BY <3>1 DEF Bracket, Line
    <3>5. P(line)
      <4>1. line \in InAnObject
        BY <1>2, <2>3 DEF Allowed
      <4> HIDE DEF P
      <4>2. QED BY <3>2, <3>3, <3>4, <4>1 DEF InAnObject
    <3>6. QED BY <1>2, <2>3, <3>5
  <2>4. CASE s[Len(s)].kind = "lbracket"
    <3>1. line \in {Bracket("lbrace"), Bracket("rbracket")}
      BY <1>2, <2>4 DEF Allowed, InAnArray
    <3>2. line.type = NoName /\ line.brackets \in {<<"lbrace">>, <<"rbracket">>}
      BY <3>1 DEF Bracket, Line
    <3>3. QED BY <1>2, <2>4, <3>2 DEF Closing
  <2>5. QED BY <2>2, <2>3, <2>4
<1>3. QED BY <1>1, <1>2

(* How the blocks change from one line to the next.                         *)
Kept(B, n, top) ==
  \A p \in 1 .. top : Alike(B[n + 1][p], B[n][p])

LEMMA FileStep ==
  ASSUME NEW lines, NEW B, WellFormed(B, lines), NEW n \in 1 .. Len(lines)
  PROVE  /\ B[n] \in Stacks /\ B[n + 1] \in Stacks
         /\ Len(B[n]) \in Nat /\ Len(B[n + 1]) \in Nat
         /\ lines[n].brackets = <<>> =>
              /\ Len(B[n + 1]) = Len(B[n]) /\ Kept(B, n, Len(B[n]))
              /\ \A p \in 1 .. Len(B[n]) : B[n + 1][p].elements = B[n][p].elements
         /\ Opening(lines[n]) =>
              /\ Len(B[n + 1]) = Len(B[n]) + 1 /\ Kept(B, n, Len(B[n]))
              /\ B[n + 1][Len(B[n]) + 1].key = lines[n].key
              /\ B[n + 1][Len(B[n]) + 1].type = lines[n].type
              /\ B[n + 1][Len(B[n]) + 1].kind = lines[n].brackets[1]
              /\ B[n + 1][Len(B[n]) + 1].elements = 0
         /\ Closing(lines[n]) =>
              /\ Len(B[n]) > 0 /\ Len(B[n + 1]) = Len(B[n]) - 1
              /\ Kept(B, n, Len(B[n]) - 1)
              /\ \A p \in 1 .. Len(B[n]) - 1 : B[n + 1][p].elements = B[n][p].elements
<1>1. /\ lines[n] \in Lines /\ n \in 1 .. Len(lines) + 1 /\ n + 1 \in 1 .. Len(lines) + 1
  BY DEF WellFormed
<1>2. B[n] \in Stacks /\ B[n + 1] \in Stacks /\ B[n + 1] = AfterLine(B[n], lines[n])
  BY <1>1 DEF WellFormed, Opened
<1>3. Len(B[n]) \in Nat /\ Len(B[n + 1]) \in Nat
  BY <1>2 DEF Stacks
<1>4. CASE lines[n].brackets = <<>>
  <2>1. ~Opening(lines[n]) /\ ~Closing(lines[n])
    BY <1>1, <1>4, LineShape
  <2>2. /\ Len(AfterLine(B[n], lines[n])) = Len(B[n])
        /\ \A p \in 1 .. Len(B[n]) :
             /\ Alike(AfterLine(B[n], lines[n])[p], B[n][p])
             /\ AfterLine(B[n], lines[n])[p].elements = B[n][p].elements
    BY <1>1, <1>2, <1>4, PlainLine
  <2>3. QED BY <1>2, <1>3, <2>1, <2>2 DEF Kept
<1>5. CASE Opening(lines[n])
  BY <1>1, <1>2, <1>3, <1>5, OpeningLine, LineShape DEF Kept
<1>6. CASE Closing(lines[n])
  <2>1. B[n] # <<>>
    BY <1>1, <1>2, <1>6, AllowedBrackets DEF WellFormed
  <2>2. Len(B[n]) > 0
    BY <1>2, <1>3, <2>1 DEF Stacks
  <2>3. QED BY <1>1, <1>2, <1>3, <1>6, <2>1, <2>2, ClosingLine, LineShape DEF Kept
<1>7. QED BY <1>1, <1>2, <1>3, <1>4, <1>5, <1>6, LineShape

-----------------------------------------------------------------------------
(* Nesting                                                                  *)

(* A line is in the block that another opens if everything in between is.   *)
Inside(B, i, n) == i < n /\ \A k \in i + 1 .. n : Len(B[k]) > Len(B[i])

LEMMA InsideSteps ==
  ASSUME NEW lines, NEW B, WellFormed(B, lines),
         NEW i \in 1 .. Len(lines), NEW n \in i + 1 .. Len(lines)
  PROVE  /\ Inside(B, i, n + 1) <=> Inside(B, i, n) /\ Len(B[n + 1]) > Len(B[i])
         /\ Opening(lines[i]) => Inside(B, i, i + 1)
<1>1. Len(lines) \in Nat
  BY DEF WellFormed
<1>2. Opening(lines[i]) => Len(B[i + 1]) > Len(B[i])
  BY FileStep
<1>3. QED BY <1>1, <1>2 DEF Inside

(* The block a line opens stays on the stack until it is closed, and so do  *)
(* those around it.                                                         *)
LEMMA Stays ==
  ASSUME NEW lines, NEW B, WellFormed(B, lines),
         NEW i \in 1 .. Len(lines), Opening(lines[i]),
         NEW n \in i + 1 .. Len(lines) + 1, Inside(B, i, n)
  PROVE  \A p \in 1 .. Len(B[i]) + 1 : Alike(B[n][p], B[i + 1][p])
<1> DEFINE h == Len(B[i])
           S == {k \in i + 1 .. n : \A p \in 1 .. h + 1 : Alike(B[k][p], B[i + 1][p])}
<1>1. Len(lines) \in Nat /\ h \in Nat
  BY FileStep DEF WellFormed
<1>2. i + 1 \in S
  BY <1>1 DEF Alike
<1>3. ASSUME NEW k \in i + 1 .. n - 1, k \in S PROVE k + 1 \in S
  <2>1. k \in 1 .. Len(lines) /\ k + 1 \in i + 1 .. n /\ k \in i + 1 .. n
    BY <1>1
  <2>2. Len(B[k]) \in Nat /\ Len(B[k + 1]) \in Nat /\ Len(B[k]) > h /\ Len(B[k + 1]) > h
    BY <2>1, FileStep DEF Inside
  <2>3. Kept(B, k, Len(B[k])) \/ (Kept(B, k, Len(B[k]) - 1) /\ Len(B[k + 1]) = Len(B[k]) - 1)
    <3>1. lines[k] \in Lines
      BY <2>1 DEF WellFormed
    <3>2. QED BY <2>1, <3>1, FileStep, LineShape
  <2>4. \A p \in 1 .. h + 1 : Alike(B[k + 1][p], B[k][p])
    <3> HIDE DEF h
    <3>1. CASE Kept(B, k, Len(B[k]))
      <4>1. \A p \in 1 .. h + 1 : p \in 1 .. Len(B[k])
        BY <1>1, <2>2
      <4>2. QED BY <3>1, <4>1 DEF Kept
    <3>2. CASE Kept(B, k, Len(B[k]) - 1) /\ Len(B[k + 1]) = Len(B[k]) - 1
      <4>1. \A p \in 1 .. h + 1 : p \in 1 .. Len(B[k]) - 1
        BY <1>1, <2>2, <3>2
      <4>2. QED BY <3>2, <4>1 DEF Kept
    <3>3. QED BY <2>3, <3>1, <3>2
  <2>5. QED BY <1>3, <2>1, <2>4 DEF Alike
<1> HIDE DEF S
<1>4. i + 1 .. n \subseteq S
  <2>1. i + 1 \in Int /\ n \in Int
    BY <1>1
  <2>2. QED BY ONLY <1>2, <1>3, <2>1, IntervalInduction
<1>5. n \in S
  BY <1>1, <1>4
<1>6. QED BY <1>5 DEF S

LEMMA Encloses ==
  ASSUME NEW lines, NEW B, WellFormed(B, lines),
         NEW i \in 1 .. Len(lines), Opening(lines[i]),
         NEW n \in i + 1 .. Len(lines) + 1, Inside(B, i, n)
  PROVE  /\ Len(B[i]) + 1 \in 1 .. Len(B[n])
         /\ B[n][Len(B[i]) + 1].key = lines[i].key
         /\ B[n][Len(B[i]) + 1].type = lines[i].type
         /\ B[n][Len(B[i]) + 1].kind = lines[i].brackets[1]
<1> DEFINE h == Len(B[i])
<1>1. h \in Nat /\ Len(lines) \in Nat
  BY FileStep DEF WellFormed
<1>2. Alike(B[n][h + 1], B[i + 1][h + 1])
  BY <1>1, Stays
<1>3. Len(B[n]) \in Nat /\ Len(B[n]) > h
  <2>1. B[n] \in Stacks
    BY <1>1 DEF WellFormed, Opened
  <2>2. QED BY <2>1, <1>1 DEF Inside, Stacks
<1>4. QED BY <1>1, <1>2, <1>3, FileStep DEF Alike

(* Every block on the stack was opened by some line.                        *)
LEMMA HasOpener ==
  ASSUME NEW lines, NEW B, WellFormed(B, lines),
         NEW n \in 1 .. Len(lines) + 1, NEW p \in 1 .. Len(B[n])
  PROVE  \E i \in 1 .. n - 1 :
           Opening(lines[i]) /\ Len(B[i]) = p - 1 /\ Inside(B, i, n)
<1> DEFINE Opener(i, k, q) == Opening(lines[i]) /\ Len(B[i]) = q - 1 /\ Inside(B, i, k)
           S == {k \in 1 .. n : \A q \in 1 .. Len(B[k]) : \E i \in 1 .. k - 1 : Opener(i, k, q)}
<1>1. Len(lines) \in Nat /\ n \in Nat
  BY DEF WellFormed
<1>2. 1 \in S
  <2>1. B[1] = <<>>
    BY DEF WellFormed, Opened
  <2>2. 1 .. Len(B[1]) = {}
    BY <2>1
  <2>3. QED BY <1>1, <2>2
<1>3. ASSUME NEW k \in 1 .. n - 1, k \in S PROVE k + 1 \in S
  <2>1. k \in 1 .. Len(lines) /\ k + 1 \in 1 .. n
    BY <1>1
  <2> SUFFICES ASSUME NEW q \in 1 .. Len(B[k + 1])
               PROVE  \E i \in 1 .. k : Opener(i, k + 1, q)
    BY <2>1
  <2>2. /\ Len(B[k]) \in Nat /\ Len(B[k + 1]) \in Nat
        /\ Len(B[k + 1]) <= Len(B[k]) \/ (Opening(lines[k]) /\ Len(B[k + 1]) = Len(B[k]) + 1)
    <3>1. lines[k] \in Lines
      BY <2>1 DEF WellFormed
    <3>2. QED BY <2>1, <3>1, FileStep, LineShape
  <2>3. CASE q \in 1 .. Len(B[k])
    <3>1. PICK i \in 1 .. k - 1 : Opener(i, k, q)
      BY <1>3, <2>3
    <3>2. i \in 1 .. Len(lines) /\ k \in i + 1 .. Len(lines) /\ Len(B[k + 1]) > Len(B[i])
      BY <2>1, <2>2, <3>1
    <3>3. Inside(B, i, k + 1)
      BY <3>1, <3>2, InsideSteps
    <3>4. Opener(i, k + 1, q) /\ i \in 1 .. k
      BY <3>1, <3>3
    <3>5. QED BY <3>4
  <2>4. CASE q \notin 1 .. Len(B[k])
    <3>1. Opening(lines[k]) /\ q = Len(B[k]) + 1 /\ Len(B[k + 1]) > Len(B[k])
      BY <2>2, <2>4
    <3>2. Inside(B, k, k + 1)
      BY <2>1, <3>1 DEF Inside
    <3>3. Opener(k, k + 1, q) /\ k \in 1 .. k
      BY <2>2, <3>1, <3>2
    <3>4. QED BY <3>3
  <2>5. QED BY <2>3, <2>4
<1> HIDE DEF S
<1>4. 1 .. n \subseteq S
  BY <1>1, <1>2, <1>3, IntervalInduction
<1>5. n \in S
  BY <1>1, <1>4
<1>6. QED BY <1>5 DEF S

(* A line that is no longer in a block comes after the line that closes it. *)
LEMMA HasExit ==
  ASSUME NEW lines, NEW B, WellFormed(B, lines),
         NEW i \in 1 .. Len(lines), Opening(lines[i]),
         NEW n \in i + 1 .. Len(lines) + 1, ~Inside(B, i, n)
  PROVE  \E e \in i + 1 .. n - 1 :
           Inside(B, i, e) /\ Len(B[e + 1]) = Len(B[i]) /\ Closing(lines[e])
<1> DEFINE Exit(e) == Inside(B, i, e) /\ Len(B[e + 1]) = Len(B[i]) /\ Closing(lines[e])
           S == {k \in i + 1 .. n : Inside(B, i, k) \/ \E e \in i + 1 .. k - 1 : Exit(e)}
<1>1. Len(lines) \in Nat /\ n \in Nat
  BY DEF WellFormed
<1>2. i + 1 \in S
  <2>1. Len(B[i + 1]) > Len(B[i]) /\ Len(B[i + 1]) \in Nat
    BY FileStep
  <2>2. Inside(B, i, i + 1)
    BY <2>1 DEF Inside
  <2>3. QED BY <1>1, <2>2
<1>3. ASSUME NEW k \in i + 1 .. n - 1, k \in S PROVE k + 1 \in S
  <2>1. k \in 1 .. Len(lines) /\ k \in i + 1 .. Len(lines) /\ k + 1 \in i + 1 .. n
    BY <1>1
  <2>2. CASE Inside(B, i, k)
    <3>1. /\ Len(B[k]) \in Nat /\ Len(B[i]) \in Nat /\ Len(B[k + 1]) \in Nat
          /\ Len(B[k + 1]) >= Len(B[k]) \/ (Closing(lines[k]) /\ Len(B[k + 1]) = Len(B[k]) - 1)
      <4>1. lines[k] \in Lines
        BY <2>1 DEF WellFormed
      <4>2. QED BY <2>1, <4>1, FileStep, LineShape
    <3>2. Len(B[k]) > Len(B[i])
      BY <2>2 DEF Inside
    <3>3. Len(B[k + 1]) > Len(B[i]) \/ (Closing(lines[k]) /\ Len(B[k + 1]) = Len(B[i]))
      BY <3>1, <3>2
    <3>4. Inside(B, i, k + 1) \/ Exit(k)
      BY <2>1, <2>2, <3>3, InsideSteps
    <3>5. QED BY <2>1, <3>4
  <2>3. CASE \E e \in i + 1 .. k - 1 : Exit(e)
    BY <2>1, <2>3
  <2>4. QED BY <1>3, <2>2, <2>3
<1> HIDE DEF S
<1>4. i + 1 .. n \subseteq S
  BY <1>1, <1>2, <1>3, IntervalInduction
<1>5. n \in S
  BY <1>1, <1>4
<1>6. QED BY <1>5 DEF S

-----------------------------------------------------------------------------
(* Depth                                                                    *)

LEMMA CountIs ==
  ASSUME NEW line \in Lines, NEW bracket
  PROVE  Count(line, bracket) = IF line.brackets = <<bracket>> THEN 1 ELSE 0
<1> DEFINE C == {i \in DOMAIN line.brackets : line.brackets[i] = bracket}
<1>1. line.brackets = <<>> \/ \E b \in {"lbrace", "rbrace", "lbracket", "rbracket"} : line.brackets = <<b>>
  BY LineShape DEF Opening, Closing
<1>2. CASE line.brackets = <<>>
  <2>1. C = {} /\ line.brackets # <<bracket>>
    BY <1>2
  <2>2. QED BY <2>1, FS_EmptySet DEF Count
<1>3. ASSUME NEW b \in {"lbrace", "rbrace", "lbracket", "rbracket"}, line.brackets = <<b>>
      PROVE  Count(line, bracket) = IF line.brackets = <<bracket>> THEN 1 ELSE 0
  <2>1. C = IF b = bracket THEN {1} ELSE {}
    BY <1>3
  <2>2. line.brackets = <<bracket>> <=> b = bracket
    BY <1>3
  <2>3. Cardinality({1}) = 1 /\ Cardinality({}) = 0
    BY FS_EmptySet, FS_Singleton
  <2>4. Count(line, bracket) = Cardinality(C)
    BY DEF Count
  <2> HIDE DEF C
  <2>5. QED BY <2>1, <2>2, <2>3, <2>4
<1>4. QED BY <1>1, <1>2, <1>3

LEMMA DepthSteps ==
  ASSUME NEW lines \in Seq(Lines), NEW from \in 1 .. Len(lines) + 1, NEW o, NEW c
  PROVE  /\ Depth(lines, from, from - 1, o, c) = 0
         /\ \A j \in from .. Len(lines) :
              /\ Depth(lines, from, j - 1, o, c) \in Int
              /\ Depth(lines, from, j, o, c) =
                   Depth(lines, from, j - 1, o, c) + Count(lines[j], o) - Count(lines[j], c)
<1> DEFINE m == Len(lines)
           Is(g) == g = [j \in 0 .. m |->
                           IF j < from THEN 0
                           ELSE g[j - 1] + Count(lines[j], o) - Count(lines[j], c)]
           step == [q \in Int \X (1 .. m) |->
                      IF q[2] < from THEN 0
                      ELSE q[1] + Count(lines[q[2]], o) - Count(lines[q[2]], c)]
<1>1. m \in Nat
  OBVIOUS
<1>2. ASSUME NEW k \in 1 .. m PROVE Count(lines[k], o) \in Int /\ Count(lines[k], c) \in Int
  BY CountIs
<1>3. step \in [Int \X (1 .. m) -> Int]
  BY <1>2
<1>4. PICK g \in [0 .. m -> Int] :
        g[0] = 0 /\ \A j \in 1 .. m : g[j] = step[<<g[j - 1], j>>]
  <2>1. IsStep(step, m, Int)
    BY <1>3 DEF IsStep
  <2> HIDE DEF step, m
  <2>2. PICK g : IsRun(g, step, m, Int, 0)
    <3>1. m \in Nat /\ 0 \in Int
      BY <1>1
    <3>2. QED BY ONLY <2>1, <3>1, Recursion
  <2>3. QED BY <2>2 DEF IsRun
<1>5. ASSUME NEW j \in 1 .. m
      PROVE  g[j] = IF j < from THEN 0
                    ELSE g[j - 1] + Count(lines[j], o) - Count(lines[j], c)
  <2>1. <<g[j - 1], j>> \in Int \X (1 .. m)
    BY <1>1
  <2>2. step[<<g[j - 1], j>>] =
          IF j < from THEN 0
          ELSE g[j - 1] + Count(lines[j], o) - Count(lines[j], c)
    BY <2>1
  <2>3. QED BY <1>4, <2>2
<1>6. Is(g)
  <2>1. g = [k \in 0 .. m |-> g[k]]
    BY <1>4
  <2>2. \A j \in 0 .. m : g[j] = IF j < from THEN 0
                                 ELSE g[j - 1] + Count(lines[j], o) - Count(lines[j], c)
    BY <1>4, <1>5
  <2>3. QED BY <2>1, <2>2
<1> DEFINE d == CHOOSE h : Is(h)
<1>7. Is(d)
  <2> HIDE DEF Is
  <2>1. QED BY <1>6
<1>8. \A n : Depth(lines, from, n, o, c) = d[n]
  BY Zenon DEF Depth
<1> HIDE DEF d
<1>9. \A j \in 0 .. m : d[j] = IF j < from THEN 0
                               ELSE d[j - 1] + Count(lines[j], o) - Count(lines[j], c)
  BY <1>7
<1>10. from - 1 \in 0 .. m /\ d[from - 1] = 0
  BY <1>1, <1>9
<1> DEFINE S == {j \in from - 1 .. m : d[j] \in Int}
<1>11. from - 1 \in S
  BY <1>1, <1>10
<1>12. \A j \in from - 1 .. m - 1 : j \in S => j + 1 \in S
  <2> TAKE j \in from - 1 .. m - 1
  <2>1. j + 1 \in 1 .. m /\ ~(j + 1 < from) /\ (j + 1) - 1 = j /\ j + 1 \in from - 1 .. m
    BY <1>1
  <2>2. QED BY <1>2, <1>9, <2>1
<1>13. from - 1 .. m \subseteq S
  <2>1. from - 1 \in Int /\ m \in Int
    BY <1>1
  <2> HIDE DEF S, m, step, Is
  <2>2. QED BY ONLY <2>1, <1>11, <1>12, IntervalInduction
<1>14. ASSUME NEW j \in from .. m
       PROVE  d[j - 1] \in Int /\ d[j] = d[j - 1] + Count(lines[j], o) - Count(lines[j], c)
  BY <1>1, <1>9, <1>13
<1>15. QED BY <1>8, <1>10, <1>14

(* The blocks of a kind above a place on the stack.                         *)
Kinds(s, h, kind) == Cardinality({p \in h + 1 .. Len(s) : s[p].kind = kind})

LEMMA KindsAre ==
  ASSUME NEW s \in Stacks, NEW h \in 0 .. Len(s), NEW kind
  PROVE  /\ Kinds(s, h, kind) \in Nat
         /\ h = Len(s) => Kinds(s, h, kind) = 0
         /\ (\E p \in h + 1 .. Len(s) : s[p].kind = kind) => Kinds(s, h, kind) > 0
<1> DEFINE P == {p \in h + 1 .. Len(s) : s[p].kind = kind}
<1>1. Len(s) \in Nat
  BY DEF Stacks
<1>2. IsFiniteSet(P)
  <2>1. IsFiniteSet(h + 1 .. Len(s))
    BY <1>1, FS_Interval
  <2>2. P \subseteq h + 1 .. Len(s)
    OBVIOUS
  <2> HIDE DEF P
  <2>3. QED BY <2>1, <2>2, FS_Subset
<1>3. Cardinality(P) \in Nat /\ (Cardinality(P) = 0 <=> P = {})
  BY <1>2, FS_CardinalityType, FS_EmptySet
<1>4. h = Len(s) => P = {}
  BY <1>1
<1>5. QED BY <1>3, <1>4 DEF Kinds

LEMMA KindsChange ==
  ASSUME NEW s \in Stacks, NEW t \in Stacks, NEW h \in 0 .. Len(s), NEW kind,
         \A p \in 1 .. Len(s) : Alike(t[p], s[p])
  PROVE  /\ Len(t) = Len(s) => Kinds(t, h, kind) = Kinds(s, h, kind)
         /\ Len(t) = Len(s) + 1 =>
              Kinds(t, h, kind) =
                Kinds(s, h, kind) + (IF t[Len(s) + 1].kind = kind THEN 1 ELSE 0)
<1> DEFINE n == Len(s)
           P == {p \in h + 1 .. n : s[p].kind = kind}
           Q == {p \in h + 1 .. Len(t) : t[p].kind = kind}
<1>1. n \in Nat
  BY DEF Stacks
<1>2. \A p \in 1 .. n : t[p].kind = s[p].kind
  BY DEF Alike
<1>3. Len(t) = n => Q = P
  BY <1>1, <1>2
<1>4. Len(t) = n + 1 => Q = IF t[n + 1].kind = kind THEN P \cup {n + 1} ELSE P
  BY <1>1, <1>2
<1>5. IsFiniteSet(P) /\ n + 1 \notin P
  <2>1. IsFiniteSet(h + 1 .. n)
    BY <1>1, FS_Interval
  <2>2. P \subseteq h + 1 .. n /\ n + 1 \notin h + 1 .. n
    BY <1>1
  <2> HIDE DEF P
  <2>3. QED BY <2>1, <2>2, FS_Subset
<1>6. Cardinality(P) \in Nat /\ Cardinality(P \cup {n + 1}) = Cardinality(P) + 1
  BY <1>5, FS_CardinalityType, FS_AddElement
<1>7. Kinds(s, h, kind) = Cardinality(P) /\ Kinds(t, h, kind) = Cardinality(Q)
  BY DEF Kinds
<1> HIDE DEF P, Q, n
<1>8. Len(t) = n => Kinds(t, h, kind) = Kinds(s, h, kind)
  BY <1>3, <1>7
<1>9. CASE Len(t) = n + 1 /\ t[n + 1].kind = kind
  <2>1. Q = P \cup {n + 1}
    BY <1>4, <1>9
  <2>2. QED BY <1>1, <1>6, <1>7, <1>8, <1>9, <2>1 DEF n
<1>10. CASE Len(t) = n + 1 /\ t[n + 1].kind # kind
  <2>1. Q = P
    BY <1>4, <1>10
  <2>2. QED BY <1>1, <1>6, <1>7, <1>8, <1>10, <2>1 DEF n
<1>11. QED BY <1>8, <1>9, <1>10 DEF n

(* The depth counted from the line that opens a block is the number of      *)
(* blocks above it on the stack, up to the line that closes it.             *)
LEMMA DepthIs ==
  ASSUME NEW lines, NEW B, WellFormed(B, lines),
         NEW i \in 1 .. Len(lines), Opening(lines[i]),
         NEW m \in i .. Len(lines), m = i \/ Inside(B, i, m),
         NEW o, NEW c, (o = "lbrace" /\ c = "rbrace") \/ (o = "lbracket" /\ c = "rbracket")
  PROVE  Depth(lines, i, m, o, c) = Kinds(B[m + 1], Len(B[i]), o)
<1> DEFINE h == Len(B[i])
           S == {j \in i .. m + 1 : Depth(lines, i, j - 1, o, c) = Kinds(B[j], h, o)}
<1>1. Len(lines) \in Nat /\ h \in Nat /\ B[i] \in Stacks /\ lines \in Seq(Lines)
  BY FileStep DEF WellFormed
<1>2. i \in S
  <2>1. i \in 1 .. Len(lines) + 1
    BY <1>1
  <2>2. Depth(lines, i, i - 1, o, c) = 0
    BY <1>1, <2>1, DepthSteps
  <2>3. Kinds(B[i], h, o) = 0
    BY <1>1, KindsAre
  <2>4. QED BY <1>1, <2>2, <2>3
<1>3. ASSUME NEW j \in i .. (m + 1) - 1, j \in S PROVE j + 1 \in S
  <2>1. /\ j \in 1 .. Len(lines) /\ j \in i .. Len(lines) /\ j + 1 \in i .. m + 1
        /\ (j + 1) - 1 = j /\ i \in 1 .. Len(lines) + 1
    BY <1>1
  <2>2. /\ lines[j] \in Lines
        /\ Depth(lines, i, j, o, c) =
             Depth(lines, i, j - 1, o, c) + Count(lines[j], o) - Count(lines[j], c)
    <3>1. lines[j] \in Lines
      BY <1>1, <2>1
    <3>2. lines \in Seq(Lines)
      BY <1>1
    <3> HIDE DEF h, S
    <3>3. QED BY ONLY <2>1, <3>1, <3>2, DepthSteps, Zenon
  <2>3. /\ Count(lines[j], o) = IF lines[j].brackets = <<o>> THEN 1 ELSE 0
        /\ Count(lines[j], c) = IF lines[j].brackets = <<c>> THEN 1 ELSE 0
    BY <2>2, CountIs
  <2>4. /\ B[j] \in Stacks /\ B[j + 1] \in Stacks
        /\ Len(B[j]) \in Nat /\ Len(B[j + 1]) \in Nat
    BY <2>1, FileStep
  <2>5. j = i \/ Len(B[j]) > h
    BY <1>1, <2>1 DEF Inside
  <2> DEFINE x == Kinds(B[j], h, o)
             y == Kinds(B[j + 1], h, o)
  <2>6. Depth(lines, i, j - 1, o, c) = x
    BY <1>3
  <2>7. x \in Nat
    <3>1. h \in 0 .. Len(B[j])
      BY <1>1, <2>4, <2>5
    <3>2. QED BY <2>4, <3>1, KindsAre
  <2>8. CASE lines[j].brackets = <<>>
    <3>1. Len(B[j + 1]) = Len(B[j]) /\ \A p \in 1 .. Len(B[j]) : Alike(B[j + 1][p], B[j][p])
      <4>1. Len(B[j + 1]) = Len(B[j]) /\ Kept(B, j, Len(B[j]))
        BY <2>1, <2>8, FileStep
      <4>2. QED BY ONLY <4>1 DEF Kept
    <3>2. h \in 0 .. Len(B[j])
      BY <1>1, <2>4, <2>5
    <3>3. y = x
      BY <2>4, <3>1, <3>2, KindsChange
    <3>4. lines[j].brackets # <<o>> /\ lines[j].brackets # <<c>>
      BY <2>8
    <3> HIDE DEF x, y, h
    <3>5. QED BY <2>1, <2>2, <2>3, <2>6, <2>7, <3>3, <3>4 DEF y
  <2>9. CASE Opening(lines[j])
    <3>1. /\ Len(B[j + 1]) = Len(B[j]) + 1
          /\ \A p \in 1 .. Len(B[j]) : Alike(B[j + 1][p], B[j][p])
          /\ B[j + 1][Len(B[j]) + 1].kind = lines[j].brackets[1]
      <4>1. Len(B[j + 1]) = Len(B[j]) + 1 /\ Kept(B, j, Len(B[j]))
        BY <2>1, <2>9, FileStep
      <4>2. B[j + 1][Len(B[j]) + 1].kind = lines[j].brackets[1]
        BY <2>1, <2>9, FileStep
      <4>3. QED BY ONLY <4>1, <4>2 DEF Kept
    <3>2. h \in 0 .. Len(B[j])
      BY <1>1, <2>4, <2>5
    <3>3. y = x + (IF lines[j].brackets[1] = o THEN 1 ELSE 0)
      <4> HIDE DEF h
      <4>1. y = x + (IF B[j + 1][Len(B[j]) + 1].kind = o THEN 1 ELSE 0)
        BY ONLY <2>4, <3>1, <3>2, KindsChange, Zenon
      <4>2. QED BY ONLY <3>1, <4>1
    <3>4. /\ lines[j].brackets # <<c>>
          /\ lines[j].brackets = <<o>> <=> lines[j].brackets[1] = o
      BY <2>9 DEF Opening
    <3> HIDE DEF x, y, h
    <3>5. QED BY <2>1, <2>2, <2>3, <2>6, <2>7, <3>3, <3>4 DEF y
  <2>10. CASE Closing(lines[j])
    <3>1. /\ Len(B[j]) > 0 /\ Len(B[j + 1]) = Len(B[j]) - 1
          /\ \A p \in 1 .. Len(B[j]) - 1 : Alike(B[j + 1][p], B[j][p])
      <4>1. /\ Len(B[j]) > 0 /\ Len(B[j + 1]) = Len(B[j]) - 1
            /\ Kept(B, j, Len(B[j]) - 1)
        BY <2>1, <2>10, FileStep
      <4>2. QED BY ONLY <4>1 DEF Kept
    <3>2. j # i
      BY <2>2, <2>10, LineShape
    <3>3. h \in 0 .. Len(B[j + 1]) /\ Len(B[j]) = Len(B[j + 1]) + 1
      BY <1>1, <2>4, <2>5, <3>1, <3>2
    <3>4. \A p \in 1 .. Len(B[j + 1]) : Alike(B[j][p], B[j + 1][p])
      BY <3>1 DEF Alike
    <3>5. x = y + (IF B[j][Len(B[j])].kind = o THEN 1 ELSE 0)
      <4> HIDE DEF h
      <4>1. x = y + (IF B[j][Len(B[j + 1]) + 1].kind = o THEN 1 ELSE 0)
        BY ONLY <2>4, <3>3, <3>4, KindsChange, Zenon
      <4>2. QED BY ONLY <3>3, <4>1
    <3>6. /\ lines[j].brackets # <<o>>
          /\ lines[j].brackets = <<c>> <=> B[j][Len(B[j])].kind = o
      <4>1. Allowed(B[j], lines[j])
        BY <2>1 DEF WellFormed
      <4>2. /\ B[j][Len(B[j])].kind = "lbrace" <=> lines[j].brackets = <<"rbrace">>
            /\ B[j][Len(B[j])].kind = "lbracket" <=> lines[j].brackets = <<"rbracket">>
        BY <2>2, <2>4, <2>10, <4>1, AllowedBrackets
      <4>3. lines[j].brackets # <<o>>
        BY <2>10 DEF Closing
      <4>4. QED BY <4>2, <4>3
    <3>7. y \in Nat
      BY <2>4, <3>3, KindsAre
    <3> HIDE DEF x, y, h
    <3>8. Depth(lines, i, j, o, c) = x + Count(lines[j], o) - Count(lines[j], c)
      BY <2>2, <2>6
    <3>9. Count(lines[j], o) = 0
      BY <2>3, <3>6
    <3>10. y = x - Count(lines[j], c)
      <4>1. CASE lines[j].brackets = <<c>>
        BY <2>3, <2>7, <3>5, <3>6, <3>7, <4>1
      <4>2. CASE lines[j].brackets # <<c>>
        BY <2>3, <2>7, <3>5, <3>6, <3>7, <4>2
      <4>3. QED BY <4>1, <4>2
    <3>11. Count(lines[j], c) \in Int
      BY <2>3
    <3>12. Depth(lines, i, j, o, c) = y
      BY <2>7, <3>8, <3>9, <3>10, <3>11
    <3>13. QED BY <2>1, <3>12 DEF y
  <2>11. QED BY <2>2, <2>8, <2>9, <2>10, LineShape
<1> HIDE DEF S
<1>4. i .. m + 1 \subseteq S
  <2>1. i \in Int /\ m + 1 \in Int
    BY <1>1
  <2>2. QED BY ONLY <1>2, <1>3, <2>1, IntervalInduction
<1>5. m + 1 \in S /\ (m + 1) - 1 = m
  BY <1>1, <1>4
<1>6. QED BY <1>5 DEF S

LEMMA DepthTells ==
  ASSUME NEW lines, NEW B, WellFormed(B, lines),
         NEW i \in 1 .. Len(lines), Opening(lines[i]),
         NEW m \in i .. Len(lines), m = i \/ Inside(B, i, m)
  PROVE  /\ Inside(B, i, m + 1) =>
              \/ lines[i].brackets = <<"lbrace">> /\ Depth(lines, i, m, "lbrace", "rbrace") > 0
              \/ lines[i].brackets = <<"lbracket">> /\ Depth(lines, i, m, "lbracket", "rbracket") > 0
         /\ ~Inside(B, i, m + 1) =>
              Depth(lines, i, m, "lbrace", "rbrace") = 0 /\ Depth(lines, i, m, "lbracket", "rbracket") = 0
<1> DEFINE h == Len(B[i])
           s == B[m + 1]
<1>1. Len(lines) \in Nat /\ h \in Nat /\ m \in 1 .. Len(lines) /\ m + 1 \in i + 1 .. Len(lines) + 1
  BY FileStep DEF WellFormed
<1>2. s \in Stacks /\ Len(s) \in Nat
  BY <1>1, FileStep
<1>3. Len(s) >= h
  <2>1. CASE m = i
    BY <1>1, <2>1, FileStep
  <2>2. CASE Inside(B, i, m)
    <3>1. Len(B[m]) > h /\ Len(B[m]) \in Nat
      BY <1>1, <2>2, FileStep DEF Inside
    <3>2. lines[m] \in Lines
      BY <1>1 DEF WellFormed
    <3>3. Len(s) >= Len(B[m]) - 1
      <4>1. CASE lines[m].brackets = <<>>
        <5>1. Len(s) = Len(B[m])
          BY <1>1, <4>1, FileStep
        <5> HIDE DEF s
        <5>2. QED BY ONLY <3>1, <5>1
      <4>2. CASE Opening(lines[m])
        <5>1. Len(s) = Len(B[m]) + 1
          BY <1>1, <4>2, FileStep
        <5> HIDE DEF s
        <5>2. QED BY ONLY <3>1, <5>1
      <4>3. CASE Closing(lines[m])
        <5>1. Len(s) = Len(B[m]) - 1
          BY <1>1, <4>3, FileStep
        <5> HIDE DEF s
        <5>2. QED BY ONLY <3>1, <5>1
      <4>4. QED BY <3>2, <4>1, <4>2, <4>3, LineShape
    <3>4. QED BY <1>1, <1>2, <3>1, <3>3
  <2>3. QED BY <2>1, <2>2
<1>4. /\ Depth(lines, i, m, "lbrace", "rbrace") = Kinds(s, h, "lbrace")
      /\ Depth(lines, i, m, "lbracket", "rbracket") = Kinds(s, h, "lbracket")
  BY DepthIs
<1>5. ASSUME Inside(B, i, m + 1) PROVE Kinds(s, h, lines[i].brackets[1]) > 0
  <2>1. h + 1 \in 1 .. Len(s) /\ s[h + 1].kind = lines[i].brackets[1]
    BY <1>1, <1>5, Encloses
  <2>2. h \in 0 .. Len(s) /\ h + 1 \in h + 1 .. Len(s)
    BY <1>1, <1>2, <2>1
  <2> HIDE DEF s, h
  <2>3. QED BY <1>2, <2>1, <2>2, KindsAre
<1>6. ASSUME ~Inside(B, i, m + 1) PROVE Kinds(s, h, "lbrace") = 0 /\ Kinds(s, h, "lbracket") = 0
  <2>1. h = Len(s)
    <3>1. ~(Len(s) > h)
      BY <1>1, <1>6 DEF Inside
    <3>2. QED BY <1>1, <1>2, <1>3, <3>1
  <2>2. h \in 0 .. Len(s)
    BY <1>1, <2>1
  <2> HIDE DEF s, h
  <2>3. QED BY <1>2, <2>1, <2>2, KindsAre
<1>7. lines[i].brackets = <<"lbrace">> \/ lines[i].brackets = <<"lbracket">>
  BY DEF Opening
<1> HIDE DEF s, h
<1>8. QED BY <1>4, <1>5, <1>6, <1>7

-----------------------------------------------------------------------------
(* Parents                                                                  *)

LEMMA MaxIs ==
  ASSUME NEW S \in SUBSET Int, NEW x \in S, \A y \in S : y <= x
  PROVE  Max(S) = x
<1>1. \A z \in S : (\A y \in S : z >= y) => z = x
  OBVIOUS
<1>2. \A y \in S : x >= y
  OBVIOUS
<1>3. QED BY <1>1, <1>2 DEF Max

LEMMA MinIs ==
  ASSUME NEW S \in SUBSET Int, NEW x \in S, \A y \in S : x <= y
  PROVE  Min(S) = x
<1>1. \A z \in S : (\A y \in S : z <= y) => z = x
  OBVIOUS
<1>2. QED BY <1>1 DEF Min

LEMMA HasMax ==
  ASSUME NEW n \in Nat, NEW S \in SUBSET (1 .. n), S # {}
  PROVE  Max(S) \in S /\ \A y \in S : y <= Max(S)
<1> DEFINE T == {k \in 0 .. n : (\E x \in S : x <= k) => \E x \in S : \A y \in S : y <= k => y <= x}
<1>1. 0 \in T
  OBVIOUS
<1>2. ASSUME NEW k \in 0 .. n - 1, k \in T PROVE k + 1 \in T
  <2>1. CASE k + 1 \in S
    BY <2>1
  <2>2. CASE k + 1 \notin S
    <3>1. \A y \in S : y <= k + 1 => y <= k
      BY <2>2
    <3>2. QED BY <1>2, <3>1
  <2>3. QED BY <2>1, <2>2
<1>3. n \in T
  <2> HIDE DEF T
  <2>1. 0 .. n \subseteq T
    BY <1>1, <1>2, IntervalInduction
  <2>2. QED BY <2>1
<1>4. PICK x \in S : \A y \in S : y <= x
  <2>1. \A y \in S : y <= n
    OBVIOUS
  <2>2. \E x \in S : x <= n
    BY <2>1
  <2>3. \E x \in S : \A y \in S : y <= n => y <= x
    BY <1>3, <2>2
  <2>4. QED BY <2>1, <2>3
<1>5. Max(S) = x
  BY <1>4, MaxIs
<1>6. QED BY <1>4, <1>5

(* What is given of a parent: its value is written out, and it is not in    *)
(* another of the same name.                                                *)
Spelled(B, lines, name) ==
  \A k \in 1 .. Len(lines) : lines[k].key = name =>
    Opening(lines[k]) /\ \A p \in 1 .. Len(B[k]) : B[k][p].key # name

LEMMA ParentIsBlock ==
  ASSUME NEW lines, NEW B, WellFormed(B, lines), NEW n \in 1 .. Len(lines),
         NEW parents, Spelled(B, lines, Last(parents).name)
  PROVE  IsInsideParentBlock(lines, n, parents) <=>
           \E p \in 1 .. Len(B[n]) : B[n][p].key = Last(parents).name
<1> DEFINE name == Last(parents).name
           I == {i \in 1 .. n - 1 : lines[i].key = name}
           Open(q, j) == \/ Depth(lines, q, j, "lbrace", "rbrace") > 0
                         \/ Depth(lines, q, j, "lbracket", "rbracket") > 0
<1>1. Len(lines) \in Nat /\ n \in Nat /\ I \in SUBSET (1 .. n - 1) /\ n - 1 \in Nat
  BY DEF WellFormed
<1>2. IsInsideParentBlock(lines, n, parents) <=>
        I # {} /\ \A j \in (Max(I) + 1 .. n - 1) \cup {n - 1} : Open(Max(I), j)
  <2> DEFINE parent == IF I # {} THEN Max(I) ELSE 0
  <2>1. IsInsideParentBlock(lines, n, parents) <=>
          parent # 0 /\ \A j \in (parent + 1 .. n - 1) \cup {n - 1} : Open(parent, j)
    BY Zenon DEF IsInsideParentBlock, SelectLastInSubSeq
  <2>2. I # {} => Max(I) # 0
    <3> SUFFICES ASSUME I # {} PROVE Max(I) # 0
      OBVIOUS
    <3>1. I \in SUBSET (1 .. n - 1) /\ n - 1 \in Nat
      BY <1>1
    <3> HIDE DEF I
    <3>2. Max(I) \in I
      BY <3>1, HasMax
    <3>3. QED BY <3>1, <3>2
  <2> HIDE DEF I, Open
  <2>3. QED BY <2>1, <2>2
<1>3. ASSUME I # {}, \A j \in (Max(I) + 1 .. n - 1) \cup {n - 1} : Open(Max(I), j)
      PROVE  \E p \in 1 .. Len(B[n]) : B[n][p].key = name
  <2> DEFINE q == Max(I)
  <2>1. q \in I
    BY <1>1, <1>3, HasMax
  <2> HIDE DEF q
  <2>2. /\ q \in 1 .. Len(lines) /\ n \in q + 1 .. Len(lines) + 1
        /\ lines[q].key = name /\ Opening(lines[q])
    BY <1>1, <2>1 DEF Spelled
  <2>3. Inside(B, q, n)
    <3> SUFFICES ASSUME ~Inside(B, q, n) PROVE FALSE
      OBVIOUS
    <3>1. PICK e \in q + 1 .. n - 1 : Inside(B, q, e) /\ Len(B[e + 1]) = Len(B[q])
      BY <2>2, HasExit
    <3>2. ~Inside(B, q, e + 1) /\ e \in q .. Len(lines)
      <4>1. Len(B[q]) \in Nat
        BY <2>2, FileStep
      <4>2. QED BY <1>1, <2>2, <3>1, <4>1 DEF Inside
    <3>3. ~Open(q, e)
      BY <2>2, <3>1, <3>2, DepthTells
    <3>4. QED BY <1>3, <3>1, <3>3 DEF q
  <2>4. QED BY <2>2, <2>3, Encloses
<1>4. ASSUME NEW p \in 1 .. Len(B[n]), B[n][p].key = name
      PROVE  I # {} /\ \A j \in (Max(I) + 1 .. n - 1) \cup {n - 1} : Open(Max(I), j)
  <2>1. n \in 1 .. Len(lines) + 1
    BY <1>1
  <2>2. PICK i \in 1 .. n - 1 : Opening(lines[i]) /\ Len(B[i]) = p - 1 /\ Inside(B, i, n)
    BY <2>1, HasOpener
  <2>3. i \in 1 .. Len(lines) /\ n \in i + 1 .. Len(lines) + 1
    BY <1>1
  <2>4. lines[i].key = name
    <3>1. B[n][Len(B[i]) + 1].key = lines[i].key
      BY <2>2, <2>3, Encloses
    <3>2. Len(B[i]) + 1 = p
      BY <2>2, <2>3, FileStep
    <3>3. QED BY <1>4, <3>1, <3>2
  <2>5. i \in I
    BY <2>4
  <2>6. \A k \in I : k <= i
    <3> SUFFICES ASSUME NEW k \in I, k > i PROVE FALSE
      BY <1>1
    <3>1. /\ k \in 1 .. Len(lines) /\ k \in i + 1 .. Len(lines) + 1 /\ k \in i + 1 .. n
          /\ lines[k].key = name
      BY <1>1
    <3>2. Inside(B, i, k)
      BY <1>1, <2>2, <2>3, <3>1 DEF Inside
    <3>3. Len(B[i]) + 1 \in 1 .. Len(B[k]) /\ B[k][Len(B[i]) + 1].key = name
      BY <2>2, <2>3, <2>4, <3>1, <3>2, Encloses
    <3>4. QED BY <3>1, <3>3 DEF Spelled
  <2>7. Max(I) = i
    <3>1. I \in SUBSET Int
      BY <1>1
    <3> HIDE DEF I
    <3>2. QED BY <2>5, <2>6, <3>1, MaxIs
  <2>8. ASSUME NEW j \in i .. n - 1 PROVE Open(i, j)
    <3>1. /\ j \in i .. Len(lines)
          /\ j = i \/ Inside(B, i, j)
          /\ Inside(B, i, j + 1)
      BY <1>1, <2>2, <2>3 DEF Inside
    <3>2. QED BY <2>2, <2>3, <3>1, DepthTells
  <2> HIDE DEF I, Open
  <2>9. \A j \in (i + 1 .. n - 1) \cup {n - 1} : j \in i .. n - 1
    BY <1>1, <2>3
  <2>10. QED BY <2>5, <2>7, <2>8, <2>9
<1> HIDE DEF I, Open
<1>5. QED BY <1>2, <1>3, <1>4

(* A line has one bracket at most.                                          *)
LEMMA WalkLineIs ==
  ASSUME NEW lines, NEW n, NEW w
  PROVE  /\ lines[n].brackets = <<>> => WalkLine(w, lines, n) = w
         /\ \A b : lines[n].brackets = <<b>> => WalkLine(w, lines, n) = Walk(w, b, n)
<1> DEFINE brackets == lines[n].brackets
           D == DOMAIN brackets
           Is(g) == g = [s \in SUBSET D |->
                           IF s = {} THEN w
                           ELSE Walk(g[s \ {Max(s)}], brackets[Max(s)], n)]
           iter == CHOOSE g : Is(g)
<1>1. WalkLine(w, lines, n) = iter[D]
  BY Zenon DEF WalkLine, FoldLeft, MapThenFoldSet
<1>2. ASSUME brackets = <<>> PROVE WalkLine(w, lines, n) = w
  <2>1. D = {}
    BY <1>2
  <2> HIDE DEF D, brackets
  <2> DEFINE g == [s \in SUBSET D |-> w]
  <2>2. \A s \in SUBSET D : s = {}
    BY <2>1
  <2>3. Is(g)
    BY <2>2
  <2> HIDE DEF g, Is
  <2>4. Is(iter)
    BY <2>3
  <2>5. iter[D] = w
    BY <2>1, <2>4 DEF Is
  <2>6. QED BY <1>1, <2>5
<1>3. ASSUME NEW b, brackets = <<b>> PROVE WalkLine(w, lines, n) = Walk(w, b, n)
  <2>1. D = {1} /\ brackets[1] = b
    BY <1>3
  <2>2. Max({1}) = 1
    BY MaxIs
  <2> HIDE DEF D, brackets
  <2> DEFINE g == [s \in SUBSET D |-> IF s = {} THEN w ELSE Walk(w, b, n)]
  <2>3. \A s \in SUBSET D : s = {} \/ s = {1}
    BY <2>1
  <2>4. {} \in SUBSET D /\ {1} \ {1} = {} /\ {1} \in SUBSET D
    BY <2>1
  <2>5. g[{}] = w
    BY <2>4
  <2>6. \A s \in SUBSET D : s # {} => g[s \ {Max(s)}] = w /\ brackets[Max(s)] = b
    BY <2>1, <2>2, <2>3, <2>4, <2>5
  <2>7. Is(g)
    <3> DEFINE G(s) == IF s = {} THEN w ELSE Walk(g[s \ {Max(s)}], brackets[Max(s)], n)
    <3>1. \A s \in SUBSET D : g[s] = G(s)
      BY <2>6
    <3>2. g = [s \in SUBSET D |-> g[s]]
      OBVIOUS
    <3> HIDE DEF g
    <3>3. QED BY <3>1, <3>2
  <2> HIDE DEF g, Is
  <2>8. Is(iter)
    BY <2>7
  <2> HIDE DEF iter
  <2>9. /\ iter[{}] = w
        /\ iter[{1}] = Walk(iter[{1} \ {Max({1})}], brackets[Max({1})], n)
    BY <2>4, <2>8 DEF Is
  <2>10. QED BY <1>1, <2>1, <2>2, <2>4, <2>9
<1>4. QED BY <1>2, <1>3

-----------------------------------------------------------------------------
(* Arrays                                                                   *)

StartWalk(index) ==
  [depth |-> 0, element |-> -1, wanted |-> index, start |-> 0, range |-> NoRange,
   ended |-> FALSE]

Walks ==
  [depth : Int, element : Int, wanted : Int, start : Int, range : Int \X Int, ended : BOOLEAN]

(* What one bracket changes.                                                *)
WalkOf(depth, element, wanted, start, range, ended) ==
  [depth |-> depth, element |-> element, wanted |-> wanted, start |-> start,
   range |-> range, ended |-> ended]

Went(w, depth, element, start) == WalkOf(depth, element, w.wanted, start, w.range, FALSE)

Stopped(w, range) == WalkOf(w.depth, w.element, w.wanted, w.start, range, TRUE)

WithDepth(w, d, e, s) == [w EXCEPT !.depth = d, !.element = e, !.start = s]
WithRange(w, r, t)    == [w EXCEPT !.ended = t, !.range = r]

LEMMA WithEndedIs ==
  ASSUME NEW w \in Walks, NEW t
  PROVE  [w EXCEPT !.ended = t] = WalkOf(w.depth, w.element, w.wanted, w.start, w.range, t)
  BY DEF Walks, WalkOf

LEMMA WithRangeIs ==
  ASSUME NEW w \in Walks, NEW r, NEW t
  PROVE  WithRange(w, r, t) = WalkOf(w.depth, w.element, w.wanted, w.start, r, t)
<1> DEFINE v == [w EXCEPT !.ended = t]
<1>1. v = WalkOf(w.depth, w.element, w.wanted, w.start, w.range, t)
  BY WithEndedIs
<1>2. WithRange(w, r, t) = [v EXCEPT !.range = r]
  BY DEF WithRange
<1> HIDE DEF v
<1>3. [v EXCEPT !.range = r] = WalkOf(w.depth, w.element, w.wanted, w.start, r, t)
  BY <1>1 DEF WalkOf
<1>4. QED BY <1>2, <1>3

LEMMA WithDepthIs ==
  ASSUME NEW w \in Walks, NEW d, NEW e, NEW s
  PROVE  WithDepth(w, d, e, s) = WalkOf(d, e, w.wanted, s, w.range, w.ended)
<1> DEFINE u == [w EXCEPT !.depth = d]
           v == [u EXCEPT !.element = e]
<1>1. u = WalkOf(d, w.element, w.wanted, w.start, w.range, w.ended)
  BY DEF Walks, WalkOf
<1>2. WithDepth(w, d, e, s) = [v EXCEPT !.start = s]
  BY DEF WithDepth
<1> HIDE DEF u
<1>3. v = WalkOf(d, e, w.wanted, w.start, w.range, w.ended)
  BY <1>1 DEF WalkOf
<1> HIDE DEF v
<1>4. [v EXCEPT !.start = s] = WalkOf(d, e, w.wanted, s, w.range, w.ended)
  BY <1>3 DEF WalkOf
<1>5. QED BY <1>2, <1>4

LEMMA DepthAloneIs ==
  ASSUME NEW w \in Walks, NEW d
  PROVE  [w EXCEPT !.depth = d] = WalkOf(d, w.element, w.wanted, w.start, w.range, w.ended)
  BY DEF Walks, WalkOf

LEMMA WalkIs ==
  ASSUME NEW w \in Walks, NEW k \in Int
  PROVE  /\ \A b : Walk(w, b, k) \in Walks
         /\ \A b : w.ended => Walk(w, b, k) = w
         /\ ~w.ended =>
              /\ Walk(w, "lbracket", k) = w
              /\ w.depth # 0 => Walk(w, "rbracket", k) = w
              /\ w.depth = 0 => Walk(w, "rbracket", k) = Stopped(w, w.range)
              /\ w.depth # 0 => Walk(w, "lbrace", k) = Went(w, w.depth + 1, w.element, w.start)
              /\ w.depth = 0 => Walk(w, "lbrace", k) =
                   Went(w, 1, w.element + 1, IF w.element + 1 = w.wanted THEN k ELSE w.start)
              /\ w.depth = 1 /\ w.start # 0 => Walk(w, "rbrace", k) = Stopped(w, <<w.start, k>>)
              /\ ~(w.depth = 1 /\ w.start # 0) =>
                   Walk(w, "rbrace", k) = Went(w, w.depth - 1, w.element, w.start)
<1>1. \A b : w.ended => Walk(w, b, k) = w
  BY DEF Walk
<1>2. CASE ~w.ended
  <2> DEFINE yes == TRUE
             no == FALSE
  <2>0. w.ended = no
    BY <1>2 DEF Walks
  <2> HIDE DEF yes, no
  <2> DEFINE element == IF w.depth = 0 THEN w.element + 1 ELSE w.element
             start == IF w.depth = 0 /\ w.element + 1 = w.wanted THEN k ELSE w.start
             closed == IF w.depth = 1 /\ w.start # 0
                       THEN Stopped(w, <<w.start, k>>)
                       ELSE Went(w, w.depth - 1, w.element, w.start)
  <2>1. Walk(w, "rbracket", k) = IF w.depth = 0 THEN Stopped(w, w.range) ELSE w
    <3>1. Walk(w, "rbracket", k) = IF w.depth = 0 THEN [w EXCEPT !.ended = TRUE] ELSE w
      BY <1>2, Zenon DEF Walk
    <3>2. [w EXCEPT !.ended = TRUE] = Stopped(w, w.range)
      <4>1. [w EXCEPT !.ended = yes] = WalkOf(w.depth, w.element, w.wanted, w.start, w.range, yes)
        BY WithEndedIs
      <4>2. QED BY <4>1, Zenon DEF Stopped, yes
    <3>3. QED BY <3>1, <3>2
  <2>2. Walk(w, "lbrace", k) = Went(w, w.depth + 1, element, start)
    <3> DEFINE x == [w EXCEPT !.depth = w.depth + 1, !.element = element, !.start = start]
    <3>1. Walk(w, "lbrace", k) = x
      BY <1>2, Zenon DEF Walk
    <3> HIDE DEF element, start
    <3>2. x = Went(w, w.depth + 1, element, start)
      <4>1. x = WalkOf(w.depth + 1, element, w.wanted, start, w.range, no)
        <5>1. x = WithDepth(w, w.depth + 1, element, start)
          BY DEF WithDepth
        <5> HIDE DEF x
        <5>2. QED BY <2>0, <5>1, WithDepthIs
      <4>2. QED BY <4>1, Zenon DEF Went, no
    <3> HIDE DEF x
    <3>3. QED BY <3>1, <3>2
  <2>3. Walk(w, "rbrace", k) = closed
    <3>1. Walk(w, "rbrace", k) =
            IF w.depth = 1 /\ w.start # 0
            THEN [w EXCEPT !.ended = TRUE, !.range = <<w.start, k>>]
            ELSE [w EXCEPT !.depth = w.depth - 1]
      BY <1>2, Zenon DEF Walk
    <3>2. [w EXCEPT !.ended = TRUE, !.range = <<w.start, k>>] = Stopped(w, <<w.start, k>>)
      <4>1. [w EXCEPT !.ended = yes, !.range = <<w.start, k>>] =
              WalkOf(w.depth, w.element, w.wanted, w.start, <<w.start, k>>, yes)
        <5>1. [w EXCEPT !.ended = yes, !.range = <<w.start, k>>] =
                WithRange(w, <<w.start, k>>, yes)
          BY DEF WithRange
        <5>2. WithRange(w, <<w.start, k>>, yes) =
                WalkOf(w.depth, w.element, w.wanted, w.start, <<w.start, k>>, yes)
          BY WithRangeIs
        <5>3. QED BY <5>1, <5>2, Zenon
      <4>2. QED BY <4>1, Zenon DEF Stopped, yes
    <3>3. [w EXCEPT !.depth = w.depth - 1] = Went(w, w.depth - 1, w.element, w.start)
      <4>1. [w EXCEPT !.depth = w.depth - 1] =
              WalkOf(w.depth - 1, w.element, w.wanted, w.start, w.range, no)
        BY <2>0, DepthAloneIs
      <4>2. QED BY <4>1, Zenon DEF Went, no
    <3>4. QED BY <3>1, <3>2, <3>3
  <2>4. \A b : b \notin {"rbracket", "lbrace", "rbrace"} => Walk(w, b, k) = w
    BY <1>2, Zenon DEF Walk
  <2>5. /\ Went(w, w.depth + 1, element, start) \in Walks /\ closed \in Walks
        /\ Stopped(w, w.range) \in Walks
    BY DEF Walks, Went, Stopped, WalkOf
  <2>6. \A b : Walk(w, b, k) \in Walks
    <3> HIDE DEF element, start, closed
    <3>1. QED BY <2>1, <2>2, <2>3, <2>4, <2>5
  <2>7. w.depth + 1 = 1 \/ w.depth # 0
    BY DEF Walks
  <2>8. QED BY <1>2, <2>1, <2>2, <2>3, <2>4, <2>6, <2>7
<1>3. QED BY <1>1, <1>2

LEMMA WalkedSteps ==
  ASSUME NEW lines \in Seq(Lines), NEW from \in 1 .. Len(lines) + 1, NEW index \in Int
  PROVE  \E v \in [from - 1 .. Len(lines) -> Walks] :
           /\ v[from - 1] = StartWalk(index)
           /\ \A j \in from .. Len(lines) : v[j] = WalkLine(v[j - 1], lines, j)
           /\ Walked(lines, from, index) = v[Len(lines)]
<1> DEFINE m == Len(lines)
           first == StartWalk(index)
           Is(g) == g = [i \in 0 .. m |->
                           IF i < from THEN first ELSE WalkLine(g[i - 1], lines, i)]
           step == [q \in Walks \X (1 .. m) |->
                      IF q[2] < from THEN first ELSE WalkLine(q[1], lines, q[2])]
<1>1. m \in Nat /\ first \in Walks
  BY DEF Walks, StartWalk, NoRange
<1>2. ASSUME NEW w \in Walks, NEW k \in 1 .. m PROVE WalkLine(w, lines, k) \in Walks
  <2>1. \A b : Walk(w, b, k) \in Walks
    <3>1. k \in Int
      BY <1>1
    <3>2. QED BY <3>1, WalkIs
  <2>2. lines[k] \in Lines
    BY <1>1
  <2>3. lines[k].brackets = <<>> \/ \E b \in {"lbrace", "rbrace", "lbracket", "rbracket"} : lines[k].brackets = <<b>>
    BY <2>2, LineShape DEF Opening, Closing
  <2>4. QED BY <2>1, <2>3, WalkLineIs
<1>3. step \in [Walks \X (1 .. m) -> Walks]
  BY <1>1, <1>2
<1>4. PICK g \in [0 .. m -> Walks] :
        g[0] = first /\ \A j \in 1 .. m : g[j] = step[<<g[j - 1], j>>]
  <2>1. IsStep(step, m, Walks)
    BY <1>3 DEF IsStep
  <2> HIDE DEF step, m, first
  <2>2. PICK g : IsRun(g, step, m, Walks, first)
    BY <1>1, <2>1, Recursion
  <2>3. QED BY <2>2 DEF IsRun
<1>5. ASSUME NEW j \in 1 .. m
      PROVE  g[j] = IF j < from THEN first ELSE WalkLine(g[j - 1], lines, j)
  <2>1. <<g[j - 1], j>> \in Walks \X (1 .. m)
    BY <1>1
  <2>2. step[<<g[j - 1], j>>] = IF j < from THEN first ELSE WalkLine(g[j - 1], lines, j)
    BY <2>1
  <2>3. QED BY <1>4, <2>2
<1>6. Is(g)
  <2>1. g = [k \in 0 .. m |-> g[k]]
    BY <1>4
  <2>2. \A j \in 0 .. m : g[j] = IF j < from THEN first ELSE WalkLine(g[j - 1], lines, j)
    BY <1>4, <1>5
  <2>3. QED BY <2>1, <2>2
<1> DEFINE d == CHOOSE h : Is(h)
<1>7. Is(d)
  <2> HIDE DEF Is
  <2>1. QED BY <1>6
<1>8. Walked(lines, from, index) = d[m]
  BY Zenon DEF Walked, StartWalk
<1> HIDE DEF d
<1>9. \A j \in 0 .. m : d[j] = IF j < from THEN first ELSE WalkLine(d[j - 1], lines, j)
  BY <1>7
<1> HIDE DEF first
<1>10. from - 1 \in 0 .. m /\ d[from - 1] = first
  BY <1>1, <1>9
<1> DEFINE S == {j \in from - 1 .. m : d[j] \in Walks}
<1>11. from - 1 \in S
  BY <1>1, <1>10
<1>12. \A j \in from - 1 .. m - 1 : j \in S => j + 1 \in S
  <2> TAKE j \in from - 1 .. m - 1
  <2>1. j + 1 \in 1 .. m /\ ~(j + 1 < from) /\ (j + 1) - 1 = j /\ j + 1 \in from - 1 .. m
    BY <1>1
  <2>2. QED BY <1>2, <1>9, <2>1
<1>13. from - 1 .. m \subseteq S
  <2>1. from - 1 \in Int /\ m \in Int
    BY <1>1
  <2> HIDE DEF S, m, step, Is
  <2>2. QED BY ONLY <2>1, <1>11, <1>12, IntervalInduction
<1> DEFINE v == [j \in from - 1 .. m |-> d[j]]
<1>14. v \in [from - 1 .. m -> Walks]
  BY <1>13
<1>15. v[from - 1] = first /\ v[m] = d[m]
  BY <1>1, <1>10
<1>16. ASSUME NEW j \in from .. m PROVE v[j] = WalkLine(v[j - 1], lines, j)
  <2>1. j \in from - 1 .. m /\ j - 1 \in from - 1 .. m /\ j \in 0 .. m /\ ~(j < from)
    BY <1>1
  <2>2. v[j] = d[j] /\ v[j - 1] = d[j - 1]
    BY <2>1
  <2> HIDE DEF v
  <2>3. QED BY <1>9, <2>1, <2>2
<1> HIDE DEF v
<1>17. QED BY <1>8, <1>14, <1>15, <1>16 DEF first

(* The line of an array is a, its block is above Len(B[a]) on the stack.    *)
(* Its elements so far, the braces that are open in it, and whether a line  *)
(* is in the element of an index.                                           *)
Elements(B, a, k) == B[k][Len(B[a]) + 1].elements
Braces(B, a, k) == Kinds(B[k], Len(B[a]) + 1, "lbrace")

InElement(B, a, k, index) ==
  Inside(B, a, k) /\ Len(B[k]) >= Len(B[a]) + 2 /\ B[k][Len(B[a]) + 2].element = index

ArrayShape(B, a, k) ==
  /\ Inside(B, a, k)
  /\ Len(B[k]) >= Len(B[a]) + 2 =>
       /\ B[k][Len(B[a]) + 2].kind = "lbrace"
       /\ B[k][Len(B[a]) + 2].element = Elements(B, a, k) - 1

LEMMA ArrayFacts ==
  ASSUME NEW lines, NEW B, WellFormed(B, lines),
         NEW a \in 1 .. Len(lines), lines[a].brackets = <<"lbracket">>,
         NEW k \in a + 1 .. Len(lines) + 1, ArrayShape(B, a, k)
  PROVE  /\ B[k] \in Stacks /\ Len(B[k]) \in Nat /\ Len(B[a]) \in Nat
         /\ Len(B[k]) >= Len(B[a]) + 1 /\ B[k][Len(B[a]) + 1].kind = "lbracket"
         /\ Elements(B, a, k) \in Nat
         /\ Braces(B, a, k) \in Nat
         /\ Braces(B, a, k) = 0 <=> Len(B[k]) = Len(B[a]) + 1
         /\ \A index \in Int :
              InElement(B, a, k, index) <=>
                Braces(B, a, k) # 0 /\ Elements(B, a, k) = index + 1
<1> DEFINE h == Len(B[a])
           s == B[k]
<1>1. h \in Nat /\ Opening(lines[a]) /\ k \in 1 .. Len(lines) + 1
  BY FileStep DEF Opening, WellFormed
<1>2. s \in Stacks /\ Len(s) \in Nat
  BY <1>1 DEF WellFormed, Opened, Stacks
<1>3. h + 1 \in 1 .. Len(s) /\ s[h + 1].kind = "lbracket"
  <2>1. Inside(B, a, k)
    BY DEF ArrayShape
  <2>2. QED BY <1>1, <2>1, Encloses
<1>4. s[h + 1].elements \in Nat
  <2>1. s[h + 1] \in ABlock
    <3> HIDE DEF s, h
    <3>1. QED BY <1>2, <1>3 DEF Stacks
  <2>2. QED BY <2>1 DEF ABlock
<1>5. h + 1 \in 0 .. Len(s)
  BY <1>1, <1>3
<1>6. /\ Braces(B, a, k) \in Nat
      /\ h + 1 = Len(s) => Braces(B, a, k) = 0
      /\ (\E p \in (h + 1) + 1 .. Len(s) : s[p].kind = "lbrace") => Braces(B, a, k) > 0
  <2> HIDE DEF h, s
  <2>1. QED BY <1>2, <1>5, KindsAre DEF Braces, h, s
<1>7. Len(s) # h + 1 => /\ h + 2 \in (h + 1) + 1 .. Len(s)
                        /\ s[h + 2].kind = "lbrace"
                        /\ s[h + 2].element = s[h + 1].elements - 1
  BY <1>1, <1>2, <1>3 DEF ArrayShape, Elements
<1>8. Braces(B, a, k) = 0 <=> Len(s) = h + 1
  BY <1>6, <1>7
<1>9. ASSUME NEW index \in Int
      PROVE  InElement(B, a, k, index) <=>
               Braces(B, a, k) # 0 /\ Elements(B, a, k) = index + 1
  <2>1. InElement(B, a, k, index) <=> Len(s) >= h + 2 /\ s[h + 2].element = index
    BY DEF InElement, ArrayShape
  <2>2. Len(s) >= h + 2 <=> Len(s) # h + 1
    BY <1>1, <1>2, <1>3
  <2>3. Len(s) # h + 1 => (s[h + 2].element = index <=> s[h + 1].elements = index + 1)
    <3> DEFINE e == s[h + 2].element
               n == s[h + 1].elements
    <3>1. Len(s) # h + 1 => e = n - 1
      BY <1>7
    <3>2. n \in Nat
      BY <1>4
    <3> HIDE DEF e, n
    <3>3. Len(s) # h + 1 => (e = index <=> n = index + 1)
      <4> HIDE DEF s, h
      <4>1. QED BY ONLY <3>1, <3>2, index \in Int
    <3>4. QED BY <3>3 DEF e, n
  <2>4. Elements(B, a, k) = s[h + 1].elements
    BY DEF Elements
  <2> HIDE DEF s, h
  <2>5. QED BY <1>8, <2>1, <2>2, <2>3, <2>4
<1>10. QED BY <1>1, <1>2, <1>3, <1>4, <1>6, <1>8, <1>9 DEF Elements

(* How they change.                                                         *)
Same(B, a, k, more) ==
  /\ ArrayShape(B, a, k + 1)
  /\ Elements(B, a, k + 1) = Elements(B, a, k)
  /\ Braces(B, a, k + 1) = Braces(B, a, k) + more

LEMMA ArrayStarts ==
  ASSUME NEW lines, NEW B, WellFormed(B, lines),
         NEW a \in 1 .. Len(lines), lines[a].brackets = <<"lbracket">>
  PROVE  ArrayShape(B, a, a + 1) /\ Elements(B, a, a + 1) = 0 /\ Braces(B, a, a + 1) = 0
<1>1. Opening(lines[a])
  BY DEF Opening
<1>2. /\ Len(B[a]) \in Nat /\ Len(B[a + 1]) = Len(B[a]) + 1
      /\ B[a + 1][Len(B[a]) + 1].elements = 0
  BY <1>1, FileStep
<1>3. Inside(B, a, a + 1)
  BY <1>2 DEF Inside
<1>4. ArrayShape(B, a, a + 1)
  BY <1>2, <1>3 DEF ArrayShape
<1>5. a + 1 \in a + 1 .. Len(lines) + 1
  BY DEF WellFormed
<1>6. Braces(B, a, a + 1) = 0
  BY <1>2, <1>4, <1>5, ArrayFacts
<1>7. QED BY <1>2, <1>4, <1>6 DEF Elements

LEMMA ArrayStep ==
  ASSUME NEW lines, NEW B, WellFormed(B, lines),
         NEW a \in 1 .. Len(lines), lines[a].brackets = <<"lbracket">>,
         NEW k \in a + 1 .. Len(lines), ArrayShape(B, a, k)
  PROVE  LET brackets == lines[k].brackets
             open == Braces(B, a, k) # 0
         IN  /\ brackets = <<>> => Same(B, a, k, 0)
             /\ brackets = <<"lbracket">> => Same(B, a, k, 0) /\ open
             /\ brackets = <<"lbrace">> /\ open => Same(B, a, k, 1)
             /\ brackets = <<"lbrace">> /\ ~open =>
                  /\ ArrayShape(B, a, k + 1) /\ Braces(B, a, k + 1) = 1
                  /\ Elements(B, a, k + 1) = Elements(B, a, k) + 1
                  /\ lines[k].key = NoName
             /\ brackets = <<"rbrace">> => Same(B, a, k, -1) /\ open
             /\ brackets = <<"rbracket">> /\ open => Same(B, a, k, 0)
             /\ brackets = <<"rbracket">> /\ ~open => ~Inside(B, a, k + 1)
<1> DEFINE h == Len(B[a])
           s == B[k]
           t == B[k + 1]
           line == lines[k]
           d == Braces(B, a, k)
<1>1. /\ k \in 1 .. Len(lines) /\ k + 1 \in a + 1 .. Len(lines) + 1
      /\ k \in a + 1 .. Len(lines) + 1 /\ Len(lines) \in Nat
  BY DEF WellFormed
<1>2. /\ s \in Stacks /\ t \in Stacks /\ Len(s) \in Nat /\ Len(t) \in Nat
      /\ line \in Lines /\ Allowed(s, line) /\ t = AfterLine(s, line)
  <2>1. s \in Stacks /\ t \in Stacks /\ t = AfterLine(s, line)
    BY <1>1 DEF WellFormed, Opened
  <2>2. line \in Lines /\ Allowed(s, line)
    BY <1>1 DEF WellFormed
  <2>3. Len(s) \in Nat /\ Len(t) \in Nat
    <3> HIDE DEF s, t
    <3>1. QED BY <2>1 DEF Stacks
  <2>4. QED BY <2>1, <2>2, <2>3
<1>3. /\ h \in Nat /\ Len(s) >= h + 1 /\ s[h + 1].kind = "lbracket"
      /\ d \in Nat /\ (d = 0 <=> Len(s) = h + 1)
      /\ Elements(B, a, k) \in Nat
  <2>1. /\ Len(B[k]) \in Nat /\ Len(B[a]) \in Nat
        /\ Len(B[k]) >= Len(B[a]) + 1 /\ B[k][Len(B[a]) + 1].kind = "lbracket"
    BY <1>1, ArrayFacts
  <2>2. Elements(B, a, k) \in Nat /\ Braces(B, a, k) \in Nat
    BY <1>1, ArrayFacts
  <2>3. Braces(B, a, k) = 0 <=> Len(B[k]) = Len(B[a]) + 1
    BY <1>1, ArrayFacts
  <2>4. QED BY <2>1, <2>2, <2>3
<1>4. Len(s) >= h + 2 => /\ s[h + 2].kind = "lbrace"
                         /\ s[h + 2].element = s[h + 1].elements - 1
  BY DEF ArrayShape, Elements
<1>5. Inside(B, a, k + 1) <=> Len(t) > h
  BY InsideSteps DEF ArrayShape
<1>6. /\ d = Braces(B, a, k)
      /\ d = Kinds(s, h + 1, "lbrace") /\ Braces(B, a, k + 1) = Kinds(t, h + 1, "lbrace")
      /\ Elements(B, a, k) = s[h + 1].elements /\ Elements(B, a, k + 1) = t[h + 1].elements
  BY DEF Braces, Elements
<1>7. ArrayShape(B, a, k + 1) <=>
        /\ Len(t) > h
        /\ Len(t) >= h + 2 => /\ t[h + 2].kind = "lbrace"
                              /\ t[h + 2].element = t[h + 1].elements - 1
  BY <1>5 DEF ArrayShape, Elements
<1>8. s # <<>>
  BY <1>2, <1>3 DEF Stacks
<1>9. h + 1 \in 0 .. Len(s)
  BY <1>2, <1>3
<1> HIDE DEF h, s, t, line, d
<1>10. ASSUME line.brackets = <<>> PROVE Same(B, a, k, 0)
  <2>1. Len(t) = Len(s) /\ \A p \in 1 .. Len(s) : Alike(t[p], s[p]) /\ t[p].elements = s[p].elements
    BY <1>2, <1>10, PlainLine
  <2>2. Kinds(t, h + 1, "lbrace") = d
    BY <1>2, <1>6, <1>9, <2>1, KindsChange
  <2>3. t[h + 1].elements = s[h + 1].elements
    BY <1>2, <1>3, <2>1
  <2>4. Len(s) >= h + 2 => t[h + 2].kind = s[h + 2].kind /\ t[h + 2].element = s[h + 2].element
    BY <1>2, <1>3, <2>1 DEF Alike
  <2>5. ArrayShape(B, a, k + 1)
    BY <1>2, <1>3, <1>4, <1>7, <2>1, <2>3, <2>4
  <2>6. QED BY <1>3, <1>6, <2>2, <2>3, <2>5 DEF Same
<1>11. ASSUME Opening(line), d # 0
       PROVE  Same(B, a, k, IF line.brackets = <<"lbrace">> THEN 1 ELSE 0)
  <2>1. Len(s) >= h + 2
    BY <1>2, <1>3, <1>11
  <2>2. /\ Len(t) = Len(s) + 1 /\ t[Len(s) + 1].kind = line.brackets[1]
        /\ \A p \in 1 .. Len(s) : Alike(t[p], s[p])
        /\ \A p \in 1 .. Len(s) : p # Len(s) => t[p].elements = s[p].elements
    BY <1>2, <1>11, OpeningLine
  <2>3. Kinds(t, h + 1, "lbrace") = d + (IF t[Len(s) + 1].kind = "lbrace" THEN 1 ELSE 0)
    BY <1>2, <1>6, <1>9, <2>2, KindsChange
  <2>4. line.brackets[1] = "lbrace" <=> line.brackets = <<"lbrace">>
    BY <1>11 DEF Opening
  <2>5. /\ t[h + 1].elements = s[h + 1].elements
        /\ t[h + 2].kind = s[h + 2].kind /\ t[h + 2].element = s[h + 2].element
    BY <1>2, <1>3, <2>1, <2>2 DEF Alike
  <2>6. ArrayShape(B, a, k + 1)
    BY <1>2, <1>3, <1>4, <1>7, <2>1, <2>2, <2>5
  <2>7. QED BY <1>3, <1>6, <2>2, <2>3, <2>4, <2>5, <2>6 DEF Same
<1>12. ASSUME d = 0 PROVE line \in InAnArray
  BY <1>2, <1>3, <1>8, <1>12 DEF Allowed
<1>13. ASSUME d = 0, line.brackets = <<"lbrace">>
       PROVE  /\ ArrayShape(B, a, k + 1) /\ Braces(B, a, k + 1) = 1
              /\ Elements(B, a, k + 1) = Elements(B, a, k) + 1
              /\ line.key = NoName
  <2>1. Len(s) = h + 1 /\ Opening(line)
    BY <1>3, <1>13 DEF Opening
  <2>2. line.key = NoName
    BY <1>12, <1>13 DEF InAnArray, Bracket, Line
  <2>3. line.brackets[1] = "lbrace"
    BY <1>13
  <2>4. /\ Len(t) = Len(s) + 1 /\ t[Len(s) + 1].kind = "lbrace"
        /\ \A p \in 1 .. Len(s) : Alike(t[p], s[p])
        /\ t[Len(s) + 1].element = s[Len(s)].elements
        /\ t[Len(s)].elements = s[Len(s)].elements + 1
    <3>1. s # <<>> /\ s[Len(s)].kind = "lbracket"
      BY <1>3, <1>8, <2>1
    <3>2. Len(s) \in 1 .. Len(s)
      BY <1>3, <2>1
    <3>3. QED BY <1>2, <1>13, <2>1, <2>3, <3>1, <3>2, OpeningLine
  <2>5. Kinds(t, h + 1, "lbrace") = d + 1
    BY <1>2, <1>6, <1>9, <2>4, KindsChange
  <2>6. /\ t[h + 1].elements = s[h + 1].elements + 1
        /\ t[h + 2].kind = "lbrace" /\ t[h + 2].element = s[h + 1].elements
    BY <1>3, <2>1, <2>4
  <2>7. s[h + 1].elements \in Nat
    BY <1>3, <1>6
  <2>8. ArrayShape(B, a, k + 1)
    BY <1>2, <1>3, <1>7, <2>1, <2>4, <2>6, <2>7
  <2>9. QED BY <1>6, <1>13, <2>2, <2>5, <2>6, <2>8
<1>14. ASSUME Closing(line)
       PROVE  /\ Len(t) = Len(s) - 1
              /\ s[Len(s)].kind = "lbrace" <=> line.brackets = <<"rbrace">>
              /\ \A p \in 1 .. Len(t) : Alike(s[p], t[p]) /\ s[p].elements = t[p].elements
              /\ Len(s) > h + 1 =>
                   d = Kinds(t, h + 1, "lbrace") + (IF line.brackets = <<"rbrace">> THEN 1 ELSE 0)
  <2>1. /\ Len(t) = Len(s) - 1
        /\ \A p \in 1 .. Len(s) - 1 : Alike(t[p], s[p]) /\ t[p].elements = s[p].elements
    BY <1>2, <1>8, <1>14, ClosingLine
  <2>2. s[Len(s)].kind = "lbrace" <=> line.brackets = <<"rbrace">>
    BY <1>2, <1>14, AllowedBrackets
  <2>3. \A p \in 1 .. Len(t) : Alike(s[p], t[p]) /\ s[p].elements = t[p].elements
    BY <2>1 DEF Alike
  <2>4. ASSUME Len(s) > h + 1
        PROVE  d = Kinds(t, h + 1, "lbrace") + (IF line.brackets = <<"rbrace">> THEN 1 ELSE 0)
    <3>1. h + 1 \in 0 .. Len(t) /\ Len(s) = Len(t) + 1
      BY <1>2, <1>3, <2>1, <2>4
    <3>2. d = Kinds(t, h + 1, "lbrace") + (IF s[Len(t) + 1].kind = "lbrace" THEN 1 ELSE 0)
      BY <1>2, <1>6, <2>3, <3>1, KindsChange
    <3>3. QED BY <2>2, <3>1, <3>2
  <2>5. QED BY <2>1, <2>2, <2>3, <2>4
<1>15. ASSUME Closing(line), line.brackets = <<"rbrace">> \/ d # 0
       PROVE  Same(B, a, k, IF line.brackets = <<"rbrace">> THEN -1 ELSE 0) /\ d # 0
  <2>1. Len(s) >= h + 2
    <3>1. CASE d # 0
      BY <1>2, <1>3, <3>1
    <3>2. CASE line.brackets = <<"rbrace">>
      <4>1. s[Len(s)].kind = "lbrace"
        BY <1>14, <1>15, <3>2
      <4>2. Len(s) # h + 1
        BY <1>3, <4>1
      <4>3. QED BY <1>2, <1>3, <4>2
    <3>3. QED BY <1>15, <3>1, <3>2
  <2>2. /\ Len(t) = Len(s) - 1
        /\ t[h + 1].elements = s[h + 1].elements
        /\ Len(t) >= h + 2 => t[h + 2].kind = s[h + 2].kind /\ t[h + 2].element = s[h + 2].element
    BY <1>2, <1>3, <1>14, <1>15, <2>1 DEF Alike
  <2>3. ArrayShape(B, a, k + 1)
    BY <1>2, <1>3, <1>4, <1>7, <2>1, <2>2
  <2>4. d = Kinds(t, h + 1, "lbrace") + (IF line.brackets = <<"rbrace">> THEN 1 ELSE 0)
    BY <1>2, <1>3, <1>14, <1>15, <2>1
  <2>5. Kinds(t, h + 1, "lbrace") \in Nat
    <3>1. h + 1 \in 0 .. Len(t)
      BY <1>2, <1>3, <2>1, <2>2
    <3>2. QED BY <1>2, <3>1, KindsAre
  <2>6. d # 0
    BY <1>2, <1>3, <2>1
  <2>7. QED BY <1>3, <1>6, <2>2, <2>3, <2>4, <2>5, <2>6 DEF Same
<1>16. ASSUME line.brackets = <<"rbracket">>, d = 0 PROVE ~Inside(B, a, k + 1)
  <2>1. Len(t) = h
    BY <1>2, <1>3, <1>14, <1>16 DEF Closing
  <2>2. QED BY <1>3, <1>5, <2>1
<1>17. ASSUME line.brackets = <<"lbracket">> PROVE d # 0
  BY <1>12, <1>17 DEF InAnArray, Bracket, Line
<1>18. ASSUME line.brackets = <<"lbracket">> PROVE Same(B, a, k, 0)
  <2>1. Opening(line) /\ line.brackets # <<"lbrace">>
    BY <1>18 DEF Opening
  <2>2. (IF line.brackets = <<"lbrace">> THEN 1 ELSE 0) = 0
    BY <2>1
  <2>3. QED BY <1>11, <1>17, <1>18, <2>1, <2>2
<1>19. ASSUME line.brackets = <<"lbrace">>, d # 0 PROVE Same(B, a, k, 1)
  <2>1. Opening(line) /\ (IF line.brackets = <<"lbrace">> THEN 1 ELSE 0) = 1
    BY <1>19 DEF Opening
  <2>2. QED BY <1>11, <1>19, <2>1
<1>20. ASSUME line.brackets = <<"rbrace">> PROVE Same(B, a, k, -1) /\ d # 0
  <2>1. Closing(line) /\ (IF line.brackets = <<"rbrace">> THEN -1 ELSE 0) = -1
    BY <1>20 DEF Closing
  <2>2. QED BY <1>15, <1>20, <2>1
<1>21. ASSUME line.brackets = <<"rbracket">>, d # 0 PROVE Same(B, a, k, 0)
  <2>1. Closing(line) /\ line.brackets # <<"rbrace">>
    BY <1>21 DEF Closing
  <2>2. (IF line.brackets = <<"rbrace">> THEN -1 ELSE 0) = 0
    BY <2>1
  <2>3. QED BY <1>15, <1>21, <2>1, <2>2
<1>22. QED BY <1>10, <1>13, <1>16, <1>17, <1>18, <1>19, <1>20, <1>21 DEF line, d

(* What a line does to the walk, and to the array.                          *)
Moves(w, v, depth, element, start) ==
  /\ v.depth = depth /\ v.element = element /\ v.start = start
  /\ v.range = w.range /\ v.wanted = w.wanted /\ ~v.ended

Goes(w, v, B, a, k) ==
  \E m \in {-1, 0, 1} :
    /\ Same(B, a, k, m)
    /\ Moves(w, v, w.depth + m, w.element, w.start)
    /\ m = -1 => ~(w.depth = 1 /\ w.start # 0)

OpensElement(w, v, lines, B, a, k) ==
  /\ ArrayShape(B, a, k + 1) /\ Braces(B, a, k + 1) = 1
  /\ Elements(B, a, k + 1) = Elements(B, a, k) + 1
  /\ lines[k].key = NoName /\ w.depth = 0
  /\ Moves(w, v, 1, w.element + 1, IF w.element + 1 = w.wanted THEN k ELSE w.start)

ClosesElement(w, v, B, a, k) ==
  /\ Same(B, a, k, -1) /\ w.depth = 1 /\ w.start # 0
  /\ v.ended /\ v.range = <<w.start, k>> /\ v.wanted = w.wanted

ClosesArray(w, v, B, a, k) ==
  /\ ~Inside(B, a, k + 1) /\ w.depth = 0
  /\ v.ended /\ v.range = w.range /\ v.wanted = w.wanted

LEMMA WalkStep ==
  ASSUME NEW lines, NEW B, WellFormed(B, lines),
         NEW a \in 1 .. Len(lines), lines[a].brackets = <<"lbracket">>,
         NEW k \in a + 1 .. Len(lines), ArrayShape(B, a, k),
         NEW w \in Walks, ~w.ended, w.depth = Braces(B, a, k),
         NEW v, v = WalkLine(w, lines, k)
  PROVE  \/ Goes(w, v, B, a, k) \/ OpensElement(w, v, lines, B, a, k)
         \/ ClosesElement(w, v, B, a, k) \/ ClosesArray(w, v, B, a, k)
<1> DEFINE brackets == lines[k].brackets
<1>1. /\ k \in Int /\ lines[k] \in Lines /\ w.depth \in Int /\ k \in a + 1 .. Len(lines) + 1
  BY DEF WellFormed, Walks
<1>2. \/ brackets = <<>>
      \/ \E b \in {"lbrace", "rbrace", "lbracket", "rbracket"} : brackets = <<b>>
  BY <1>1, LineShape DEF Opening, Closing
<1>3. Moves(w, w, w.depth, w.element, w.start)
  BY DEF Moves
<1>4. \A d, e, s : Moves(w, Went(w, d, e, s), d, e, s)
  BY DEF Moves, Went, WalkOf
<1>5. \A r : LET u == Stopped(w, r) IN u.ended /\ u.range = r /\ u.wanted = w.wanted
  BY DEF Stopped, WalkOf
<1>6. \A b : brackets = <<b>> => v = Walk(w, b, k)
  BY WalkLineIs
<1>7. ASSUME Same(B, a, k, 0), v = w PROVE Goes(w, v, B, a, k)
  <2>1. w.depth + 0 = w.depth
    BY <1>1
  <2>2. QED BY <1>3, <1>7, <2>1 DEF Goes
<1>8. CASE brackets = <<>>
  <2>1. v = w
    BY <1>8, WalkLineIs
  <2>2. Same(B, a, k, 0)
    BY <1>8, ArrayStep
  <2>3. QED BY <1>7, <2>1, <2>2
<1>9. CASE brackets = <<"lbracket">>
  <2>1. v = w
    BY <1>1, <1>6, <1>9, WalkIs
  <2>2. Same(B, a, k, 0)
    BY <1>9, ArrayStep
  <2>3. QED BY <1>7, <2>1, <2>2
<1>10. CASE brackets = <<"lbrace">>
  <2>1. CASE w.depth # 0
    <3>1. v = Went(w, w.depth + 1, w.element, w.start)
      BY <1>1, <1>6, <1>10, <2>1, WalkIs
    <3>2. Same(B, a, k, 1)
      BY <1>10, <2>1, ArrayStep
    <3>3. Moves(w, v, w.depth + 1, w.element, w.start)
      BY <1>4, <3>1
    <3>4. Goes(w, v, B, a, k)
      BY <3>2, <3>3 DEF Goes
    <3>5. QED BY <3>4
  <2>2. CASE w.depth = 0
    <3> DEFINE start == IF w.element + 1 = w.wanted THEN k ELSE w.start
    <3>1. v = Went(w, 1, w.element + 1, start)
      BY <1>1, <1>6, <1>10, <2>2, WalkIs
    <3>2. Moves(w, v, 1, w.element + 1, start)
      BY <1>4, <3>1
    <3>3. /\ ArrayShape(B, a, k + 1) /\ Braces(B, a, k + 1) = 1
          /\ Elements(B, a, k + 1) = Elements(B, a, k) + 1
          /\ lines[k].key = NoName
      BY <1>10, <2>2, ArrayStep
    <3>4. QED BY <2>2, <3>2, <3>3 DEF OpensElement
  <2>3. QED BY <2>1, <2>2
<1>11. CASE brackets = <<"rbrace">>
  <2>1. Same(B, a, k, -1)
    BY <1>11, ArrayStep
  <2>2. CASE w.depth = 1 /\ w.start # 0
    <3>1. v = Stopped(w, <<w.start, k>>)
      BY <1>1, <1>6, <1>11, <2>2, WalkIs
    <3>2. v.ended /\ v.range = <<w.start, k>> /\ v.wanted = w.wanted
      BY <1>5, <3>1
    <3>3. QED BY <2>1, <2>2, <3>2 DEF ClosesElement
  <2>3. CASE ~(w.depth = 1 /\ w.start # 0)
    <3>1. v = Went(w, w.depth - 1, w.element, w.start)
      BY <1>1, <1>6, <1>11, <2>3, WalkIs
    <3>2. w.depth - 1 = w.depth + (-1)
      BY <1>1
    <3>3. Moves(w, v, w.depth + (-1), w.element, w.start)
      BY <1>4, <3>1, <3>2
    <3>4. Goes(w, v, B, a, k)
      BY <2>1, <2>3, <3>3 DEF Goes
    <3>5. QED BY <3>4
  <2>4. QED BY <2>2, <2>3
<1>12. CASE brackets = <<"rbracket">>
  <2>1. CASE w.depth # 0
    <3>1. v = w
      BY <1>1, <1>6, <1>12, <2>1, WalkIs
    <3>2. Same(B, a, k, 0)
      BY <1>12, <2>1, ArrayStep
    <3>3. QED BY <1>7, <3>1, <3>2
  <2>2. CASE w.depth = 0
    <3>1. v = Stopped(w, w.range)
      BY <1>1, <1>6, <1>12, <2>2, WalkIs
    <3>2. v.ended /\ v.range = w.range /\ v.wanted = w.wanted
      BY <1>5, <3>1
    <3>3. ~Inside(B, a, k + 1)
      BY <1>12, <2>2, ArrayStep
    <3>4. QED BY <2>2, <3>2, <3>3 DEF ClosesArray
  <2>3. QED BY <2>1, <2>2
<1>13. QED BY <1>2, <1>8, <1>9, <1>10, <1>11, <1>12

(* What the walk knows when it comes to a line: it looks for the element,   *)
(* is in it, or has ended.                                                  *)
Follows(w, B, a, k) ==
  /\ ~w.ended /\ w.range = NoRange
  /\ ArrayShape(B, a, k)
  /\ w.depth = Braces(B, a, k) /\ w.element = Elements(B, a, k) - 1

Looks(w, B, a, k, index) ==
  /\ Follows(w, B, a, k) /\ w.start = 0 /\ w.element < index
  /\ \A n \in a + 1 .. k : ~InElement(B, a, n, index)

IsIn(w, lines, B, a, k, index) ==
  /\ Follows(w, B, a, k) /\ w.element = index /\ w.depth > 0
  /\ w.start \in a + 1 .. k - 1 /\ lines[w.start].key = NoName
  /\ \A n \in a + 1 .. k : InElement(B, a, n, index) <=> w.start < n

HasLeft(w, lines, B, a, k, index) ==
  \E s \in a + 1 .. k - 1, e \in a + 1 .. k - 1 :
    /\ w.ended /\ w.range = <<s, e>> /\ lines[s].key = NoName
    /\ \A n \in a + 1 .. k : InElement(B, a, n, index) <=> s < n /\ n <= e
    /\ Inside(B, a, k) =>
         /\ ArrayShape(B, a, k)
         /\ \/ Elements(B, a, k) >= index + 2
            \/ Elements(B, a, k) = index + 1 /\ Braces(B, a, k) = 0

HasNone(w, B, a, k, index) ==
  /\ w.ended /\ w.range = NoRange /\ ~Inside(B, a, k)
  /\ \A n \in a + 1 .. k : ~InElement(B, a, n, index)

Knows(w, lines, B, a, k, index) ==
  /\ w \in Walks /\ w.wanted = index
  /\ \/ Looks(w, B, a, k, index)
     \/ IsIn(w, lines, B, a, k, index)
     \/ HasLeft(w, lines, B, a, k, index)
     \/ HasNone(w, B, a, k, index)

LEMMA LooksOn ==
  ASSUME NEW lines, NEW B, WellFormed(B, lines), NEW index \in Nat,
         NEW a \in 1 .. Len(lines), lines[a].brackets = <<"lbracket">>,
         NEW k \in a + 1 .. Len(lines),
         NEW w, Knows(w, lines, B, a, k, index), Looks(w, B, a, k, index),
         NEW v \in Walks, v = WalkLine(w, lines, k)
  PROVE  Knows(v, lines, B, a, k + 1, index)
<1> DEFINE In(n) == InElement(B, a, n, index)
<1>1. /\ w \in Walks /\ w.wanted = index /\ w.element \in Int
      /\ k \in a + 1 .. Len(lines) + 1 /\ k + 1 \in a + 1 .. Len(lines) + 1 /\ Len(lines) \in Nat
  <2>1. w \in Walks /\ w.wanted = index
    BY DEF Knows
  <2>2. w.element \in Int
    BY <2>1 DEF Walks
  <2>3. QED BY <2>1, <2>2 DEF WellFormed
<1>2. /\ ~w.ended /\ w.range = NoRange /\ ArrayShape(B, a, k)
      /\ w.depth = Braces(B, a, k) /\ w.element = Elements(B, a, k) - 1
      /\ w.start = 0 /\ w.element < index
      /\ \A n \in a + 1 .. k : ~In(n)
  BY DEF Looks, Follows
<1>3. Elements(B, a, k) \in Nat /\ Braces(B, a, k) \in Nat
  BY <1>1, <1>2, ArrayFacts
<1>4. \A n \in a + 1 .. k + 1 : n \in a + 1 .. k \/ n = k + 1
  BY <1>1
<1>5. ArrayShape(B, a, k + 1) =>
        /\ Elements(B, a, k + 1) \in Nat /\ Braces(B, a, k + 1) \in Nat
        /\ In(k + 1) <=> Braces(B, a, k + 1) # 0 /\ Elements(B, a, k + 1) = index + 1
  BY <1>1, ArrayFacts
<1> HIDE DEF In
<1>6. ASSUME NEW m \in {-1, 0, 1}, Same(B, a, k, m),
             Moves(w, v, w.depth + m, w.element, w.start)
      PROVE  Looks(v, B, a, k + 1, index) /\ v.wanted = index
  <2>1. /\ ArrayShape(B, a, k + 1) /\ Elements(B, a, k + 1) = Elements(B, a, k)
        /\ Braces(B, a, k + 1) = Braces(B, a, k) + m
    BY <1>6 DEF Same
  <2>2. /\ v.depth = w.depth + m /\ v.element = w.element /\ v.start = 0
        /\ v.range = NoRange /\ v.wanted = index /\ ~v.ended
    BY <1>1, <1>2, <1>6 DEF Moves
  <2>3. ~In(k + 1)
    BY <1>2, <1>3, <1>5, <2>1
  <2>4. \A n \in a + 1 .. k + 1 : ~In(n)
    BY <1>2, <1>4, <2>3
  <2>5. Follows(v, B, a, k + 1)
    BY <1>2, <2>1, <2>2 DEF Follows
  <2>6. QED BY <1>2, <2>2, <2>4, <2>5 DEF Looks, In
<1>7. ASSUME ArrayShape(B, a, k + 1), Braces(B, a, k + 1) = 1,
             Elements(B, a, k + 1) = Elements(B, a, k) + 1, lines[k].key = NoName,
             Moves(w, v, 1, w.element + 1, IF w.element + 1 = w.wanted THEN k ELSE w.start)
      PROVE  /\ v.wanted = index
             /\ Looks(v, B, a, k + 1, index) \/ IsIn(v, lines, B, a, k + 1, index)
  <2>1. /\ v.depth = 1 /\ v.element = w.element + 1 /\ v.range = NoRange
        /\ v.wanted = index /\ ~v.ended
        /\ v.start = IF w.element + 1 = index THEN k ELSE 0
    BY <1>1, <1>2, <1>7 DEF Moves
  <2>2. Follows(v, B, a, k + 1)
    BY <1>2, <1>3, <1>7, <2>1 DEF Follows
  <2>3. In(k + 1) <=> w.element + 1 = index
    <3>1. In(k + 1) <=> Elements(B, a, k + 1) = index + 1
      BY <1>5, <1>7
    <3>2. Elements(B, a, k) + 1 = index + 1 <=> w.element + 1 = index
      BY <1>2, <1>3
    <3>3. QED BY <1>7, <3>1, <3>2
  <2>4. CASE w.element + 1 = index
    <3>1. v.start = k /\ k \in a + 1 .. (k + 1) - 1 /\ v.element = index /\ v.depth > 0
      BY <1>1, <2>1, <2>4
    <3>2. \A n \in a + 1 .. k + 1 : In(n) <=> k < n
      BY <1>1, <1>2, <1>4, <2>3, <2>4
    <3>3. IsIn(v, lines, B, a, k + 1, index)
      BY <1>7, <2>2, <3>1, <3>2 DEF IsIn, In
    <3>4. QED BY <2>1, <3>3
  <2>5. CASE w.element + 1 # index
    <3>1. v.start = 0 /\ v.element < index
      BY <1>1, <1>2, <2>1, <2>5
    <3>2. \A n \in a + 1 .. k + 1 : ~In(n)
      BY <1>2, <1>4, <2>3, <2>5
    <3>3. Looks(v, B, a, k + 1, index)
      BY <2>2, <3>1, <3>2 DEF Looks, In
    <3>4. QED BY <2>1, <3>3
  <2>6. QED BY <2>4, <2>5
<1>8. ASSUME ~Inside(B, a, k + 1), v.ended, v.range = w.range, v.wanted = w.wanted
      PROVE  HasNone(v, B, a, k + 1, index) /\ v.wanted = index
  <2>1. ~In(k + 1)
    BY <1>8 DEF In, InElement
  <2>2. \A n \in a + 1 .. k + 1 : ~In(n)
    BY <1>2, <1>4, <2>1
  <2>3. QED BY <1>1, <1>2, <1>8, <2>2 DEF HasNone, In
<1>9. CASE Goes(w, v, B, a, k)
  BY <1>6, <1>9 DEF Goes, Knows
<1>10. CASE OpensElement(w, v, lines, B, a, k)
  BY <1>7, <1>10 DEF OpensElement, Knows
<1>11. CASE ClosesArray(w, v, B, a, k)
  BY <1>8, <1>11 DEF ClosesArray, Knows
<1>12. ~ClosesElement(w, v, B, a, k)
  BY <1>2 DEF ClosesElement
<1>13. QED BY <1>1, <1>2, <1>9, <1>10, <1>11, <1>12, WalkStep

LEMMA IsInOn ==
  ASSUME NEW lines, NEW B, WellFormed(B, lines), NEW index \in Nat,
         NEW a \in 1 .. Len(lines), lines[a].brackets = <<"lbracket">>,
         NEW k \in a + 1 .. Len(lines),
         NEW w, Knows(w, lines, B, a, k, index), IsIn(w, lines, B, a, k, index),
         NEW v \in Walks, v = WalkLine(w, lines, k)
  PROVE  Knows(v, lines, B, a, k + 1, index)
<1> DEFINE In(n) == InElement(B, a, n, index)
<1>1. /\ w \in Walks /\ w.wanted = index /\ w.depth \in Int
      /\ k \in a + 1 .. Len(lines) + 1 /\ k + 1 \in a + 1 .. Len(lines) + 1 /\ Len(lines) \in Nat
  <2>1. w \in Walks /\ w.wanted = index
    BY DEF Knows
  <2>2. w.depth \in Int
    BY <2>1 DEF Walks
  <2>3. QED BY <2>1, <2>2 DEF WellFormed
<1>2. /\ ~w.ended /\ w.range = NoRange /\ ArrayShape(B, a, k)
      /\ w.depth = Braces(B, a, k) /\ w.element = Elements(B, a, k) - 1
      /\ w.element = index /\ w.depth > 0
      /\ w.start \in a + 1 .. k - 1 /\ lines[w.start].key = NoName
      /\ \A n \in a + 1 .. k : In(n) <=> w.start < n
  BY DEF IsIn, Follows
<1>3. Elements(B, a, k) \in Nat /\ Braces(B, a, k) \in Nat
  BY <1>1, <1>2, ArrayFacts
<1>4. \A n \in a + 1 .. k + 1 : n \in a + 1 .. k \/ n = k + 1
  BY <1>1
<1>5. ArrayShape(B, a, k + 1) =>
        /\ Elements(B, a, k + 1) \in Nat /\ Braces(B, a, k + 1) \in Nat
        /\ In(k + 1) <=> Braces(B, a, k + 1) # 0 /\ Elements(B, a, k + 1) = index + 1
  BY <1>1, ArrayFacts
<1> HIDE DEF In
<1>6. ASSUME NEW m \in {-1, 0, 1}, Same(B, a, k, m),
             Moves(w, v, w.depth + m, w.element, w.start),
             m = -1 => ~(w.depth = 1 /\ w.start # 0)
      PROVE  IsIn(v, lines, B, a, k + 1, index) /\ v.wanted = index
  <2>1. /\ ArrayShape(B, a, k + 1) /\ Elements(B, a, k + 1) = Elements(B, a, k)
        /\ Braces(B, a, k + 1) = Braces(B, a, k) + m
    BY <1>6 DEF Same
  <2>2. /\ v.depth = w.depth + m /\ v.element = w.element /\ v.start = w.start
        /\ v.range = NoRange /\ v.wanted = index /\ ~v.ended
    BY <1>1, <1>2, <1>6 DEF Moves
  <2>3. w.start # 0 /\ w.start < k + 1 /\ w.start \in a + 1 .. (k + 1) - 1
    BY <1>1, <1>2
  <2>4. v.depth > 0
    BY <1>1, <1>2, <1>6, <2>2, <2>3
  <2>5. In(k + 1)
    BY <1>2, <1>3, <1>5, <2>1, <2>2, <2>4
  <2>6. \A n \in a + 1 .. k + 1 : In(n) <=> v.start < n
    BY <1>2, <1>4, <2>2, <2>3, <2>5
  <2>7. Follows(v, B, a, k + 1)
    BY <1>2, <2>1, <2>2 DEF Follows
  <2>8. QED BY <1>2, <2>2, <2>3, <2>4, <2>6, <2>7 DEF IsIn, In
<1>7. ASSUME Same(B, a, k, -1), w.depth = 1,
             v.ended, v.range = <<w.start, k>>, v.wanted = w.wanted
      PROVE  HasLeft(v, lines, B, a, k + 1, index) /\ v.wanted = index
  <2>1. /\ ArrayShape(B, a, k + 1) /\ Elements(B, a, k + 1) = index + 1
        /\ Braces(B, a, k + 1) = 0
    BY <1>2, <1>3, <1>7 DEF Same
  <2>2. ~In(k + 1)
    BY <1>5, <2>1
  <2>3. w.start \in a + 1 .. (k + 1) - 1 /\ k \in a + 1 .. (k + 1) - 1
    BY <1>1, <1>2
  <2>4. \A n \in a + 1 .. k + 1 : In(n) <=> w.start < n /\ n <= k
    BY <1>1, <1>2, <1>4, <2>2
  <2>5. QED BY <1>1, <1>2, <1>7, <2>1, <2>3, <2>4 DEF HasLeft, In
<1>8. w.depth # 0
  BY <1>1, <1>2
<1>9. CASE Goes(w, v, B, a, k)
  BY <1>6, <1>9 DEF Goes, Knows
<1>10. CASE ClosesElement(w, v, B, a, k)
  BY <1>7, <1>10 DEF ClosesElement, Knows
<1>11. ~OpensElement(w, v, lines, B, a, k) /\ ~ClosesArray(w, v, B, a, k)
  BY <1>8 DEF OpensElement, ClosesArray
<1>12. QED BY <1>1, <1>2, <1>9, <1>10, <1>11, WalkStep

LEMMA HasEndedOn ==
  ASSUME NEW lines, NEW B, WellFormed(B, lines), NEW index \in Nat,
         NEW a \in 1 .. Len(lines), lines[a].brackets = <<"lbracket">>,
         NEW k \in a + 1 .. Len(lines),
         NEW w, Knows(w, lines, B, a, k, index), w.ended,
         NEW v \in Walks, v = WalkLine(w, lines, k)
  PROVE  Knows(v, lines, B, a, k + 1, index)
<1> DEFINE In(n) == InElement(B, a, n, index)
<1>1. /\ w \in Walks /\ w.wanted = index /\ k \in Int
      /\ k \in a + 1 .. Len(lines) + 1 /\ k + 1 \in a + 1 .. Len(lines) + 1 /\ Len(lines) \in Nat
  BY DEF Knows, WellFormed
<1>2. lines[k] \in Lines
  BY <1>1 DEF WellFormed
<1>3. v = w
  <2>1. \A b : Walk(w, b, k) = w
    <3>1. w \in Walks /\ k \in Int
      BY <1>1
    <3>2. \A b : w.ended => Walk(w, b, k) = w
      BY ONLY <3>1, WalkIs
    <3>3. QED BY <3>2
  <2>2. lines[k].brackets = <<>> \/ \E b : lines[k].brackets = <<b>>
    BY <1>2, LineShape DEF Opening, Closing
  <2>3. QED BY <2>1, <2>2, WalkLineIs
<1>4. Inside(B, a, k + 1) => Inside(B, a, k)
  BY InsideSteps
<1>5. \A n \in a + 1 .. k + 1 : n \in a + 1 .. k \/ n = k + 1
  BY <1>1
<1>6. In(k + 1) => Inside(B, a, k + 1)
  BY DEF InElement
<1>7. ArrayShape(B, a, k + 1) =>
        /\ Elements(B, a, k + 1) \in Nat /\ Braces(B, a, k + 1) \in Nat
        /\ In(k + 1) <=> Braces(B, a, k + 1) # 0 /\ Elements(B, a, k + 1) = index + 1
  BY <1>1, ArrayFacts
<1>8. ArrayShape(B, a, k) => Elements(B, a, k) \in Nat /\ Braces(B, a, k) \in Nat
  BY <1>1, ArrayFacts
<1> HIDE DEF In
<1>9. CASE HasNone(w, B, a, k, index)
  <2>1. ~Inside(B, a, k + 1)
    BY <1>4, <1>9 DEF HasNone
  <2>2. \A n \in a + 1 .. k + 1 : ~In(n)
    BY <1>5, <1>6, <1>9, <2>1 DEF HasNone, In
  <2>3. HasNone(v, B, a, k + 1, index)
    BY <1>3, <1>9, <2>1, <2>2 DEF HasNone, In
  <2>4. QED BY <1>1, <1>3, <2>3 DEF Knows
<1>10. CASE HasLeft(w, lines, B, a, k, index)
  <2>1. PICK s \in a + 1 .. k - 1, e \in a + 1 .. k - 1 :
          /\ w.ended /\ w.range = <<s, e>> /\ lines[s].key = NoName
          /\ \A n \in a + 1 .. k : In(n) <=> s < n /\ n <= e
          /\ Inside(B, a, k) =>
               /\ ArrayShape(B, a, k)
               /\ \/ Elements(B, a, k) >= index + 2
                  \/ Elements(B, a, k) = index + 1 /\ Braces(B, a, k) = 0
    BY <1>10 DEF HasLeft, In
  <2> DEFINE Past == /\ ArrayShape(B, a, k + 1)
                     /\ \/ Elements(B, a, k + 1) >= index + 2
                        \/ Elements(B, a, k + 1) = index + 1 /\ Braces(B, a, k + 1) = 0
  <2>2. ASSUME Inside(B, a, k + 1) PROVE Past
    <3>1. /\ ArrayShape(B, a, k) /\ Elements(B, a, k) \in Nat /\ Braces(B, a, k) \in Nat
          /\ \/ Elements(B, a, k) >= index + 2
             \/ Elements(B, a, k) = index + 1 /\ Braces(B, a, k) = 0
      BY <1>4, <1>8, <2>1, <2>2
    <3> DEFINE brackets == lines[k].brackets
               open == Braces(B, a, k) # 0
    <3>2. /\ brackets = <<>> => Same(B, a, k, 0)
          /\ brackets = <<"lbracket">> => Same(B, a, k, 0) /\ open
          /\ brackets = <<"lbrace">> /\ open => Same(B, a, k, 1)
          /\ brackets = <<"lbrace">> /\ ~open =>
               /\ ArrayShape(B, a, k + 1)
               /\ Elements(B, a, k + 1) = Elements(B, a, k) + 1
          /\ brackets = <<"rbrace">> => Same(B, a, k, -1) /\ open
          /\ brackets = <<"rbracket">> /\ open => Same(B, a, k, 0)
          /\ brackets = <<"rbracket">> /\ ~open => ~Inside(B, a, k + 1)
      BY <3>1, ArrayStep
    <3>3. \/ brackets = <<>> \/ brackets = <<"lbracket">> \/ brackets = <<"lbrace">>
          \/ brackets = <<"rbrace">> \/ brackets = <<"rbracket">>
      BY <1>2, LineShape DEF Opening, Closing
    <3>4. \A m \in {-1, 0, 1} : Same(B, a, k, m) =>
            /\ ArrayShape(B, a, k + 1) /\ Elements(B, a, k + 1) = Elements(B, a, k)
            /\ Braces(B, a, k + 1) = Braces(B, a, k) + m
      BY DEF Same
    <3> HIDE DEF brackets, open
    <3>5. ASSUME NEW m \in {-1, 0, 1}, Same(B, a, k, m), open \/ m = 0 PROVE Past
      BY <3>1, <3>4, <3>5 DEF open
    <3>6. ASSUME ArrayShape(B, a, k + 1), Elements(B, a, k + 1) = Elements(B, a, k) + 1
          PROVE  Past
      BY <3>1, <3>6
    <3> HIDE DEF Past
    <3>7. QED BY <2>2, <3>2, <3>3, <3>5, <3>6
  <2>3. ~In(k + 1)
    BY <1>6, <1>7, <2>2
  <2>4. \A n \in a + 1 .. k + 1 : In(n) <=> s < n /\ n <= e
    BY <1>1, <1>5, <2>1, <2>3
  <2>5. s \in a + 1 .. (k + 1) - 1 /\ e \in a + 1 .. (k + 1) - 1
    BY <1>1
  <2>6. HasLeft(v, lines, B, a, k + 1, index)
    BY <1>3, <2>1, <2>2, <2>4, <2>5 DEF HasLeft, In
  <2>7. QED BY <1>1, <1>3, <2>6 DEF Knows
<1>11. ~Looks(w, B, a, k, index) /\ ~IsIn(w, lines, B, a, k, index)
  BY DEF Looks, IsIn, Follows
<1>12. QED BY <1>9, <1>10, <1>11 DEF Knows

LEMMA KnowsAtStart ==
  ASSUME NEW lines, NEW B, WellFormed(B, lines), NEW index \in Nat,
         NEW a \in 1 .. Len(lines), lines[a].brackets = <<"lbracket">>
  PROVE  /\ WalkLine(StartWalk(index), lines, a) = StartWalk(index)
         /\ Knows(StartWalk(index), lines, B, a, a + 1, index)
<1> DEFINE w == StartWalk(index)
<1>1. /\ w \in Walks /\ ~w.ended /\ w.depth = 0 /\ w.element = -1 /\ w.wanted = index
      /\ w.start = 0 /\ w.range = NoRange
  BY DEF StartWalk, Walks, NoRange
<1> HIDE DEF w
<1>2. Walk(w, "lbracket", a) = w
  <2>1. a \in Int
    OBVIOUS
  <2>2. ~w.ended => Walk(w, "lbracket", a) = w
    BY ONLY <1>1, <2>1, WalkIs
  <2>3. QED BY <1>1, <2>2
<1>3. WalkLine(w, lines, a) = w
  BY <1>2, WalkLineIs
<1>4. ArrayShape(B, a, a + 1) /\ Elements(B, a, a + 1) = 0 /\ Braces(B, a, a + 1) = 0
  BY ArrayStarts
<1>5. a + 1 \in a + 1 .. Len(lines) + 1
  BY DEF WellFormed
<1>6. ~InElement(B, a, a + 1, index)
  BY <1>4, <1>5, ArrayFacts
<1>7. \A n \in a + 1 .. a + 1 : n = a + 1
  OBVIOUS
<1>8. Looks(w, B, a, a + 1, index)
  BY <1>1, <1>4, <1>6, <1>7 DEF Looks, Follows
<1>9. QED BY <1>1, <1>3, <1>8 DEF Knows, w

LEMMA ElementIsFound ==
  ASSUME NEW lines, NEW B, WellFormed(B, lines), NEW index \in Nat,
         NEW a \in 1 .. Len(lines), lines[a].brackets = <<"lbracket">>,
         B[Len(lines) + 1] = <<>>, NEW n \in 1 .. Len(lines), lines[n].key # NoName
  PROVE  Within(n, Walked(lines, a, index).range) <=> InElement(B, a, n, index)
<1> DEFINE m == Len(lines)
<1>1. m \in Nat /\ lines \in Seq(Lines) /\ index \in Int /\ a \in 1 .. m + 1 /\ m + 1 \in a + 1 .. m + 1
  BY DEF WellFormed
<1>2. PICK v \in [a - 1 .. m -> Walks] :
        /\ v[a - 1] = StartWalk(index)
        /\ \A j \in a .. m : v[j] = WalkLine(v[j - 1], lines, j)
        /\ Walked(lines, a, index) = v[m]
  BY <1>1, WalkedSteps
<1> DEFINE S == {k \in a .. m : Knows(v[k], lines, B, a, k + 1, index)}
<1>3. a \in S
  <2>1. a \in a .. m
    BY <1>1
  <2>2. v[a] = WalkLine(StartWalk(index), lines, a)
    BY <1>2, <2>1
  <2>3. v[a] = StartWalk(index)
    BY <2>2, KnowsAtStart
  <2>4. QED BY <2>1, <2>3, KnowsAtStart
<1>4. ASSUME NEW j \in a .. m - 1, j \in S PROVE j + 1 \in S
  <2> DEFINE k == j + 1
             w == v[j]
             u == v[k]
  <2>1. /\ k \in a .. m /\ j \in a - 1 .. m /\ k \in a - 1 .. m
        /\ k \in a + 1 .. Len(lines) /\ k - 1 = j
    BY <1>1
  <2>2. u \in Walks /\ u = WalkLine(w, lines, k) /\ Knows(w, lines, B, a, k, index)
    BY <1>2, <1>4, <2>1
  <2> SUFFICES Knows(u, lines, B, a, k + 1, index)
    BY <2>1
  <2> HIDE DEF k, w, u, m, S
  <2>3. CASE Looks(w, B, a, k, index)
    BY <2>1, <2>2, <2>3, LooksOn
  <2>4. CASE IsIn(w, lines, B, a, k, index)
    BY <2>1, <2>2, <2>4, IsInOn
  <2>5. CASE w.ended
    BY <2>1, <2>2, <2>5, HasEndedOn
  <2>6. HasLeft(w, lines, B, a, k, index) \/ HasNone(w, B, a, k, index) => w.ended
    BY DEF HasLeft, HasNone
  <2>7. \/ Looks(w, B, a, k, index) \/ IsIn(w, lines, B, a, k, index)
        \/ HasLeft(w, lines, B, a, k, index) \/ HasNone(w, B, a, k, index)
    BY <2>2 DEF Knows
  <2>8. QED BY <2>3, <2>4, <2>5, <2>6, <2>7
<1>5. Knows(v[m], lines, B, a, m + 1, index)
  <2>1. a \in Int /\ m \in Int /\ m \in a .. m
    BY <1>1
  <2> HIDE DEF S, m
  <2>2. a .. m \subseteq S
    BY ONLY <1>3, <1>4, <2>1, IntervalInduction
  <2>3. m \in S
    BY <2>1, <2>2
  <2>4. QED BY <2>3 DEF S
<1> DEFINE w == v[m]
<1> HIDE DEF m, w
<1>6. ~Inside(B, a, m + 1)
  <2>1. Len(B[m + 1]) = 0 /\ Len(B[a]) \in Nat
    BY <1>1, FileStep DEF m
  <2>2. ~(Len(B[m + 1]) > Len(B[a]))
    BY <2>1
  <2>3. QED BY <1>1, <2>2 DEF Inside
<1>7. HasLeft(w, lines, B, a, m + 1, index) \/ HasNone(w, B, a, m + 1, index)
  BY <1>5, <1>6 DEF Knows, Looks, IsIn, Follows, ArrayShape, w
<1>8. InElement(B, a, n, index) => a < n
  BY DEF InElement, Inside
<1>9. n \in 1 .. m /\ (a < n => n \in a + 1 .. m + 1)
  BY <1>1 DEF m
<1>10. CASE HasNone(w, B, a, m + 1, index)
  <2>1. w.range[1] = 0 /\ w.range[2] = 0
    BY <1>10 DEF HasNone, NoRange
  <2>2. ~Within(n, w.range)
    BY <2>1 DEF Within
  <2>3. ~InElement(B, a, n, index)
    BY <1>8, <1>9, <1>10 DEF HasNone
  <2>4. QED BY <1>2, <2>2, <2>3 DEF w, m
<1>11. CASE HasLeft(w, lines, B, a, m + 1, index)
  <2>1. PICK s \in a + 1 .. (m + 1) - 1, e \in a + 1 .. (m + 1) - 1 :
          /\ w.range = <<s, e>> /\ lines[s].key = NoName
          /\ \A k \in a + 1 .. m + 1 : InElement(B, a, k, index) <=> s < k /\ k <= e
    BY <1>11 DEF HasLeft
  <2>2. w.range[1] = s /\ w.range[2] = e /\ n # s /\ s > a
    BY <1>1, <2>1
  <2>3. Within(n, w.range) <=> s < n /\ n <= e
    BY <1>1, <2>1, <2>2 DEF Within
  <2>4. Within(n, w.range) <=> InElement(B, a, n, index)
    BY <1>1, <1>8, <1>9, <2>1, <2>2, <2>3
  <2>5. QED BY <1>2, <2>4 DEF w, m
<1>12. QED BY <1>7, <1>10, <1>11

-----------------------------------------------------------------------------
(* Resources                                                                *)

LEMMA HasMin ==
  ASSUME NEW a \in Nat, NEW b \in Nat, NEW S \in SUBSET (a .. b), S # {}
  PROVE  Min(S) \in S /\ \A y \in S : Min(S) <= y
<1> DEFINE U == {b - y + 1 : y \in S}
<1>1. U \in SUBSET (1 .. b + 1) /\ U # {} /\ b + 1 \in Nat
  <2>1. \A y \in S : y \in a .. b /\ b - y + 1 \in 1 .. b + 1
    OBVIOUS
  <2>2. \A u \in U : u \in 1 .. b + 1
    BY <2>1
  <2>3. \E y \in S : TRUE
    OBVIOUS
  <2>4. U # {}
    BY <2>3
  <2> HIDE DEF U
  <2>5. QED BY <2>2, <2>4
<1>2. Max(U) \in U /\ \A u \in U : u <= Max(U)
  <2> HIDE DEF U
  <2>1. QED BY <1>1, HasMax
<1>3. PICK x \in S : Max(U) = b - x + 1
  BY <1>2
<1>4. \A y \in S : x <= y
  <2>1. \A y \in S : b - y + 1 \in U
    OBVIOUS
  <2>2. \A y \in S : y \in Int
    OBVIOUS
  <2> HIDE DEF U
  <2>3. QED BY <1>2, <1>3, <2>1, <2>2
<1>5. Min(S) = x
  BY <1>4, MinIs
<1>6. QED BY <1>4, <1>5

LEMMA BlockEndIs ==
  ASSUME NEW lines, NEW B, WellFormed(B, lines), B[Len(lines) + 1] = <<>>,
         NEW i \in 1 .. Len(lines), lines[i].brackets = <<"lbrace">>
  PROVE  /\ BlockEnd(lines, i) \in i + 1 .. Len(lines)
         /\ \A n \in i + 1 .. Len(lines) + 1 : Inside(B, i, n) <=> n <= BlockEnd(lines, i)
<1> DEFINE m == Len(lines)
           ends == {j \in i .. m : Opens(lines, i, j, "lbrace")
                                   /\ Depth(lines, i, j, "lbrace", "rbrace") = 0}
<1>1. m \in Nat /\ Opening(lines[i]) /\ m + 1 \in i + 1 .. m + 1
  BY DEF WellFormed, Opening
<1>2. ~Inside(B, i, m + 1)
  <2>1. Len(B[m + 1]) = 0 /\ Len(B[i]) \in Nat
    BY <1>1, FileStep
  <2>2. ~(Len(B[m + 1]) > Len(B[i]))
    BY <2>1
  <2>3. QED BY <1>1, <2>2 DEF Inside
<1>3. PICK e \in i + 1 .. (m + 1) - 1 :
        Inside(B, i, e) /\ Len(B[e + 1]) = Len(B[i]) /\ Closing(lines[e])
  BY <1>1, <1>2, HasExit
<1>4. /\ e \in i + 1 .. m /\ e \in i .. m /\ e + 1 \in i + 1 .. m + 1
      /\ e \in Int /\ e \in 1 .. m
  BY <1>1
<1>5. ~(Len(B[e + 1]) > Len(B[i]))
  BY <1>1, <1>3, FileStep
<1>6. ~Inside(B, i, e + 1)
  BY <1>4, <1>5 DEF Inside
<1>7. e \in ends
  <2>1. Depth(lines, i, e, "lbrace", "rbrace") = 0
    BY <1>1, <1>3, <1>4, <1>6, DepthTells
  <2>2. Count(lines[i], "lbrace") > 0
    <3>1. lines[i] \in Lines
      BY DEF WellFormed
    <3>2. QED BY <3>1, CountIs
  <2>3. Opens(lines, i, e, "lbrace")
    BY <1>4, <2>2 DEF Opens
  <2>4. QED BY <1>4, <2>1, <2>3
<1>8. ASSUME NEW j \in ends PROVE e <= j
  <2> SUFFICES ASSUME j < e PROVE FALSE
    BY <1>4
  <2>1. j \in i .. m /\ Depth(lines, i, j, "lbrace", "rbrace") = 0
    OBVIOUS
  <2>2. j = i \/ Inside(B, i, j)
    BY <1>3, <1>4, <2>1 DEF Inside
  <2>3. Inside(B, i, j + 1)
    BY <1>3, <1>4, <2>1 DEF Inside
  <2>4. Depth(lines, i, j, "lbrace", "rbrace") > 0
    <3>1. lines[i].brackets # <<"lbracket">>
      OBVIOUS
    <3>2. QED BY <1>1, <2>1, <2>2, <2>3, <3>1, DepthTells
  <2>5. QED BY <2>1, <2>4
<1>9. BlockEnd(lines, i) = e
  <2>1. ends \in SUBSET Int
    BY <1>1
  <2>2. BlockEnd(lines, i) = IF ends = {} THEN i ELSE Min(ends)
    BY DEF BlockEnd
  <2> HIDE DEF ends
  <2>3. Min(ends) = e
    BY <1>7, <1>8, <2>1, MinIs
  <2>4. QED BY <1>7, <2>2, <2>3
<1>10. ASSUME NEW n \in i + 1 .. m + 1 PROVE Inside(B, i, n) <=> n <= e
  <2>1. n <= e => Inside(B, i, n)
    BY <1>3, <1>4 DEF Inside
  <2>2. n > e => e + 1 \in i + 1 .. n
    BY <1>4
  <2>3. n > e => ~Inside(B, i, n)
    BY <1>5, <2>2 DEF Inside
  <2>4. QED BY <1>4, <2>1, <2>3
<1>11. QED BY <1>4, <1>9, <1>10

(* The lines where resources of the type are declared.                      *)
Declared(lines, type) == {i \in 1 .. Len(lines) : lines[i].type = type /\ type # NoName}

LEMMA DeclaredIs ==
  ASSUME NEW lines, NEW B, WellFormed(B, lines), NEW type, NEW i \in Declared(lines, type)
  PROVE  /\ i \in 1 .. Len(lines) /\ lines[i].type = type /\ type # NoName
         /\ B[i] = <<>> /\ lines[i].brackets = <<"lbrace">> /\ lines[i].key = NoName
<1>1. i \in 1 .. Len(lines) /\ lines[i].type = type /\ type # NoName
  BY DEF Declared
<1>2. lines[i] \in Lines /\ B[i] \in Stacks /\ Allowed(B[i], lines[i])
  <2>1. B[i] \in Stacks
    BY <1>1, FileStep
  <2>2. QED BY <1>1, <2>1 DEF WellFormed
<1>3. B[i] = <<>>
  BY <1>1, <1>2, AllowedBrackets
<1>4. lines[i].brackets = <<"lbrace">> /\ lines[i].key = NoName
  BY <1>2, <1>3, AllowedBrackets
<1>5. QED BY <1>1, <1>3, <1>4

LEMMA RangesAre ==
  ASSUME NEW lines, NEW B, WellFormed(B, lines), B[Len(lines) + 1] = <<>>, NEW type
  PROVE  /\ FindResourceBlockRange(lines, type) =
              {<<i, BlockEnd(lines, i)>> : i \in Declared(lines, type)}
         /\ \A i, k \in Declared(lines, type) : k < i => BlockEnd(lines, k) < i
<1> DEFINE D == Declared(lines, type)
<1>1. \A i \in D : i \in 1 .. Len(lines) /\ lines[i].brackets = <<"lbrace">> /\ B[i] = <<>>
  BY DeclaredIs
<1>2. ASSUME NEW i \in D, NEW k \in D, k < i PROVE BlockEnd(lines, k) < i
  <2>1. /\ i \in 1 .. Len(lines) /\ k \in 1 .. Len(lines) /\ B[i] = <<>>
        /\ lines[k].brackets = <<"lbrace">>
    BY <1>1
  <2>2. BlockEnd(lines, k) \in k + 1 .. Len(lines) /\ (Inside(B, k, i) <=> i <= BlockEnd(lines, k))
    <3>1. i \in k + 1 .. Len(lines) + 1
      BY <1>2, <2>1
    <3>2. QED BY <2>1, <3>1, BlockEndIs
  <2>3. ~Inside(B, k, i)
    <3>1. Len(B[i]) = 0 /\ Len(B[k]) \in Nat
      BY <2>1, FileStep
    <3>2. ~(Len(B[i]) > Len(B[k])) /\ i \in k + 1 .. i
      BY <1>2, <2>1, <3>1
    <3>3. QED BY <3>2 DEF Inside
  <2>4. QED BY <2>1, <2>2, <2>3
<1>3. D = {i \in DOMAIN lines : lines[i].type = type /\ type # NoName}
  BY DEF Declared, WellFormed
<1> HIDE DEF D
<1>4. {j \in D : \A k \in D : k < j => BlockEnd(lines, k) < j} = D
  BY <1>2
<1>5. FindResourceBlockRange(lines, type) =
        {<<i, BlockEnd(lines, i)>> : i \in {j \in D : \A k \in D : k < j => BlockEnd(lines, k) < j}}
  BY <1>3, Zenon DEF FindResourceBlockRange
<1>6. QED BY <1>2, <1>4, <1>5 DEF D

RangeOf(lines, i) == <<i, BlockEnd(lines, i)>>

(* The resources a line is in, as the search has them.                      *)
RangesOver(lines, type, n) == {r \in FindResourceBlockRange(lines, type) : Within(n, r)}

LEMMA InResource ==
  ASSUME NEW lines, NEW B, WellFormed(B, lines), B[Len(lines) + 1] = <<>>, NEW type,
         NEW i \in Declared(lines, type),
         NEW n \in 1 .. Len(lines), lines[n].key # NoName
  PROVE  /\ Within(n, RangeOf(lines, i)) <=> i <= n /\ n <= BlockEnd(lines, i)
         /\ Within(n, RangeOf(lines, i)) <=> Inside(B, i, n)
         /\ Within(n, RangeOf(lines, i)) => RangesOver(lines, type, n) = {RangeOf(lines, i)}
<1>1. i \in 1 .. Len(lines) /\ lines[i].brackets = <<"lbrace">> /\ lines[i].key = NoName
  BY DeclaredIs
<1>2. Within(n, RangeOf(lines, i)) <=> i <= n /\ n <= BlockEnd(lines, i)
  BY DEF Within, RangeOf
<1>3. i # n /\ Len(lines) \in Nat
  BY <1>1 DEF WellFormed
<1>4. Within(n, RangeOf(lines, i)) <=> Inside(B, i, n)
  <2>1. CASE i < n
    <3>1. n \in i + 1 .. Len(lines) + 1
      BY <1>1, <1>3, <2>1
    <3>2. Inside(B, i, n) <=> n <= BlockEnd(lines, i)
      BY <1>1, <3>1, BlockEndIs
    <3>3. QED BY <1>1, <1>2, <2>1, <3>2
  <2>2. CASE ~(i < n)
    BY <1>1, <1>2, <1>3, <2>2 DEF Inside
  <2>3. QED BY <2>1, <2>2
<1>5. ASSUME NEW k \in Declared(lines, type), Within(n, RangeOf(lines, i)), Within(n, RangeOf(lines, k))
      PROVE  k = i
  <2>1. k \in 1 .. Len(lines) /\ lines[k].brackets = <<"lbrace">>
    BY DeclaredIs
  <2>2. BlockEnd(lines, i) \in Int /\ BlockEnd(lines, k) \in Int
    BY <1>1, <2>1, BlockEndIs
  <2>3. /\ k < i => BlockEnd(lines, k) < i
        /\ i < k => BlockEnd(lines, i) < k
    BY RangesAre
  <2>4. i <= n /\ n <= BlockEnd(lines, i) /\ k <= n /\ n <= BlockEnd(lines, k)
    BY <1>2, <1>5 DEF Within, RangeOf
  <2>5. QED BY <1>1, <2>1, <2>2, <2>3, <2>4
<1>6. ASSUME Within(n, RangeOf(lines, i)) PROVE RangesOver(lines, type, n) = {RangeOf(lines, i)}
  <2>1. FindResourceBlockRange(lines, type) = {RangeOf(lines, k) : k \in Declared(lines, type)}
    BY RangesAre DEF RangeOf
  <2>2. \A r \in RangesOver(lines, type, n) : r = RangeOf(lines, i)
    BY <1>5, <1>6, <2>1 DEF RangesOver
  <2>3. RangeOf(lines, i) \in RangesOver(lines, type, n)
    BY <1>6, <2>1 DEF RangesOver
  <2>4. QED BY <2>2, <2>3
<1>7. QED BY <1>2, <1>4, <1>6

LEMMA HasResource ==
  ASSUME NEW lines, NEW B, WellFormed(B, lines), B[Len(lines) + 1] = <<>>, NEW type, NEW n
  PROVE  RangesOver(lines, type, n) # {} <=>
           \E i \in Declared(lines, type) : Within(n, RangeOf(lines, i))
<1>1. FindResourceBlockRange(lines, type) = {RangeOf(lines, k) : k \in Declared(lines, type)}
  BY RangesAre DEF RangeOf
<1>2. QED BY <1>1 DEF RangesOver

LEMMA ResourceIsBlock ==
  ASSUME NEW lines, NEW B, WellFormed(B, lines), B[Len(lines) + 1] = <<>>,
         NEW type, type # NoName,
         NEW n \in 1 .. Len(lines), lines[n].key # NoName
  PROVE  RangesOver(lines, type, n) # {} <=> \E p \in 1 .. Len(B[n]) : B[n][p].type = type
<1>1. RangesOver(lines, type, n) # {} <=>
        \E i \in Declared(lines, type) : Within(n, RangeOf(lines, i))
  BY HasResource
<1>2. ASSUME NEW i \in Declared(lines, type), Within(n, RangeOf(lines, i))
      PROVE  \E p \in 1 .. Len(B[n]) : B[n][p].type = type
  <2>1. i \in 1 .. Len(lines) /\ lines[i].brackets = <<"lbrace">> /\ lines[i].type = type
    BY DeclaredIs
  <2>2. Opening(lines[i])
    BY <2>1 DEF Opening
  <2>3. Inside(B, i, n)
    BY <1>2, InResource
  <2>4. n \in i + 1 .. Len(lines) + 1
    BY <2>1, <2>3 DEF Inside, WellFormed
  <2>5. QED BY <2>1, <2>2, <2>3, <2>4, Encloses
<1>3. ASSUME NEW p \in 1 .. Len(B[n]), B[n][p].type = type
      PROVE  \E i \in Declared(lines, type) : Within(n, RangeOf(lines, i))
  <2>1. n \in 1 .. Len(lines) + 1 /\ Len(lines) \in Nat
    BY DEF WellFormed
  <2>2. PICK i \in 1 .. n - 1 : Opening(lines[i]) /\ Len(B[i]) = p - 1 /\ Inside(B, i, n)
    BY <2>1, HasOpener
  <2>3. i \in 1 .. Len(lines) /\ n \in i + 1 .. Len(lines) + 1
    BY <2>1
  <2>4. lines[i].type = type
    <3>1. B[n][Len(B[i]) + 1].type = lines[i].type
      BY <2>2, <2>3, Encloses
    <3>2. Len(B[i]) + 1 = p
      BY <2>2, <2>3, FileStep
    <3>3. QED BY <1>3, <3>1, <3>2
  <2>5. i \in Declared(lines, type)
    BY <2>3, <2>4 DEF Declared
  <2>6. Within(n, RangeOf(lines, i))
    BY <2>2, <2>5, InResource
  <2>7. QED BY <2>5, <2>6
<1>4. QED BY <1>1, <1>2, <1>3

-----------------------------------------------------------------------------
(* Elements                                                                 *)

Given(lines, name) == {a \in 1 .. Len(lines) : lines[a].key = name}

LEMMA GivenIsArray ==
  ASSUME NEW lines, NEW B, WellFormed(B, lines), NEW name \in Arrays,
         Spelled(B, lines, name), NEW a \in Given(lines, name)
  PROVE  /\ a \in 1 .. Len(lines) /\ lines[a].key = name /\ name # NoName
         /\ Opening(lines[a]) /\ lines[a].brackets = <<"lbracket">>
<1>1. /\ a \in 1 .. Len(lines) /\ lines[a].key = name /\ Opening(lines[a])
      /\ lines[a] \in Lines /\ name # NoName /\ name \notin Objects
  BY NamesAssumption DEF Given, Spelled, WellFormed
<1> DEFINE P(l) == l.key \in Arrays /\ l.key \notin Objects /\ l.key # NoName /\ Opening(l)
                     => l.brackets = <<"lbracket">>
<1>2. \A l : l.key = NoName \/ l.key \in Objects \/ l.brackets \in {<<>>, <<"lbracket">>}
              => P(l)
  BY DEF Opening
<1>3. \A type : P(Resource(type))
  BY <1>2 DEF Resource, Line
<1>4. /\ \A x \in Objects : P(Property(x, <<"lbrace">>))
      /\ \A x : P(Property(x, <<"lbracket">>)) /\ P(Property(x, <<>>)) /\ P(Mention(x))
  BY <1>2 DEF Property, Mention, Line
<1>5. \A x : P(Comment(x))
  <2>1. \A x : Comment(x).brackets = <<>>
    BY DEF Comment, Line
  <2>2. QED BY <1>2, <2>1
<1>6. \A b : P(Bracket(b))
  BY <1>2 DEF Bracket, Line
<1>7. P(lines[a])
  <2> HIDE DEF P
  <2>1. QED BY <1>1, <1>3, <1>4, <1>5, <1>6 DEF Lines, InAnObject, InAnArray
<1>8. QED BY <1>1, <1>7

LEMMA ElementBlocks ==
  ASSUME NEW lines, NEW B, WellFormed(B, lines), NEW name \in Arrays,
         Spelled(B, lines, name), NEW index, NEW n \in 1 .. Len(lines)
  PROVE  (\E p \in 1 .. Len(B[n]) :
            B[n][p].key = name /\ p < Len(B[n]) /\ B[n][p + 1].element = index)
         <=> \E a \in Given(lines, name) : InElement(B, a, n, index)
<1>1. n \in 1 .. Len(lines) + 1 /\ Len(lines) \in Nat /\ Len(B[n]) \in Nat
  BY FileStep DEF WellFormed
<1>2. ASSUME NEW p \in 1 .. Len(B[n]),
             B[n][p].key = name, p < Len(B[n]), B[n][p + 1].element = index
      PROVE  \E a \in Given(lines, name) : InElement(B, a, n, index)
  <2>1. PICK a \in 1 .. n - 1 : Opening(lines[a]) /\ Len(B[a]) = p - 1 /\ Inside(B, a, n)
    BY <1>1, HasOpener
  <2>2. a \in 1 .. Len(lines) /\ n \in a + 1 .. Len(lines) + 1
    BY <1>1
  <2>3. Len(B[a]) + 1 = p /\ Len(B[a]) + 2 = p + 1
    BY <2>1, <2>2, FileStep
  <2>4. lines[a].key = name
    <3>1. B[n][Len(B[a]) + 1].key = lines[a].key
      BY <2>1, <2>2, Encloses
    <3>2. QED BY <1>2, <2>3, <3>1
  <2>5. a \in Given(lines, name)
    BY <2>2, <2>4 DEF Given
  <2>6. Len(B[n]) >= Len(B[a]) + 2 /\ B[n][Len(B[a]) + 2].element = index
    BY <1>1, <1>2, <2>3
  <2>7. QED BY <2>1, <2>5, <2>6 DEF InElement
<1>3. ASSUME NEW a \in Given(lines, name), InElement(B, a, n, index)
      PROVE  \E p \in 1 .. Len(B[n]) :
               B[n][p].key = name /\ p < Len(B[n]) /\ B[n][p + 1].element = index
  <2>1. /\ a \in 1 .. Len(lines) /\ lines[a].key = name /\ Opening(lines[a])
    BY GivenIsArray
  <2>2. Inside(B, a, n) /\ Len(B[n]) >= Len(B[a]) + 2 /\ B[n][Len(B[a]) + 2].element = index
    BY <1>3 DEF InElement
  <2>3. n \in a + 1 .. Len(lines) + 1
    BY <1>1, <2>1, <2>2 DEF Inside
  <2>4. B[n][Len(B[a]) + 1].key = name /\ Len(B[a]) + 1 \in 1 .. Len(B[n])
    BY <2>1, <2>2, <2>3, Encloses
  <2>5. Len(B[a]) \in Nat
    BY <2>1, FileStep
  <2>6. Len(B[a]) + 1 < Len(B[n]) /\ (Len(B[a]) + 1) + 1 = Len(B[a]) + 2
    BY <1>1, <2>2, <2>5
  <2>7. QED BY <2>2, <2>4, <2>6
<1>4. QED BY <1>2, <1>3

LEMMA FirstArray ==
  ASSUME NEW lines, NEW B, WellFormed(B, lines), NEW name \in Arrays,
         Spelled(B, lines, name), NEW index, NEW from \in 1 .. Len(lines)
  PROVE  LET later == {a \in Given(lines, name) : from <= a}
         IN  FindArrayElementRange(lines, name, index, from) =
               IF later = {} THEN NoRange ELSE Walked(lines, Min(later), index).range
<1> DEFINE m == Len(lines)
           later == {a \in Given(lines, name) : from <= a}
           I == {i \in from .. m : lines[i].key = name}
           array == IF I # {} THEN Min(I) ELSE 0
           to == Min({array + 2, m})
           K == {i \in array .. to : Count(lines[i], "lbracket") > 0}
           bracket == IF K # {} THEN Min(K) ELSE 0
<1>1. m \in Nat /\ from \in Nat /\ lines \in Seq(Lines)
  BY DEF WellFormed
<1>2. I = later
  BY <1>1 DEF Given
<1>3. FindArrayElementRange(lines, name, index, from) =
        IF array = 0 \/ bracket = 0 THEN NoRange ELSE Walked(lines, bracket, index).range
  BY Zenon DEF FindArrayElementRange, SelectInSubSeq
<1>4. ASSUME later # {} PROVE array = Min(later) /\ array # 0 /\ bracket = array
  <2>1. array = Min(later)
    BY <1>2, <1>4
  <2>2. array \in Given(lines, name) /\ array \in from .. m
    <3>1. I \in SUBSET (from .. m) /\ I # {}
      BY <1>2, <1>4
    <3> HIDE DEF I
    <3>2. Min(I) \in I
      BY <1>1, <3>1, HasMin
    <3>3. QED BY <1>2, <1>4, <3>1, <3>2
  <2> HIDE DEF array, later, I
  <2>3. array \in 1 .. m /\ lines[array].brackets = <<"lbracket">> /\ lines[array] \in Lines
    BY <1>1, <2>2, GivenIsArray
  <2>4. Count(lines[array], "lbracket") = 1
    BY <2>3, CountIs
  <2>5. to \in Int /\ array <= to
    <3> DEFINE T == {array + 2, m}
    <3>1. T \in SUBSET Int
      BY <1>1, <2>3
    <3>2. CASE array + 2 <= m
      <4>1. array + 2 \in T /\ \A y \in T : array + 2 <= y
        BY <2>3, <3>2
      <4>2. Min(T) = array + 2
        BY ONLY <3>1, <4>1, MinIs
      <4>3. QED BY <2>3, <4>2
    <3>3. CASE ~(array + 2 <= m)
      <4>1. m \in T /\ \A y \in T : m <= y
        BY <1>1, <2>3, <3>3
      <4>2. Min(T) = m
        BY ONLY <3>1, <4>1, MinIs
      <4>3. QED BY <1>1, <2>3, <4>2
    <3>4. QED BY <3>2, <3>3
  <2> HIDE DEF to
  <2>6. array \in K /\ K \in SUBSET Int /\ \A y \in K : array <= y
    BY <2>3, <2>4, <2>5
  <2>7. Min(K) = array
    <3> HIDE DEF K
    <3>1. QED BY <2>6, MinIs
  <2>8. K # {}
    BY <2>6
  <2> HIDE DEF K
  <2>9. QED BY <2>1, <2>3, <2>7, <2>8
<1>5. later = {} => array = 0
  BY <1>2
<1> HIDE DEF array, bracket, later, I
<1>6. QED BY <1>3, <1>4, <1>5 DEF later

(* Where the search starts for the arrays around a line.                    *)
SearchStart(lines, type, n) ==
  LET start == {r[1] : r \in RangesOver(lines, type, n)}
  IN  IF start = {} THEN 1 ELSE Min(start)

(* The name of an array is given once where it is looked for.               *)
GivenOnce(lines, name, type) ==
  \A a, b \in Given(lines, name) :
    a # b => type # NoName /\ RangesOver(lines, type, a) # RangesOver(lines, type, b)

LEMMA StartIsRight ==
  ASSUME NEW lines, NEW B, WellFormed(B, lines), B[Len(lines) + 1] = <<>>,
         NEW name \in Arrays, Spelled(B, lines, name), NEW index, NEW type,
         GivenOnce(lines, name, type),
         NEW n \in 1 .. Len(lines), lines[n].key # NoName,
         type # NoName => RangesOver(lines, type, n) # {}
  PROVE  /\ SearchStart(lines, type, n) \in 1 .. Len(lines)
         /\ \A b \in Given(lines, name) : InElement(B, b, n, index) =>
              /\ SearchStart(lines, type, n) <= b
              /\ \A a \in Given(lines, name) : SearchStart(lines, type, n) <= a /\ a <= b => a = b
<1> DEFINE from == SearchStart(lines, type, n)
<1>1. Len(lines) \in Nat /\ n \in 1 .. Len(lines)
  BY DEF WellFormed
<1>2. \A b \in Given(lines, name) : b \in 1 .. Len(lines) /\ lines[b].key # NoName
  BY GivenIsArray
<1>3. CASE type = NoName
  <2>1. Declared(lines, type) = {}
    BY <1>3 DEF Declared
  <2>2. FindResourceBlockRange(lines, type) = {}
    BY <2>1, RangesAre
  <2>3. {r[1] : r \in RangesOver(lines, type, n)} = {}
    BY <2>2 DEF RangesOver
  <2>4. from = 1
    BY <2>3 DEF SearchStart
  <2>5. \A a, b \in Given(lines, name) : a = b
    BY <1>3 DEF GivenOnce
  <2>6. QED BY <1>1, <1>2, <2>4, <2>5
<1>4. CASE type # NoName
  <2>1. PICK i \in Declared(lines, type) : Within(n, RangeOf(lines, i))
    BY <1>4, HasResource
  <2>2. i \in 1 .. Len(lines) /\ B[i] = <<>>
    BY DeclaredIs
  <2>3. from = i
    <3>1. RangesOver(lines, type, n) = {RangeOf(lines, i)}
      BY <2>1, InResource
    <3>2. RangeOf(lines, i)[1] = i
      BY DEF RangeOf
    <3>3. {r[1] : r \in RangesOver(lines, type, n)} = {i}
      BY <3>1, <3>2
    <3>4. Min({i}) = i
      <4>1. {i} \in SUBSET Int /\ i \in {i} /\ \A y \in {i} : i <= y
        BY <2>2
      <4>2. QED BY ONLY <4>1, MinIs
    <3>5. QED BY <3>3, <3>4 DEF SearchStart
  <2>4. i <= n /\ n <= BlockEnd(lines, i)
    BY <2>1, InResource
  <2>5. ASSUME NEW b \in Given(lines, name), InElement(B, b, n, index)
        PROVE  i <= b /\ b < n
    <3>1. b < n /\ \A k \in b + 1 .. n : Len(B[k]) > Len(B[b])
      BY <2>5 DEF InElement, Inside
    <3>2. Len(B[i]) = 0 /\ Len(B[b]) \in Nat
      BY <1>2, <2>2, FileStep
    <3>3. i \notin b + 1 .. n
      BY <3>1, <3>2
    <3>4. QED BY <1>1, <1>2, <2>2, <2>4, <3>1, <3>3
  <2>6. BlockEnd(lines, i) \in Int
    <3>1. lines[i].brackets = <<"lbrace">>
      BY DeclaredIs
    <3>2. QED BY <2>2, <3>1, BlockEndIs
  <2>7. ASSUME NEW a \in Given(lines, name), i <= a, a < n
        PROVE  RangesOver(lines, type, a) = {RangeOf(lines, i)}
    <3>1. a \in 1 .. Len(lines) /\ lines[a].key # NoName /\ a <= BlockEnd(lines, i)
      BY <1>1, <1>2, <2>4, <2>6, <2>7
    <3>2. QED BY <2>7, <3>1, InResource
  <2>8. ASSUME NEW a \in Given(lines, name), NEW b \in Given(lines, name),
               InElement(B, b, n, index), i <= a, a <= b
        PROVE  a = b
    <3>1. i <= b /\ b < n /\ a < n
      BY <1>1, <1>2, <2>5, <2>8
    <3>2. RangesOver(lines, type, a) = RangesOver(lines, type, b)
      BY <2>7, <2>8, <3>1
    <3>3. QED BY <3>2 DEF GivenOnce
  <2>9. QED BY <2>2, <2>3, <2>5, <2>8
<1>5. QED BY <1>3, <1>4

LEMMA ArrayIsFound ==
  ASSUME NEW lines, NEW B, WellFormed(B, lines), B[Len(lines) + 1] = <<>>,
         NEW name \in Arrays, Spelled(B, lines, name), NEW index \in Nat, NEW type,
         GivenOnce(lines, name, type),
         NEW n \in 1 .. Len(lines), lines[n].key # NoName,
         type # NoName => RangesOver(lines, type, n) # {}
  PROVE  Within(n, FindArrayElementRange(lines, name, index, SearchStart(lines, type, n)))
         <=> \E p \in 1 .. Len(B[n]) :
               B[n][p].key = name /\ p < Len(B[n]) /\ B[n][p + 1].element = index
<1> DEFINE from == SearchStart(lines, type, n)
           later == {a \in Given(lines, name) : from <= a}
           range == FindArrayElementRange(lines, name, index, from)
<1>1. /\ from \in 1 .. Len(lines)
      /\ \A b \in Given(lines, name) : InElement(B, b, n, index) =>
           /\ from <= b
           /\ \A a \in Given(lines, name) : from <= a /\ a <= b => a = b
  BY StartIsRight
<1>2. Len(lines) \in Nat
  BY DEF WellFormed
<1> HIDE DEF from
<1>3. range = IF later = {} THEN NoRange ELSE Walked(lines, Min(later), index).range
  BY <1>1, FirstArray
<1> HIDE DEF range
<1>4. Within(n, range) <=> \E a \in Given(lines, name) : InElement(B, a, n, index)
  <2>1. CASE later = {}
    <3>1. ~Within(n, range)
      <4>1. range[2] = 0
        BY <1>3, <2>1 DEF NoRange
      <4>2. QED BY <4>1 DEF Within
    <3>2. \A a \in Given(lines, name) : ~InElement(B, a, n, index)
      BY <1>1, <2>1
    <3>3. QED BY <3>1, <3>2
  <2>2. CASE later # {}
    <3> DEFINE a == Min(later)
    <3>1. a \in later /\ \A y \in later : a <= y
      <4>1. later \in SUBSET (1 .. Len(lines))
        BY DEF Given
      <4>2. 1 \in Nat
        OBVIOUS
      <4> HIDE DEF later
      <4>3. QED BY <1>2, <2>2, <4>1, <4>2, HasMin
    <3> HIDE DEF a
    <3>2. a \in Given(lines, name) /\ from <= a
      BY <3>1
    <3>3. a \in 1 .. Len(lines) /\ lines[a].brackets = <<"lbracket">>
      BY <3>2, GivenIsArray
    <3>4. range = Walked(lines, a, index).range
      BY <1>3, <2>2 DEF a
    <3>5. Within(n, range) <=> InElement(B, a, n, index)
      BY <3>3, <3>4, ElementIsFound
    <3>6. \A b \in Given(lines, name) : InElement(B, b, n, index) => a = b
      BY <1>1, <3>1, <3>2
    <3>7. QED BY <3>2, <3>5, <3>6
  <2>3. QED BY <2>1, <2>2
<1>5. (\E p \in 1 .. Len(B[n]) :
         B[n][p].key = name /\ p < Len(B[n]) /\ B[n][p + 1].element = index)
      <=> \E a \in Given(lines, name) : InElement(B, a, n, index)
  BY ElementBlocks
<1>6. QED BY <1>4, <1>5 DEF range, from

-----------------------------------------------------------------------------
(* Terms                                                                    *)

(* What becomes of the steps kept so far.                                   *)
WithMeaningful(kept, x) ==
  IF x.name = "properties" THEN kept ELSE Append(kept, x)

WithIndexed(kept, x) ==
  IF x.name = "properties" \/ x.index = NoIndex THEN kept ELSE Append(kept, x)

LEMMA MeaningfulSteps ==
  ASSUME NEW Q, NEW path \in Seq(Q)
  PROVE  \E d : /\ d[0] = <<>> /\ Meaningful(path) = d[Len(path)]
                /\ \A j \in 1 .. Len(path) :
                     d[j] = WithMeaningful(d[j - 1], path[j])
<1> DEFINE m == Len(path)
           V == Seq(Q)
           Is(g) == g = [i \in 0 .. m |->
                           IF i = 0 THEN <<>>
                           ELSE IF path[i].name = "properties" THEN g[i - 1]
                           ELSE Append(g[i - 1], path[i])]
           step == [q \in V \X (1 .. m) |-> WithMeaningful(q[1], path[q[2]])]
<1>1. m \in Nat /\ \A j \in 1 .. m : path[j] \in Q
  OBVIOUS
<1>2. \A kept \in V : \A j \in 1 .. m : WithMeaningful(kept, path[j]) \in V
  BY <1>1 DEF WithMeaningful
<1>3. step \in [V \X (1 .. m) -> V]
  BY <1>2
<1>4. <<>> \in V
  OBVIOUS
<1>5. PICK g \in [0 .. m -> V] :
        g[0] = <<>> /\ \A j \in 1 .. m : g[j] = step[<<g[j - 1], j>>]
  <2>1. IsStep(step, m, V)
    BY <1>3 DEF IsStep
  <2> HIDE DEF step, m
  <2>2. PICK g : IsRun(g, step, m, V, <<>>)
    BY <1>1, <1>4, <2>1, Recursion
  <2>3. QED BY <2>2 DEF IsRun
<1>6. ASSUME NEW j \in 1 .. m PROVE g[j] = WithMeaningful(g[j - 1], path[j])
  <2> HIDE DEF V, m
  <2>1. <<g[j - 1], j>> \in V \X (1 .. m)
    BY <1>1, <1>5
  <2>2. step[<<g[j - 1], j>>] = WithMeaningful(g[j - 1], path[j])
    BY <2>1
  <2>3. QED BY <1>5, <2>2
<1>7. Is(g)
  <2>1. g = [k \in 0 .. m |-> g[k]]
    BY <1>5
  <2>2. \A k \in 0 .. m : g[k] = IF k = 0 THEN <<>>
                                 ELSE IF path[k].name = "properties" THEN g[k - 1]
                                 ELSE Append(g[k - 1], path[k])
    <3> HIDE DEF V, m, step
    <3>1. \A k \in 0 .. m : k = 0 \/ k \in 1 .. m
      BY <1>1
    <3>2. QED BY <1>5, <1>6, <3>1 DEF WithMeaningful
  <2>3. QED BY <2>1, <2>2
<1> DEFINE d == CHOOSE h : Is(h)
<1>8. Is(d)
  <2> HIDE DEF Is
  <2>1. QED BY <1>7
<1>9. Meaningful(path) = d[m]
  BY Zenon DEF Meaningful
<1> HIDE DEF d
<1>10. d[0] = <<>> /\ \A j \in 1 .. m : d[j] = WithMeaningful(d[j - 1], path[j])
  <2> HIDE DEF m
  <2>1. \A k \in 1 .. m : k \in 0 .. m /\ k # 0
    BY <1>1
  <2>2. 0 \in 0 .. m
    BY <1>1
  <2>3. QED BY <1>8, <2>1, <2>2 DEF WithMeaningful
<1>11. QED BY <1>9, <1>10

LEMMA IndexedSteps ==
  ASSUME NEW Q, NEW path \in Seq(Q)
  PROVE  \E d : /\ d[0] = <<>> /\ Indexed(path) = d[Len(path)]
                /\ \A j \in 1 .. Len(path) :
                     d[j] = WithIndexed(d[j - 1], path[j])
<1> DEFINE m == Len(path)
           V == Seq(Q)
           Is(g) == g = [i \in 0 .. m |->
                           IF i = 0 THEN <<>>
                           ELSE IF path[i].name = "properties" \/ path[i].index = NoIndex
                                THEN g[i - 1]
                           ELSE Append(g[i - 1], path[i])]
           step == [q \in V \X (1 .. m) |-> WithIndexed(q[1], path[q[2]])]
<1>1. m \in Nat /\ \A j \in 1 .. m : path[j] \in Q
  OBVIOUS
<1>2. \A kept \in V : \A j \in 1 .. m : WithIndexed(kept, path[j]) \in V
  BY <1>1 DEF WithIndexed
<1>3. step \in [V \X (1 .. m) -> V]
  BY <1>2
<1>4. <<>> \in V
  OBVIOUS
<1>5. PICK g \in [0 .. m -> V] :
        g[0] = <<>> /\ \A j \in 1 .. m : g[j] = step[<<g[j - 1], j>>]
  <2>1. IsStep(step, m, V)
    BY <1>3 DEF IsStep
  <2> HIDE DEF step, m
  <2>2. PICK g : IsRun(g, step, m, V, <<>>)
    BY <1>1, <1>4, <2>1, Recursion
  <2>3. QED BY <2>2 DEF IsRun
<1>6. ASSUME NEW j \in 1 .. m PROVE g[j] = WithIndexed(g[j - 1], path[j])
  <2> HIDE DEF V, m
  <2>1. <<g[j - 1], j>> \in V \X (1 .. m)
    BY <1>1, <1>5
  <2>2. step[<<g[j - 1], j>>] = WithIndexed(g[j - 1], path[j])
    BY <2>1
  <2>3. QED BY <1>5, <2>2
<1>7. Is(g)
  <2>1. g = [k \in 0 .. m |-> g[k]]
    BY <1>5
  <2>2. \A k \in 0 .. m : g[k] = IF k = 0 THEN <<>>
                                 ELSE IF path[k].name = "properties" \/ path[k].index = NoIndex
                                      THEN g[k - 1]
                                 ELSE Append(g[k - 1], path[k])
    <3> HIDE DEF V, m, step
    <3>1. \A k \in 0 .. m : k = 0 \/ k \in 1 .. m
      BY <1>1
    <3>2. QED BY <1>5, <1>6, <3>1 DEF WithIndexed
  <2>3. QED BY <2>1, <2>2
<1> DEFINE d == CHOOSE h : Is(h)
<1>8. Is(d)
  <2> HIDE DEF Is
  <2>1. QED BY <1>7
<1>9. Indexed(path) = d[m]
  BY Zenon DEF Indexed
<1> HIDE DEF d
<1>10. d[0] = <<>> /\ \A j \in 1 .. m : d[j] = WithIndexed(d[j - 1], path[j])
  <2> HIDE DEF m
  <2>1. \A k \in 1 .. m : k \in 0 .. m /\ k # 0
    BY <1>1
  <2>2. 0 \in 0 .. m
    BY <1>1
  <2>3. QED BY <1>8, <2>1, <2>2 DEF WithIndexed
<1>11. QED BY <1>9, <1>10

LEMMA SameShort ==
  ASSUME NEW S, NEW s \in Seq(S), NEW t \in Seq(S), Len(s) = Len(t), Len(s) \in 1 .. 3,
         s[1] = t[1], Len(s) >= 2 => s[2] = t[2], Len(s) = 3 => s[3] = t[3]
  PROVE  s = t
<1>1. \A i \in 1 .. Len(s) : i = 1 \/ (i = 2 /\ Len(s) >= 2) \/ (i = 3 /\ Len(s) = 3)
  OBVIOUS
<1>2. \A i \in 1 .. Len(s) : s[i] = t[i]
  BY <1>1
<1>3. QED BY <1>2, SeqEqual

LEMMA ShortSequences ==
  ASSUME NEW x, NEW y, NEW z
  PROVE  /\ <<x>> # <<>> /\ <<x, y>> # <<>> /\ <<x, y, z>> # <<>>
         /\ Append(<<>>, x) = <<x>> /\ Append(<<x>>, y) = <<x, y>>
         /\ Append(<<x, y>>, z) = <<x, y, z>>
         /\ Last(<<x>>) = x /\ Last(<<x, y>>) = y /\ Last(<<x, y, z>>) = z
         /\ Front(<<x>>) = <<>> /\ Front(<<x, y>>) = <<x>> /\ Front(<<x, y, z>>) = <<x, y>>
<1> DEFINE S == {x, y, z}
<1>1. /\ <<>> \in Seq(S) /\ <<x>> \in Seq(S) /\ <<x, y>> \in Seq(S) /\ <<x, y, z>> \in Seq(S)
      /\ Len(<<>>) = 0 /\ Len(<<x>>) = 1 /\ Len(<<x, y>>) = 2 /\ Len(<<x, y, z>>) = 3
      /\ <<x>>[1] = x /\ <<x, y>>[1] = x /\ <<x, y>>[2] = y
      /\ <<x, y, z>>[1] = x /\ <<x, y, z>>[2] = y /\ <<x, y, z>>[3] = z
      /\ x \in S /\ y \in S /\ z \in S
  OBVIOUS
<1> DEFINE a == Append(<<>>, x)
           b == Append(<<x>>, y)
           c == Append(<<x, y>>, z)
<1>2. /\ a \in Seq(S) /\ Len(a) = 1 /\ a[1] = x
      /\ b \in Seq(S) /\ Len(b) = 2 /\ b[1] = x /\ b[2] = y
  <2> HIDE DEF S
  <2>1. QED BY <1>1
<1>3. /\ c \in Seq(S) /\ Len(c) = 3 /\ c[1] = x /\ c[2] = y /\ c[3] = z
  <2> HIDE DEF S
  <2>1. QED BY <1>1
<1>4. Last(<<x>>) = x /\ Last(<<x, y>>) = y /\ Last(<<x, y, z>>) = z
  BY <1>1 DEF Last
<1> DEFINE f == Front(<<x, y>>)
           g == Front(<<x, y, z>>)
<1>5. Front(<<x>>) = <<>>
  <2>1. 0 < 1 /\ 0 \in Int /\ 1 \in Int
    OBVIOUS
  <2>2. SubSeq(<<x>>, 1, 0) = <<>>
    BY ONLY <2>1, SubSeqEmpty
  <2>3. Len(<<x>>) - 1 = 0
    BY <1>1
  <2>4. QED BY <2>2, <2>3 DEF Front
<1>6. f \in Seq(S) /\ Len(f) = 1 /\ f[1] = x
  <2> HIDE DEF S
  <2>1. QED BY <1>1 DEF Front
<1>7. g \in Seq(S) /\ Len(g) = 2 /\ g[1] = x /\ g[2] = y
  <2> HIDE DEF S
  <2>1. QED BY <1>1 DEF Front
<1> HIDE DEF S, a, b, c, f, g
<1>8. a = <<x>> /\ f = <<x>>
  BY <1>1, <1>2, <1>6, SameShort
<1>9. b = <<x, y>> /\ g = <<x, y>>
  BY <1>1, <1>2, <1>7, SameShort
<1>10. c = <<x, y, z>>
  BY <1>1, <1>3, SameShort
<1>11. <<x>> # <<>> /\ <<x, y>> # <<>> /\ <<x, y, z>> # <<>>
  BY <1>1
<1>12. QED BY <1>4, <1>5, <1>8, <1>9, <1>10, <1>11 DEF a, b, c, f, g

LEMMA PathOfOne ==
  ASSUME NEW x, NEW path, path = <<x>>
  PROVE  /\ Meaningful(path) = WithMeaningful(<<>>, x)
         /\ Indexed(path) = WithIndexed(<<>>, x)
<1>1. path \in Seq({x}) /\ Len(path) = 1 /\ path[1] = x
  OBVIOUS
<1>2. PICK d : /\ d[0] = <<>> /\ Meaningful(path) = d[Len(path)]
               /\ \A j \in 1 .. Len(path) : d[j] = WithMeaningful(d[j - 1], path[j])
  BY <1>1, MeaningfulSteps
<1>3. PICK e : /\ e[0] = <<>> /\ Indexed(path) = e[Len(path)]
               /\ \A j \in 1 .. Len(path) : e[j] = WithIndexed(e[j - 1], path[j])
  BY <1>1, IndexedSteps
<1>4. 1 \in 1 .. Len(path) /\ 1 - 1 = 0
  BY <1>1
<1>5. d[1] = WithMeaningful(d[0], x) /\ e[1] = WithIndexed(e[0], x)
  BY <1>1, <1>2, <1>3, <1>4
<1>6. QED BY <1>1, <1>2, <1>3, <1>5

LEMMA PathOfTwo ==
  ASSUME NEW x, NEW y, NEW path, path = <<x, y>>
  PROVE  /\ Meaningful(path) = WithMeaningful(WithMeaningful(<<>>, x), y)
         /\ Indexed(path) = WithIndexed(WithIndexed(<<>>, x), y)
<1>1. path \in Seq({x, y}) /\ Len(path) = 2 /\ path[1] = x /\ path[2] = y
  OBVIOUS
<1>2. PICK d : /\ d[0] = <<>> /\ Meaningful(path) = d[Len(path)]
               /\ \A j \in 1 .. Len(path) : d[j] = WithMeaningful(d[j - 1], path[j])
  BY <1>1, MeaningfulSteps
<1>3. PICK e : /\ e[0] = <<>> /\ Indexed(path) = e[Len(path)]
               /\ \A j \in 1 .. Len(path) : e[j] = WithIndexed(e[j - 1], path[j])
  BY <1>1, IndexedSteps
<1>4. 1 \in 1 .. Len(path) /\ 1 - 1 = 0 /\ 2 \in 1 .. Len(path) /\ 2 - 1 = 1
  BY <1>1
<1>5. d[1] = WithMeaningful(d[0], x) /\ e[1] = WithIndexed(e[0], x)
  BY <1>1, <1>2, <1>3, <1>4
<1>6. d[2] = WithMeaningful(d[1], y) /\ e[2] = WithIndexed(e[1], y)
  BY <1>1, <1>2, <1>3, <1>4
<1>7. QED BY <1>1, <1>2, <1>3, <1>5, <1>6

LEMMA PathOfThree ==
  ASSUME NEW x, NEW y, NEW z, NEW path, path = <<x, y, z>>
  PROVE  /\ Meaningful(path) = WithMeaningful(WithMeaningful(WithMeaningful(<<>>, x), y), z)
         /\ Indexed(path) = WithIndexed(WithIndexed(WithIndexed(<<>>, x), y), z)
<1>1. path \in Seq({x, y, z}) /\ Len(path) = 3 /\ path[1] = x /\ path[2] = y /\ path[3] = z
  OBVIOUS
<1>2. PICK d : /\ d[0] = <<>> /\ Meaningful(path) = d[Len(path)]
               /\ \A j \in 1 .. Len(path) : d[j] = WithMeaningful(d[j - 1], path[j])
  BY <1>1, MeaningfulSteps
<1>3. PICK e : /\ e[0] = <<>> /\ Indexed(path) = e[Len(path)]
               /\ \A j \in 1 .. Len(path) : e[j] = WithIndexed(e[j - 1], path[j])
  BY <1>1, IndexedSteps
<1>4. 1 \in 1 .. Len(path) /\ 1 - 1 = 0 /\ 2 \in 1 .. Len(path) /\ 2 - 1 = 1 /\ 3 \in 1 .. Len(path) /\ 3 - 1 = 2
  BY <1>1
<1>5. d[1] = WithMeaningful(d[0], x) /\ e[1] = WithIndexed(e[0], x)
  BY <1>1, <1>2, <1>3, <1>4
<1>6. d[2] = WithMeaningful(d[1], y) /\ e[2] = WithIndexed(e[1], y)
  BY <1>1, <1>2, <1>3, <1>4
<1>7. d[3] = WithMeaningful(d[2], z) /\ e[3] = WithIndexed(e[2], z)
  BY <1>1, <1>2, <1>3, <1>4
<1>8. QED BY <1>1, <1>2, <1>3, <1>5, <1>6, <1>7

LEMMA TermsOfOne ==
  ASSUME NEW r, NEW path, path = <<r>>, r.name # "properties", r.index = NoIndex
  PROVE  LET terms == ExtractSearchTerms(path)
         IN  terms.term = r.name /\ terms.parents = <<>> /\ terms.indices = <<>>
<1>1. /\ <<r>> # <<>> /\ Append(<<>>, r) = <<r>> /\ Last(<<r>>) = r /\ Front(<<r>>) = <<>>
  BY ShortSequences
<1>2. Meaningful(path) = WithMeaningful(<<>>, r) /\ Indexed(path) = WithIndexed(<<>>, r)
  BY PathOfOne
<1>3. Meaningful(path) = <<r>> /\ Indexed(path) = <<>>
  BY <1>1, <1>2 DEF WithMeaningful, WithIndexed
<1>4. QED BY <1>1, <1>3 DEF ExtractSearchTerms

LEMMA TermsOfTwo ==
  ASSUME NEW q, NEW r, NEW path, path = <<q, r>>, q.name # "properties", q.index # NoIndex,
         r.name # "properties", r.index = NoIndex
  PROVE  LET terms == ExtractSearchTerms(path)
         IN  terms.term = r.name /\ terms.parents = <<q>> /\ terms.indices = <<q>>
<1>1. /\ <<q, r>> # <<>> /\ Append(<<>>, q) = <<q>> /\ Append(<<q>>, r) = <<q, r>>
      /\ Last(<<q, r>>) = r /\ Front(<<q, r>>) = <<q>>
  BY ShortSequences
<1>2. /\ Meaningful(path) = WithMeaningful(WithMeaningful(<<>>, q), r)
      /\ Indexed(path) = WithIndexed(WithIndexed(<<>>, q), r)
  BY PathOfTwo
<1>3. Meaningful(path) = <<q, r>> /\ Indexed(path) = <<q>>
  BY <1>1, <1>2 DEF WithMeaningful, WithIndexed
<1>4. QED BY <1>1, <1>3 DEF ExtractSearchTerms

IsOfThree(path, p, q, r) == path = <<p, q, r>>

LEMMA TermsOfThree ==
  ASSUME NEW p, NEW q, NEW r, NEW path, IsOfThree(path, p, q, r), p.index = NoIndex,
         q.name # "properties", r.name # "properties", r.index = NoIndex
  PROVE  LET terms == ExtractSearchTerms(path)
         IN  /\ terms.term = r.name /\ terms.parents # <<>> /\ Last(terms.parents) = q
             /\ q.index = NoIndex => terms.indices = <<>>
             /\ q.index # NoIndex => terms.indices = <<q>>
<1>1. /\ <<q>> # <<>> /\ <<q, r>> # <<>> /\ Append(<<>>, q) = <<q>> /\ Append(<<q>>, r) = <<q, r>>
      /\ Last(<<q, r>>) = r /\ Front(<<q, r>>) = <<q>> /\ Last(<<q>>) = q
  BY ShortSequences
<1>2. /\ <<p, q>> # <<>> /\ <<p, q, r>> # <<>> /\ Append(<<>>, p) = <<p>>
      /\ Append(<<p>>, q) = <<p, q>> /\ Append(<<p, q>>, r) = <<p, q, r>>
      /\ Last(<<p, q, r>>) = r /\ Front(<<p, q, r>>) = <<p, q>> /\ Last(<<p, q>>) = q
  BY ShortSequences
<1>3. /\ Meaningful(path) = WithMeaningful(WithMeaningful(WithMeaningful(<<>>, p), q), r)
      /\ Indexed(path) = WithIndexed(WithIndexed(WithIndexed(<<>>, p), q), r)
  BY PathOfThree DEF IsOfThree
<1>4. Meaningful(path) = IF p.name = "properties" THEN <<q, r>> ELSE <<p, q, r>>
  BY <1>1, <1>2, <1>3 DEF WithMeaningful
<1>5. Indexed(path) = IF q.index = NoIndex THEN <<>> ELSE <<q>>
  BY <1>1, <1>3 DEF WithIndexed
<1>6. QED BY <1>1, <1>2, <1>4, <1>5 DEF ExtractSearchTerms

(* The terms of the paths that are asked for.                               *)
LEMMA TermsAre ==
  ASSUME NEW path \in Paths
  PROVE  LET terms == ExtractSearchTerms(path)
         IN  /\ terms.term \in Leaves
             /\ \/ terms.parents = <<>> /\ terms.indices = <<>>
                \/ /\ terms.parents # <<>> /\ Last(terms.parents).name \in Objects
                   /\ terms.indices = <<>>
                \/ /\ terms.parents # <<>>
                   /\ \E a \in Arrays, i \in Nat :
                        Last(terms.parents).name = a /\ terms.indices = <<Step(a, i)>>
<1> DEFINE terms == ExtractSearchTerms(path)
           none == Step("properties", NoIndex)
           IsParent(q) == terms.parents # <<>> /\ Last(terms.parents) = q
<1>1. \A x, i : Step(x, i).name = x /\ Step(x, i).index = i
  BY DEF Step
<1>2. /\ \A x \in Leaves \cup Objects \cup Arrays : x # "properties"
      /\ \A i \in Nat : i # NoIndex
  BY NamesAssumption DEF NoIndex
<1> HIDE DEF terms
<1>3. ASSUME NEW x \in Leaves, path = <<Step(x, NoIndex)>>
      PROVE  terms.term = x /\ terms.parents = <<>> /\ terms.indices = <<>>
  <2> DEFINE r == Step(x, NoIndex)
  <2>1. r.name = x /\ r.name # "properties" /\ r.index = NoIndex
    BY <1>1, <1>2
  <2>2. path = <<r>>
    BY <1>3
  <2> HIDE DEF r
  <2>3. QED BY <2>1, <2>2, TermsOfOne DEF terms
<1>4. ASSUME NEW o \in Objects, NEW x \in Leaves, path = <<none, Step(o, NoIndex), Step(x, NoIndex)>>
      PROVE  terms.term = x /\ IsParent(Step(o, NoIndex)) /\ terms.indices = <<>>
  <2> DEFINE q == Step(o, NoIndex)
             r == Step(x, NoIndex)
  <2>1. /\ none.index = NoIndex /\ q.name # "properties" /\ q.index = NoIndex
        /\ r.name = x /\ r.name # "properties" /\ r.index = NoIndex
    BY <1>1, <1>2
  <2>2. IsOfThree(path, none, q, r)
    BY <1>4 DEF IsOfThree
  <2> HIDE DEF none, q, r
  <2>3. /\ terms.term = r.name /\ terms.parents # <<>> /\ Last(terms.parents) = q
        /\ q.index = NoIndex => terms.indices = <<>>
        /\ q.index # NoIndex => terms.indices = <<q>>
    BY <2>1, <2>2, TermsOfThree DEF terms
  <2>4. QED BY <2>1, <2>3 DEF q
<1>5. ASSUME NEW a \in Arrays, NEW i \in Nat, NEW x \in Leaves, path = <<Step(a, i), Step(x, NoIndex)>>
      PROVE  terms.term = x /\ IsParent(Step(a, i)) /\ terms.indices = <<Step(a, i)>>
  <2> DEFINE q == Step(a, i)
             r == Step(x, NoIndex)
  <2>1. /\ none.index = NoIndex /\ q.name # "properties" /\ q.index # NoIndex
        /\ r.name = x /\ r.name # "properties" /\ r.index = NoIndex
    BY <1>1, <1>2
  <2>2. path = <<q, r>> /\ <<q>> # <<>> /\ Last(<<q>>) = q
    BY <1>5, ShortSequences
  <2> HIDE DEF none, q, r
  <2>3. QED BY <2>1, <2>2, TermsOfTwo DEF terms, q
<1>6. ASSUME NEW o \in Objects, NEW a \in Arrays, NEW x \in Leaves,
             path = <<Step(o, NoIndex), Step(a, 0), Step(x, NoIndex)>>
      PROVE  terms.term = x /\ IsParent(Step(a, 0)) /\ terms.indices = <<Step(a, 0)>>
  <2> DEFINE p == Step(o, NoIndex)
             q == Step(a, 0)
             r == Step(x, NoIndex)
  <2>1. /\ p.index = NoIndex /\ q.name # "properties" /\ q.index # NoIndex
        /\ r.name = x /\ r.name # "properties" /\ r.index = NoIndex
    BY <1>1, <1>2
  <2>2. IsOfThree(path, p, q, r)
    BY <1>6 DEF IsOfThree
  <2> HIDE DEF p, q, r
  <2>3. /\ terms.term = r.name /\ terms.parents # <<>> /\ Last(terms.parents) = q
        /\ q.index = NoIndex => terms.indices = <<>>
        /\ q.index # NoIndex => terms.indices = <<q>>
    BY <2>1, <2>2, TermsOfThree DEF terms
  <2>4. QED BY <2>1, <2>3 DEF q
<1>7. CASE \E x \in Leaves : path = <<Step(x, NoIndex)>>
  BY <1>3, <1>7 DEF terms
<1>8. CASE \E o \in Objects, x \in Leaves : path = <<none, Step(o, NoIndex), Step(x, NoIndex)>>
  BY <1>1, <1>4, <1>8 DEF terms
<1>9. CASE \E a \in Arrays, i \in 0 .. 1, x \in Leaves : path = <<Step(a, i), Step(x, NoIndex)>>
  <2>1. \A i \in 0 .. 1 : i \in Nat
    OBVIOUS
  <2>2. QED BY <1>1, <1>5, <1>9, <2>1 DEF terms
<1>10. CASE \E o \in Objects, a \in Arrays, x \in Leaves :
              path = <<Step(o, NoIndex), Step(a, 0), Step(x, NoIndex)>>
  <2>1. 0 \in Nat
    OBVIOUS
  <2>2. QED BY <1>1, <1>6, <1>10, <2>1 DEF terms
<1>11. QED BY <1>7, <1>8, <1>9, <1>10 DEF Paths

-----------------------------------------------------------------------------
(* Answers                                                                  *)

LEMMA NamedLine ==
  ASSUME NEW line \in Lines, line.key # NoName
  PROVE  ~Closing(line) /\ line.key \in line.words /\ ~line.comment
<1> DEFINE P(l) == l.key # NoName => ~Closing(l) /\ l.key \in l.words /\ ~l.comment
<1>1. \A l : l.key = NoName => P(l)
  OBVIOUS
<1>2. \A type : P(Resource(type))
  BY <1>1 DEF Resource, Line
<1>3. \A b : P(Bracket(b))
  BY <1>1 DEF Bracket, Line
<1>4. \A x : P(Comment(x))
  <2>1. \A x : Comment(x).key = NoName
    BY DEF Comment, Line
  <2>2. QED BY <1>1, <2>1
<1>5. ASSUME NEW x PROVE P(Mention(x))
  <2>1. /\ Mention(x).key = "description" /\ Mention(x).words = {"description", x}
        /\ Mention(x).brackets = <<>> /\ ~Mention(x).comment
    BY DEF Mention, Line
  <2>2. QED BY <2>1 DEF Closing
<1>6. ASSUME NEW x, NEW b, b \in {<<>>, <<"lbrace">>, <<"lbracket">>} PROVE P(Property(x, b))
  <2>1. /\ Property(x, b).key = x /\ Property(x, b).words = {x}
        /\ Property(x, b).brackets = b /\ ~Property(x, b).comment
    BY DEF Property, Line
  <2>2. QED BY <1>6, <2>1 DEF Closing
<1>7. P(line)
  <2>1. CASE line \in {Resource(type) : type \in Types}
    BY <1>2, <2>1
  <2>2. CASE line \in InAnObject
    <3> HIDE DEF P
    <3>1. QED BY <1>3, <1>4, <1>5, <1>6, <2>2 DEF InAnObject
  <2>3. CASE line \in InAnArray
    BY <1>3, <2>3 DEF InAnArray
  <2>4. QED BY <2>1, <2>2, <2>3 DEF Lines
<1>8. QED BY <1>7

(* A complete file, in which what is asked for is plain.                    *)
Complete(B, lines) ==
  /\ WellFormed(B, lines) /\ B[Len(lines) + 1] = <<>>
  /\ \A n \in 1 .. Len(lines) : B[n] = BlocksAt(lines, n)

LEMMA PlainMeans ==
  ASSUME NEW lines, NEW B, Complete(B, lines), NEW path \in Paths, NEW type,
         Plain(lines, path, type)
  PROVE  LET terms == ExtractSearchTerms(path)
         IN  /\ \A n \in 1 .. Len(lines) :
                  terms.term \in lines[n].words /\ ~lines[n].comment <=> lines[n].key = terms.term
             /\ terms.parents # <<>> => Spelled(B, lines, Last(terms.parents).name)
             /\ \A i \in DOMAIN terms.indices : GivenOnce(lines, terms.indices[i].name, type)
<1> DEFINE terms == ExtractSearchTerms(path)
           name == Last(terms.parents).name
<1>1. WellFormed(B, lines) /\ lines \in Seq(Lines) /\ DOMAIN lines = 1 .. Len(lines)
  BY DEF Complete, WellFormed
<1>2. /\ terms.term \in Leaves /\ terms.term # NoName
      /\ terms.parents # <<>> => name # NoName
  <2>1. terms.term \in Leaves /\ (terms.parents # <<>> => name \in Objects \cup Arrays)
    BY TermsAre
  <2>2. QED BY <2>1, NamesAssumption
<1> HIDE DEF terms
<1>3. \A n \in 1 .. Len(lines) :
        terms.term \in lines[n].words => lines[n].key = terms.term \/ lines[n].comment
  BY <1>1 DEF Plain, terms
<1>4. ASSUME NEW n \in 1 .. Len(lines)
      PROVE  terms.term \in lines[n].words /\ ~lines[n].comment <=> lines[n].key = terms.term
  <2>1. lines[n] \in Lines
    BY <1>1
  <2>2. QED BY <1>2, <1>3, <2>1, NamedLine
<1>5. ASSUME terms.parents # <<>> PROVE Spelled(B, lines, name)
  <2>1. ASSUME NEW k \in 1 .. Len(lines), lines[k].key = name
        PROVE  Opening(lines[k]) /\ \A p \in 1 .. Len(B[k]) : B[k][p].key # name
    <3>1. /\ lines[k].brackets # <<>>
          /\ \A b \in DOMAIN BlocksAt(lines, k) : BlocksAt(lines, k)[b].key # name
      BY <1>1, <1>5, <2>1 DEF Plain, terms
    <3>2. B[k] = BlocksAt(lines, k) /\ DOMAIN B[k] = 1 .. Len(B[k])
      <4>1. B[k] \in Stacks
        BY <1>1, FileStep
      <4>2. QED BY <4>1 DEF Complete, Stacks
    <3>3. lines[k] \in Lines /\ lines[k].key # NoName
      BY <1>1, <1>2, <1>5, <2>1
    <3>4. Opening(lines[k])
      BY <3>1, <3>3, NamedLine, LineShape
    <3>5. QED BY <3>1, <3>2, <3>4
  <2>2. QED BY <2>1 DEF Spelled
<1>6. ASSUME NEW i \in DOMAIN terms.indices PROVE GivenOnce(lines, terms.indices[i].name, type)
  <2> DEFINE x == terms.indices[i].name
             G == {n \in DOMAIN lines : lines[n].key = x}
  <2>1. \A n, m \in G : n # m => type # NoName /\ RangesOver(lines, type, n) # RangesOver(lines, type, m)
    BY <1>6 DEF Plain, terms, RangesOver
  <2>2. G = Given(lines, x)
    BY <1>1 DEF Given
  <2>3. QED BY <2>1, <2>2 DEF GivenOnce
<1>7. QED BY <1>4, <1>5, <1>6 DEF terms

(* What the search asks of a line, apart from its context.                  *)
MatchesAt(lines, n, path, type) ==
  LET terms == ExtractSearchTerms(path)
  IN  /\ terms.term \in lines[n].words /\ ~lines[n].comment
      /\ type # NoName => \E r \in FindResourceBlockRange(lines, type) : Within(n, r)

(* And of its context.                                                      *)
IsInside(lines, n, path, type) ==
  LET terms == ExtractSearchTerms(path)
  IN  /\ terms.parents # <<>> => IsInsideParentBlock(lines, n, terms.parents)
      /\ IsInsideArrayElement(lines, n, terms.indices, FindResourceBlockRange(lines, type))

LEMMA ElementsAreLed ==
  ASSUME NEW lines, NEW B, Complete(B, lines), NEW path \in Paths, NEW type,
         Plain(lines, path, type), NEW n \in 1 .. Len(lines), lines[n].key # NoName,
         type # NoName => RangesOver(lines, type, n) # {}
  PROVE  LET indices == ExtractSearchTerms(path).indices
         IN  IsInsideArrayElement(lines, n, indices, FindResourceBlockRange(lines, type)) <=>
               \A i \in DOMAIN indices : \E p \in 1 .. Len(B[n]) :
                 B[n][p].key = indices[i].name /\ p < Len(B[n])
                 /\ B[n][p + 1].element = indices[i].index
<1> DEFINE terms == ExtractSearchTerms(path)
           indices == terms.indices
           In(i) == Within(n, FindArrayElementRange(lines, indices[i].name, indices[i].index,
                                                    SearchStart(lines, type, n)))
           Led(i) == \E p \in 1 .. Len(B[n]) :
                       B[n][p].key = indices[i].name /\ p < Len(B[n])
                       /\ B[n][p + 1].element = indices[i].index
<1>1. IsInsideArrayElement(lines, n, indices, FindResourceBlockRange(lines, type)) <=>
        \A i \in DOMAIN indices : In(i)
  BY Zenon DEF IsInsideArrayElement, SearchStart, RangesOver
<1>2. ASSUME NEW i \in DOMAIN indices PROVE In(i) <=> Led(i)
  <2>1. PICK a \in Arrays, j \in Nat :
          terms.parents # <<>> /\ Last(terms.parents).name = a /\ indices = <<Step(a, j)>>
    <3>1. indices # <<>>
      OBVIOUS
    <3>2. QED BY <3>1, TermsAre
  <2>2. i = 1 /\ indices[i].name = a /\ indices[i].index = j
    BY <2>1 DEF Step
  <2>3. Spelled(B, lines, a) /\ GivenOnce(lines, a, type)
    <3>1. /\ terms.parents # <<>> => Spelled(B, lines, Last(terms.parents).name)
          /\ \A k \in DOMAIN indices : GivenOnce(lines, indices[k].name, type)
      BY PlainMeans
    <3>2. QED BY <2>1, <2>2, <3>1
  <2>4. WellFormed(B, lines) /\ B[Len(lines) + 1] = <<>>
    BY DEF Complete
  <2> HIDE DEF indices
  <2>5. QED BY <2>2, <2>3, <2>4, ArrayIsFound
<1>3. QED BY <1>1, <1>2

LEMMA LeadsIs ==
  ASSUME NEW lines, NEW B, Complete(B, lines), NEW path \in Paths, NEW type,
         Plain(lines, path, type), NEW n \in 1 .. Len(lines)
  PROVE  Leads(lines, n, path, type) <=>
           MatchesAt(lines, n, path, type) /\ IsInside(lines, n, path, type)
<1> DEFINE terms == ExtractSearchTerms(path)
           ranges == FindResourceBlockRange(lines, type)
           s == B[n]
           Led == \A i \in DOMAIN terms.indices : \E p \in 1 .. Len(s) :
                    s[p].key = terms.indices[i].name /\ p < Len(s)
                    /\ s[p + 1].element = terms.indices[i].index
<1>1. /\ WellFormed(B, lines) /\ B[Len(lines) + 1] = <<>>
      /\ B[n] = BlocksAt(lines, n) /\ DOMAIN B[n] = 1 .. Len(B[n])
  <2>1. WellFormed(B, lines) /\ B[Len(lines) + 1] = <<>> /\ B[n] = BlocksAt(lines, n)
    BY DEF Complete
  <2>2. B[n] \in Stacks
    BY <2>1, FileStep
  <2>3. QED BY <2>1, <2>2 DEF Stacks
<1>2. Leads(lines, n, path, type) <=>
        /\ lines[n].key = terms.term
        /\ type # NoName => \E p \in 1 .. Len(s) : s[p].type = type
        /\ terms.parents # <<>> => \E p \in 1 .. Len(s) : s[p].key = Last(terms.parents).name
        /\ Led
  BY <1>1, Zenon DEF Leads
<1>3. terms.term \in lines[n].words /\ ~lines[n].comment <=> lines[n].key = terms.term
  BY PlainMeans
<1>4. terms.term # NoName
  BY TermsAre, NamesAssumption
<1>5. terms.parents # <<>> =>
        (IsInsideParentBlock(lines, n, terms.parents) <=>
           \E p \in 1 .. Len(s) : s[p].key = Last(terms.parents).name)
  <2>1. ASSUME terms.parents # <<>>
        PROVE  IsInsideParentBlock(lines, n, terms.parents) <=>
                 \E p \in 1 .. Len(s) : s[p].key = Last(terms.parents).name
    <3>1. Spelled(B, lines, Last(terms.parents).name)
      BY <2>1, PlainMeans
    <3> HIDE DEF terms
    <3>2. QED BY <1>1, <3>1, ParentIsBlock
  <2>2. QED BY <2>1
<1>6. ASSUME lines[n].key = terms.term
      PROVE  /\ type # NoName => ((\E r \in ranges : Within(n, r)) <=>
                                    \E p \in 1 .. Len(s) : s[p].type = type)
             /\ (type # NoName => \E r \in ranges : Within(n, r)) =>
                  (IsInsideArrayElement(lines, n, terms.indices, ranges) <=> Led)
  <2>1. lines[n].key # NoName
    BY <1>4, <1>6
  <2>2. (\E r \in ranges : Within(n, r)) <=> RangesOver(lines, type, n) # {}
    BY DEF RangesOver
  <2>3. type # NoName => (RangesOver(lines, type, n) # {} <=>
                            \E p \in 1 .. Len(s) : s[p].type = type)
    <3>1. ASSUME type # NoName
          PROVE  RangesOver(lines, type, n) # {} <=>
                   \E p \in 1 .. Len(B[n]) : B[n][p].type = type
      <4>1. /\ WellFormed(B, lines) /\ B[Len(lines) + 1] = <<>> /\ type # NoName
            /\ n \in 1 .. Len(lines) /\ lines[n].key # NoName
        BY <1>1, <2>1, <3>1
      <4>2. QED BY ONLY <4>1, ResourceIsBlock
    <3>2. QED BY <3>1
  <2>4. (type # NoName => RangesOver(lines, type, n) # {}) =>
          (IsInsideArrayElement(lines, n, terms.indices, ranges) <=> Led)
    BY <2>1, ElementsAreLed
  <2>5. QED BY <2>2, <2>3, <2>4
<1>7. MatchesAt(lines, n, path, type) <=>
        /\ lines[n].key = terms.term
        /\ type # NoName => \E r \in ranges : Within(n, r)
  BY <1>3 DEF MatchesAt
<1>8. IsInside(lines, n, path, type) <=>
        /\ terms.parents # <<>> => IsInsideParentBlock(lines, n, terms.parents)
        /\ IsInsideArrayElement(lines, n, terms.indices, ranges)
  BY DEF IsInside
<1> HIDE DEF terms, ranges, s, Led
<1>9. QED BY <1>2, <1>5, <1>6, <1>7, <1>8

(* A line is found if and only if it is where the path leads.               *)
LEMMA FoundIsPlaces ==
  ASSUME NEW d \in Seq(Seq(Lines)), NEW path \in Paths, NEW type,
         \A f \in DOMAIN d : \E B : Complete(B, d[f]),
         \A f \in DOMAIN d : Plain(d[f], path, type)
  PROVE  FindBicepDefinition(d, path, type).found =
           UNION {{<<f, n>> : n \in {k \in DOMAIN d[f] : Leads(d[f], k, path, type)}} :
                    f \in DOMAIN d}
<1> DEFINE terms == ExtractSearchTerms(path)
           At == UNION {{f} \X DOMAIN d[f] : f \in DOMAIN d}
           matches == Matches(d, terms.term, type)
           inContext == {at \in matches : InContext(d, at, terms, type)}
           places == UNION {{<<f, n>> : n \in {k \in DOMAIN d[f] : Leads(d[f], k, path, type)}} :
                              f \in DOMAIN d}
           Ok(at) == MatchesAt(d[at[1]], at[2], path, type) /\ IsInside(d[at[1]], at[2], path, type)
<1>1. FindBicepDefinition(d, path, type).found =
        IF inContext # {} THEN inContext ELSE IF terms.parents # <<>> THEN {} ELSE matches
  BY DEF FindBicepDefinition
<1>2. matches = {at \in At : MatchesAt(d[at[1]], at[2], path, type)}
  BY Zenon DEF Matches, MatchesAt
<1>3. \A at : at \in At <=> \E f \in DOMAIN d : \E n \in DOMAIN d[f] : at = <<f, n>>
  <2>1. \A at : at \in At <=> \E f \in DOMAIN d : at \in {f} \X DOMAIN d[f]
    OBVIOUS
  <2>2. \A f, S, at : at \in {f} \X S <=> \E n \in S : at = <<f, n>>
    OBVIOUS
  <2> HIDE DEF At
  <2>3. QED BY <2>1, <2>2
<1>4. ASSUME NEW f \in DOMAIN d, NEW n \in DOMAIN d[f]
      PROVE  Leads(d[f], n, path, type) <=> Ok(<<f, n>>)
  <2>1. PICK B : Complete(B, d[f])
    OBVIOUS
  <2>2. d[f] \in Seq(Lines)
    OBVIOUS
  <2>3. n \in 1 .. Len(d[f]) /\ Plain(d[f], path, type)
    BY <2>2
  <2>4. Leads(d[f], n, path, type) <=>
          MatchesAt(d[f], n, path, type) /\ IsInside(d[f], n, path, type)
    BY <2>1, <2>3, LeadsIs
  <2>5. QED BY <2>4
<1> HIDE DEF At
<1>5. places = {at \in At : Ok(at)}
  <2>1. \A at : at \in places <=>
          \E f \in DOMAIN d : \E n \in DOMAIN d[f] : at = <<f, n>> /\ Leads(d[f], n, path, type)
    OBVIOUS
  <2> HIDE DEF places, Ok
  <2>2. \A at \in places : at \in At /\ Ok(at)
    BY <1>3, <1>4, <2>1
  <2>3. \A at \in At : Ok(at) => at \in places
    BY <1>3, <1>4, <2>1
  <2>4. QED BY <2>2, <2>3
<1>6. CASE terms.parents = <<>>
  <2>1. terms.indices = <<>>
    BY <1>6, TermsAre
  <2>2. \A at : ~InContext(d, at, terms, type)
    BY <1>6, <2>1 DEF InContext
  <2>3. \A at \in At : IsInside(d[at[1]], at[2], path, type)
    <3>1. DOMAIN terms.indices = {}
      BY <2>1
    <3>2. QED BY <1>6, <3>1 DEF IsInside, IsInsideArrayElement
  <2>4. inContext = {}
    BY <2>2
  <2>5. places = matches
    BY <1>2, <1>5, <2>3
  <2>6. QED BY <1>1, <1>6, <2>4, <2>5
<1>7. CASE terms.parents # <<>>
  <2>1. \A at : InContext(d, at, terms, type) <=> IsInside(d[at[1]], at[2], path, type)
    BY <1>7, Zenon DEF InContext, IsInside
  <2>2. inContext = places
    BY <1>2, <1>5, <2>1
  <2>3. QED BY <1>1, <1>7, <2>2, Zenon
<1>8. QED BY <1>6, <1>7

LEMMA AnswerIsExact ==
  ASSUME NEW d \in Seq(Seq(Lines)), d # <<>>, NEW path \in Paths, NEW type,
         \A f \in DOMAIN d : \E B : Complete(B, d[f]),
         \A f \in DOMAIN d : Plain(d[f], path, type)
  PROVE  LET answer == FindBicepDefinition(d, path, type)
             places == UNION {{<<f, n>> : n \in {k \in DOMAIN d[f] : Leads(d[f], k, path, type)}} :
                                f \in DOMAIN d}
         IN  /\ answer.status = "defined" <=> Cardinality(places) = 1
             /\ answer.status = "defined" => answer.found = places
             /\ answer.status = "notDefined" <=> places = {}
<1> DEFINE answer == FindBicepDefinition(d, path, type)
           places == UNION {{<<f, n>> : n \in {k \in DOMAIN d[f] : Leads(d[f], k, path, type)}} :
                              f \in DOMAIN d}
<1>1. answer.found = places
  BY FoundIsPlaces
<1>2. answer.status = CASE d # <<>> /\ answer.found = {} -> "notDefined"
                        [] Cardinality(answer.found) = 1 -> "defined"
                        [] OTHER -> "unknown"
  BY Zenon DEF FindBicepDefinition
<1> SUFFICES /\ answer.status = "defined" <=> Cardinality(places) = 1
             /\ answer.status = "defined" => answer.found = places
             /\ answer.status = "notDefined" <=> places = {}
  BY Zenon
<1> HIDE DEF answer, places
<1>3. Cardinality({}) = 0
  BY FS_EmptySet
<1>4. CASE places = {}
  <2>1. answer.status = "notDefined" /\ Cardinality(places) = 0
    BY <1>1, <1>2, <1>3, <1>4
  <2>2. QED BY <1>1, <1>4, <2>1
<1>5. CASE places # {} /\ Cardinality(places) = 1
  <2>1. answer.status = "defined"
    BY <1>1, <1>2, <1>5
  <2>2. QED BY <1>1, <1>5, <2>1
<1>6. CASE places # {} /\ Cardinality(places) # 1
  <2>1. answer.status = "unknown"
    BY <1>1, <1>2, <1>6
  <2>2. QED BY <1>1, <1>6, <2>1
<1>7. QED BY <1>4, <1>5, <1>6

-----------------------------------------------------------------------------
(* The author                                                               *)

Closed(lines) == BlocksAt(lines, Len(lines) + 1) = <<>>

IsFile(lines) ==
  /\ lines \in Seq(Lines)
  /\ \A n \in 1 .. Len(lines) : Allowed(BlocksAt(lines, n), lines[n])

(* Only the last file may be unfinished.                                    *)
FilesInv ==
  /\ dir \in Seq(Seq(Lines))
  /\ \A f \in 1 .. Len(dir) : IsFile(dir[f]) /\ (f < Len(dir) => Closed(dir[f]))

LEMMA FileStarts == IsFile(<<>>)
  BY DEF IsFile

LEMMA FileGrows ==
  ASSUME NEW lines, IsFile(lines), NEW line \in Lines,
         Allowed(BlocksAt(lines, Len(lines) + 1), line)
  PROVE  IsFile(Append(lines, line))
<1> DEFINE more == Append(lines, line)
<1>1. lines \in Seq(Lines) /\ Len(lines) \in Nat
  BY DEF IsFile
<1>2. /\ more \in Seq(Lines) /\ Len(more) = Len(lines) + 1 /\ more[Len(lines) + 1] = line
      /\ \A n \in 1 .. Len(lines) : more[n] = lines[n]
  BY <1>1
<1>3. \A n \in 1 .. Len(lines) + 1 : BlocksAt(more, n) = BlocksAt(lines, n)
  BY <1>1, BlocksStay
<1> HIDE DEF more
<1>4. ASSUME NEW n \in 1 .. Len(more) PROVE Allowed(BlocksAt(more, n), more[n])
  <2>1. CASE n = Len(lines) + 1
    <3>1. n \in 1 .. Len(lines) + 1
      BY <1>1, <2>1
    <3>2. BlocksAt(more, n) = BlocksAt(lines, n)
      BY <1>3, <3>1
    <3>3. QED BY <1>2, <2>1, <3>2
  <2>2. CASE n # Len(lines) + 1
    <3>1. n \in 1 .. Len(lines) /\ n \in 1 .. Len(lines) + 1
      BY <1>1, <1>2, <2>2
    <3>2. BlocksAt(more, n) = BlocksAt(lines, n) /\ more[n] = lines[n]
      BY <1>2, <1>3, <3>1
    <3>3. QED BY <3>1, <3>2 DEF IsFile
  <2>3. QED BY <2>1, <2>2
<1>5. QED BY <1>2, <1>4 DEF IsFile, more

LEMMA FileIsComplete ==
  ASSUME NEW lines, IsFile(lines), Closed(lines)
  PROVE  \E B : Complete(B, lines)
<1> DEFINE B == [n \in 1 .. Len(lines) + 1 |-> BlocksAt(lines, n)]
<1>1. lines \in Seq(Lines) /\ Len(lines) \in Nat
  BY DEF IsFile
<1>2. Opened(B, lines)
  BY <1>1, BlocksAreOpened
<1>3. \A n \in 1 .. Len(lines) + 1 : B[n] = BlocksAt(lines, n)
  OBVIOUS
<1> HIDE DEF B
<1>4. /\ \A n \in 1 .. Len(lines) : n \in 1 .. Len(lines) + 1
      /\ Len(lines) + 1 \in 1 .. Len(lines) + 1
  BY <1>1
<1>5. WellFormed(B, lines)
  BY <1>1, <1>2, <1>3, <1>4 DEF WellFormed, IsFile
<1>6. Complete(B, lines)
  BY <1>3, <1>4, <1>5 DEF Complete, Closed
<1>7. QED BY <1>6

LEMMA WriteKeepsFiles ==
  ASSUME FilesInv, dir # <<>>, NEW line \in Lines, Allowed(Blocks, line), Write(line)
  PROVE  FilesInv'
<1> DEFINE m == Len(dir)
           last == dir[m]
<1>1. m \in 1 .. m /\ m \in Nat /\ last \in Seq(Lines) /\ IsFile(last) /\ Last(dir) = last
  BY DEF FilesInv, Last
<1>2. dir' = [dir EXCEPT ![m] = Append(last, line)]
  BY DEF Write
<1>3. IsFile(Append(last, line))
  BY <1>1, FileGrows DEF Blocks
<1>4. Append(last, line) \in Seq(Lines)
  BY <1>3 DEF IsFile
<1>5. dir' \in Seq(Seq(Lines)) /\ Len(dir') = m
  BY <1>1, <1>2, <1>4 DEF FilesInv
<1>6. ASSUME NEW f \in 1 .. Len(dir')
      PROVE  IsFile(dir'[f]) /\ (f < Len(dir') => Closed(dir'[f]))
  <2>1. CASE f = m
    <3>1. dir'[f] = Append(last, line)
      BY <1>1, <1>2, <2>1 DEF FilesInv
    <3>2. QED BY <1>1, <1>3, <1>5, <2>1, <3>1
  <2>2. CASE f # m
    <3>1. f \in 1 .. m /\ dir'[f] = dir[f]
      <4>1. f \in 1 .. m
        BY <1>5
      <4>2. DOMAIN dir = 1 .. m
        BY DEF FilesInv
      <4>3. QED BY <1>2, <2>2, <4>1, <4>2
    <3>2. QED BY <1>5, <3>1 DEF FilesInv
  <2>3. QED BY <2>1, <2>2
<1>7. QED BY <1>5, <1>6 DEF FilesInv

LEMMA NextKeepsFiles ==
  ASSUME FilesInv, [Next]_dir
  PROVE  FilesInv'
<1>1. CASE NewFile
  <2> DEFINE m == Len(dir)
  <2>1. m \in Nat /\ <<>> \in Seq(Lines)
    BY DEF FilesInv
  <2>2. dir' = Append(dir, <<>>)
    BY <1>1 DEF NewFile
  <2>3. /\ dir' \in Seq(Seq(Lines)) /\ Len(dir') = m + 1 /\ dir'[m + 1] = <<>>
        /\ \A f \in 1 .. m : dir'[f] = dir[f]
    BY <2>1, <2>2 DEF FilesInv
  <2>4. dir # <<>> => Closed(dir[m])
    BY <1>1 DEF NewFile, Blocks, Closed, Last
  <2>5. ASSUME NEW f \in 1 .. Len(dir')
        PROVE  IsFile(dir'[f]) /\ (f < Len(dir') => Closed(dir'[f]))
    <3>1. CASE f = m + 1
      BY <2>1, <2>3, <3>1, FileStarts
    <3>2. CASE f # m + 1
      <4>1. f \in 1 .. m /\ dir'[f] = dir[f] /\ IsFile(dir[f]) /\ dir # <<>>
        BY <2>1, <2>3, <3>2 DEF FilesInv
      <4>2. f < m => Closed(dir[f])
        BY <4>1 DEF FilesInv
      <4>3. f < m \/ f = m
        BY <2>1, <4>1
      <4>4. QED BY <2>4, <4>1, <4>2, <4>3
    <3>3. QED BY <3>1, <3>2
  <2>6. QED BY <2>3, <2>5 DEF FilesInv
<1>2. CASE WriteResource
  <2>1. PICK type \in Types : Write(Resource(type))
    BY <1>2 DEF WriteResource
  <2>2. Resource(type) \in Lines /\ Allowed(Blocks, Resource(type)) /\ dir # <<>>
    BY <1>2 DEF WriteResource, Lines, Allowed
  <2>3. QED BY <2>1, <2>2, WriteKeepsFiles
<1>3. ASSUME InObject, NEW line \in InAnObject, Write(line) PROVE FilesInv'
  <2>1. line \in Lines
    BY DEF Lines
  <2>2. Allowed(Blocks, line) /\ dir # <<>>
    BY <1>3 DEF InObject, Allowed, Last
  <2>3. QED BY <1>3, <2>1, <2>2, WriteKeepsFiles
<1>4. CASE WriteProperty
  <2>1. PICK line \in {Property(name, <<"lbrace">>) : name \in Objects}
                      \cup {Property(name, <<"lbracket">>) : name \in Arrays}
                      \cup {Property(name, <<>>) : name \in Objects \cup Leaves} : Write(line)
    BY <1>4 DEF WriteProperty
  <2>2. line \in InAnObject
    BY DEF InAnObject
  <2>3. QED BY <1>3, <1>4, <2>1, <2>2 DEF WriteProperty
<1>5. CASE WriteOther
  <2>1. PICK name \in Leaves : Write(Comment(name)) \/ Write(Mention(name))
    BY <1>5 DEF WriteOther
  <2>2. Comment(name) \in InAnObject /\ Mention(name) \in InAnObject
    BY DEF InAnObject
  <2>3. QED BY <1>3, <1>5, <2>1, <2>2 DEF WriteOther
<1>6. CASE WriteElement
  <2>1. Write(Bracket("lbrace")) /\ dir # <<>> /\ Blocks # <<>> /\ Last(Blocks).kind = "lbracket"
    BY <1>6 DEF WriteElement
  <2>2. Bracket("lbrace") \in Lines /\ Allowed(Blocks, Bracket("lbrace"))
    BY <2>1 DEF Lines, InAnArray, Allowed, Last
  <2>3. QED BY <2>1, <2>2, WriteKeepsFiles
<1>7. CASE Close
  <2>1. CASE Last(Blocks).kind = "lbrace"
    <3>1. InObject /\ Write(Bracket("rbrace"))
      BY <1>7, <2>1 DEF Close, InObject
    <3>2. Bracket("rbrace") \in InAnObject
      BY DEF InAnObject
    <3>3. QED BY <1>3, <3>1, <3>2
  <2>2. CASE Last(Blocks).kind # "lbrace"
    <3>1. Write(Bracket("rbracket")) /\ dir # <<>> /\ Blocks # <<>>
      BY <1>7, <2>2 DEF Close
    <3>2. Bracket("rbracket") \in Lines /\ Allowed(Blocks, Bracket("rbracket"))
      BY <2>2, <3>1 DEF Lines, InAnArray, Allowed, Last
    <3>3. QED BY <3>1, <3>2, WriteKeepsFiles
  <2>3. QED BY <2>1, <2>2
<1>8. CASE Rest \/ UNCHANGED dir
  <2>1. dir' = dir
    BY <1>8 DEF Rest
  <2>2. QED BY <2>1 DEF FilesInv
<1>9. QED BY <1>1, <1>2, <1>4, <1>5, <1>6, <1>7, <1>8 DEF Next

LEMMA FilesAreWritten == Spec => []FilesInv
<1>1. Init => FilesInv
  BY DEF Init, FilesInv
<1>2. QED BY <1>1, NextKeepsFiles, PTL DEF Spec

(* What is found is what the files' blocks say, however the files are       *)
(* written (find_bicep_definition).                                         *)
THEOREM SearchFindsWhatLeads == Spec => []SearchIsExact
<1>1. FilesInv => SearchIsExact
  <2> SUFFICES ASSUME FilesInv, dir # <<>>, Blocks = <<>>,
                      NEW path \in Paths, NEW type \in Types \cup {NoName},
                      \A f \in DOMAIN dir : Plain(dir[f], path, type)
               PROVE  LET answer == FindBicepDefinition(dir, path, type)
                          places == UNION {{<<f, n>> : n \in {k \in DOMAIN dir[f] :
                                                                Leads(dir[f], k, path, type)}} :
                                             f \in DOMAIN dir}
                      IN  /\ answer.status = "defined" <=> Cardinality(places) = 1
                          /\ answer.status = "defined" => answer.found = places
                          /\ answer.status = "notDefined" <=> places = {}
    BY Zenon DEF SearchIsExact
  <2>1. dir \in Seq(Seq(Lines))
    BY DEF FilesInv
  <2>2. ASSUME NEW f \in DOMAIN dir PROVE \E B : Complete(B, dir[f])
    <3>1. f \in 1 .. Len(dir) /\ Len(dir) \in Nat
      BY <2>1
    <3>2. IsFile(dir[f])
      BY <3>1 DEF FilesInv
    <3>3. Closed(dir[f])
      <4>1. Closed(dir[Len(dir)])
        BY DEF Blocks, Last, Closed
      <4>2. f < Len(dir) => Closed(dir[f])
        BY <3>1 DEF FilesInv
      <4>3. QED BY <3>1, <4>1, <4>2
    <3>4. QED BY <3>2, <3>3, FileIsComplete
  <2>3. QED BY <2>1, <2>2, AnswerIsExact, Zenon
<1>2. QED BY <1>1, FilesAreWritten, PTL
=============================================================================
