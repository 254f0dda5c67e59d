---------------------------- MODULE SparserProofs ----------------------------
(***************************************************************************)
(* sparse stays within argv and plugins unless the file has too many       *)
(* lines of a kind, for files of any length and arrays of any size.  The   *)
(* arrays are compared with the lines that were read: what argv holds is   *)
(* in the lines since the block was opened, what plugins holds in the      *)
(* lines with '>' (Counted).                                               *)
(* When sparse returns, it has loaded what the blocks of the file ask for: *)
(* before each line the plugins are those of the blocks that were closed,  *)
(* and the rest of its variables say how far the last block has come       *)
(* (Meant).                                                                *)
(***************************************************************************)
EXTENDS ConfFile, FiniteSetTheorems, TLAPS

Opens == Types \cup {"alien"}
Words == Lines \cup {"ioerror", "nofile"}

Typed ==
  /\ conf \in Seq(Words) /\ argv \in Seq(Dashes)
  /\ plugins \in Seq([type : Types, args : Seq(Dashes)])
  /\ status \in {"NONE", "PLUG", "NAME", "VAL"} /\ skipping \in BOOLEAN /\ type \in Types
  /\ result \in {"reading", "ok", "error", "overrun"}

(* No block is opened or closed from the i-th line on. *)
Within(i) == \A k \in i..Len(conf) : conf[k] \notin Opens \cup Closes

(* The arguments of the block are among its lines. *)
Covered == \E i \in 1..(Len(conf) + 1) : Within(i) /\ Len(argv) <= Count(i, Dashes)

(* Every plugin was closed, every argument of the block is one of its      *)
(* lines, and what is skipped belongs to no block.                         *)
Counted ==
  result = "reading" =>
    /\ skipping => status = "NONE"
    /\ Len(plugins) <= Count(1, {"close"})
    /\ status # "NONE" => Covered

CInv == Typed /\ Counted /\ OverrunNeedsMany

-----------------------------------------------------------------------------
(* Lines are finitely many. *)
LEMMA CountType ==
  ASSUME conf \in Seq(Words), NEW i \in Nat, NEW L
  PROVE  IsFiniteSet({k \in i..Len(conf) : conf[k] \in L}) /\ Count(i, L) \in Nat
<1>1. Len(conf) \in Int /\ i \in Int
  OBVIOUS
<1>2. IsFiniteSet(i..Len(conf))
  BY <1>1, FS_Interval, Zenon
<1>3. {k \in i..Len(conf) : conf[k] \in L} \in SUBSET (i..Len(conf))
  OBVIOUS
<1>4. IsFiniteSet({k \in i..Len(conf) : conf[k] \in L})
  BY <1>2, <1>3, FS_Subset, Zenon
<1> QED
  BY <1>4, FS_CardinalityType, Zenon DEF Count

(* fgets: one more line counts where it belongs. *)
LEMMA CountLine ==
  ASSUME conf \in Seq(Words), NEW l \in Words, conf' = Append(conf, l),
         NEW i \in 1..(Len(conf) + 1), NEW L
  PROVE  Count(i, L)' = IF l \in L THEN Count(i, L) + 1 ELSE Count(i, L)
<1> DEFINE S == {k \in i..Len(conf) : conf[k] \in L}
           T == {k \in i..Len(conf') : conf'[k] \in L}
           n == Len(conf) + 1
<1>1. Len(conf) \in Nat /\ Len(conf') = n /\ conf'[n] = l /\ n \notin i..Len(conf)
  OBVIOUS
<1>2. \A k \in i..Len(conf) : conf'[k] = conf[k]
  OBVIOUS
<1>3. i..Len(conf') = (i..Len(conf)) \cup {n}
  BY <1>1
<1>4. CASE l \in L
  <2>1. T = S \cup {n}
    BY <1>1, <1>2, <1>3, <1>4, Zenon
  <2>2. n \notin S
    BY <1>1, Zenon
  <2>3. i \in Nat
    OBVIOUS
  <2>4. IsFiniteSet(S)
    BY <2>3, CountType, Zenon
  <2>5. Cardinality(S \cup {n}) = Cardinality(S) + 1
    BY <2>2, <2>4, FS_AddElement, Zenon
  <2> QED
    BY <1>4, <2>1, <2>5, Zenon DEF Count
<1>5. CASE l \notin L
  <2>1. T = S
    BY <1>1, <1>2, <1>3, <1>5, Zenon
  <2> QED
    BY <1>5, <2>1, Zenon DEF Count
<1> QED
  BY <1>4, <1>5, Zenon

(* fgets: the lines read stay, and a line that opens or closes no block    *)
(* belongs to the one before.                                              *)
LEMMA WithinLine ==
  ASSUME conf \in Seq(Words), NEW l \in Words, conf' = Append(conf, l),
         NEW i \in 1..(Len(conf) + 1), Within(i), l \notin Opens \cup Closes
  PROVE  Within(i)'
<1>1. \A k \in i..Len(conf') : k \in i..Len(conf) \/ k = Len(conf) + 1
  OBVIOUS
<1>2. \A k \in i..Len(conf) : conf'[k] = conf[k]
  OBVIOUS
<1>3. conf'[Len(conf) + 1] = l
  OBVIOUS
<1> QED
  BY <1>1, <1>2, <1>3, Zenon DEF Within

(* fgets: a line that opens or closes no block leaves every argument among *)
(* the lines of its block.                                                 *)
LEMMA CoveredLine ==
  ASSUME Typed, NEW l \in Words, conf' = Append(conf, l), Covered, l \notin Opens \cup Closes
  PROVE  \E i \in 1..Len(conf') :
           /\ Within(i)'
           /\ Count(i, Dashes)' \in Nat
           /\ Len(argv) + (IF l \in Dashes THEN 1 ELSE 0) <= Count(i, Dashes)'
<1>1. PICK i \in 1..(Len(conf) + 1) : Within(i) /\ Len(argv) <= Count(i, Dashes)
  BY Zenon DEF Covered
<1>2. conf \in Seq(Words) /\ i \in Nat /\ Len(argv) \in Nat
  BY DEF Typed
<1>3. Count(i, Dashes) \in Nat
  BY <1>2, CountType, Zenon
<1>4. Within(i)'
  BY <1>1, <1>2, WithinLine, Zenon
<1>5. Count(i, Dashes)' = IF l \in Dashes THEN Count(i, Dashes) + 1 ELSE Count(i, Dashes)
  BY <1>2, CountLine, Zenon
<1>6. Len(conf') = Len(conf) + 1
  BY <1>2
<1>7. Len(argv) + (IF l \in Dashes THEN 1 ELSE 0) <= Count(i, Dashes)' /\ Count(i, Dashes)' \in Nat
  BY <1>1, <1>2, <1>3, <1>5
<1> QED
  BY <1>4, <1>6, <1>7, Zenon

(* fgets: the lines with '>' grow by the one that is read. *)
LEMMA ClosesLine ==
  ASSUME Typed, NEW l \in Words, conf' = Append(conf, l)
  PROVE  /\ Count(1, {"close"}) \in Nat /\ Len(plugins) \in Nat
         /\ Count(1, {"close"})' = IF l = "close" THEN Count(1, {"close"}) + 1 ELSE Count(1, {"close"})
<1>1. conf \in Seq(Words) /\ 1 \in 1..(Len(conf) + 1) /\ 1 \in Nat /\ Len(plugins) \in Nat
  BY DEF Typed
<1>2. Count(1, {"close"}) \in Nat
  BY <1>1, CountType, Zenon
<1>3. Count(1, {"close"})' = IF l \in {"close"} THEN Count(1, {"close"}) + 1 ELSE Count(1, {"close"})
  BY <1>1, CountLine, Zenon
<1> QED
  BY <1>1, <1>2, <1>3, Zenon

(* Line, Eof, ReadError, NoFile: every variable keeps its type. *)
LEMMA TypedStep ==
  ASSUME Typed, Next
  PROVE  Typed'
<1> DEFINE Plug == [type : Types, args : Seq(Dashes)]
<1> USE DEF Typed, block
<1>1. ASSUME NEW l \in Words, Fgets(l)
      PROVE  conf' \in Seq(Words)
  BY <1>1 DEF Fgets
<1>2. CASE \E l \in Lines : Line(l)
  <2>1. PICK l \in Lines : Line(l)
    BY <1>2, Zenon
  <2>2. conf' \in Seq(Words)
    BY <1>1, <2>1, Zenon DEF Line, Words
  <2>3. CASE Skip(l) \/ Blank(l) \/ Word(l) \/ Stray(l)
    BY <2>2, <2>3, Zenon DEF Skip, Blank, Word, Stray, Fail
  <2>4. CASE Open(l)
    <3>1. CASE status # "NONE"
      BY <2>2, <2>4, <3>1, Zenon DEF Open, Fail
    <3>2. CASE status = "NONE"
      <4>1. argv' \in Seq(Dashes)
        BY <2>4, <3>2 DEF Open
      <4>2. skipping' \in BOOLEAN
        BY <2>4, <3>2, Zenon DEF Open
      <4>3. status' \in {"NONE", "PLUG", "NAME", "VAL"} /\ type' \in Types
        BY <2>4, <3>2, Zenon DEF Open
      <4> QED
        BY <2>2, <2>4, <3>2, <4>1, <4>2, <4>3, Zenon DEF Open
    <3> QED
      BY <3>1, <3>2, Zenon
  <2>5. CASE Bang(l)
    BY <2>2, <2>5, Zenon DEF Bang, Fail, Enter
  <2>6. CASE Switch(l)
    BY <2>2, <2>6, Zenon DEF Switch, Fail
  <2>7. CASE Argument(l)
    <3>1. l \in Dashes
      BY <2>7, Zenon DEF Argument
    <3>2. Append(argv, l) \in Seq(Dashes)
      BY <3>1
    <3>3. argv' \in Seq(Dashes)
      BY <2>7, <3>2, Zenon DEF Argument
    <3> QED
      BY <2>2, <2>7, <3>3, Zenon DEF Argument
  <2>8. CASE Close(l)
    <3>1. [type |-> type, args |-> argv] \in Plug
      OBVIOUS
    <3>2. Append(plugins, [type |-> type, args |-> argv]) \in Seq(Plug)
      BY <3>1
    <3>3. plugins' \in Seq(Plug)
      BY <2>8, <3>2, Zenon DEF Close, Fail, Enter
    <3> QED
      BY <2>2, <2>8, <3>3, Zenon DEF Close, Fail, Enter
  <2> QED
    BY <2>1, <2>3, <2>4, <2>5, <2>6, <2>7, <2>8, Zenon DEF Line
<1>3. CASE Eof
  BY <1>3, Zenon DEF Eof
<1>4. CASE ReadError
  <2>1. conf' \in Seq(Words)
    BY <1>1, <1>4, Zenon DEF ReadError, Words
  <2> QED
    BY <1>4, <2>1, Zenon DEF ReadError
<1>5. CASE NoFile
  <2>1. conf' \in Seq(Words)
    BY <1>1, <1>5, Zenon DEF NoFile, Words
  <2> QED
    BY <1>5, <2>1, Zenon DEF NoFile, Fail
<1> QED
  BY <1>2, <1>3, <1>4, <1>5, Zenon DEF Next

(* Line: what is kept is counted in what was read, and an array is left    *)
(* only by the line too many.                                              *)
LEMMA LineCounted ==
  ASSUME Typed, Typed', Counted, NEW l \in Lines, Line(l)
  PROVE  Counted' /\ OverrunNeedsMany'
<1> DEFINE Reading == /\ skipping => status = "NONE"
                      /\ Len(plugins) <= Count(1, {"close"})
                      /\ status # "NONE" => Covered
<1>1. l \in Words /\ conf' = Append(conf, l) /\ Fgets(l) /\ result = "reading"
  BY Zenon DEF Line, Words, Fgets
<1>2. Reading
  BY <1>1, Zenon DEF Counted
<1>3. /\ Count(1, {"close"}) \in Nat /\ Len(plugins) \in Nat
      /\ Count(1, {"close"})' = IF l = "close" THEN Count(1, {"close"}) + 1 ELSE Count(1, {"close"})
  BY <1>1, ClosesLine, Zenon
<1>4. Len(plugins) <= Count(1, {"close"})'
  BY <1>2, <1>3
<1>5. ASSUME Fail PROVE Counted' /\ OverrunNeedsMany'
  BY <1>5, Zenon DEF Fail, Counted, OverrunNeedsMany
<1>6. ASSUME Reading', result' = "reading"
      PROVE  Counted' /\ OverrunNeedsMany'
  BY <1>6, Zenon DEF Counted, OverrunNeedsMany
<1>7. ASSUME status # "NONE", l \notin Opens \cup Closes, argv' = argv
      PROVE  Covered'
  <2>1. PICK i \in 1..Len(conf') :
          /\ Within(i)'
          /\ Count(i, Dashes)' \in Nat
          /\ Len(argv) + (IF l \in Dashes THEN 1 ELSE 0) <= Count(i, Dashes)'
    BY <1>1, <1>2, <1>7, CoveredLine, Zenon
  <2>2. Len(argv) \in Nat
    BY DEF Typed
  <2>3. Len(argv') <= Count(i, Dashes)'
    BY <1>7, <2>1, <2>2
  <2>4. i \in 1..(Len(conf') + 1)
    BY DEF Typed
  <2> QED
    BY <2>1, <2>3, <2>4, Zenon DEF Covered
<1>8. CASE Skip(l)
  BY <1>1, <1>2, <1>4, <1>6, <1>8, Zenon DEF Skip
<1>9. CASE ~skipping /\ Blank(l)
  <2>1. l \notin Opens \cup Closes /\ UNCHANGED <<status, skipping, argv, plugins, result>>
    BY <1>9, Zenon DEF Blank, block, Opens, Closes, Types
  <2>2. status' # "NONE" => Covered'
    BY <1>7, <2>1, Zenon
  <2> QED
    BY <1>1, <1>2, <1>4, <1>6, <2>1, <2>2, Zenon
<1>10. CASE ~skipping /\ Open(l)
  <2>1. CASE status # "NONE"
    BY <1>5, <1>10, <2>1, Zenon DEF Open
  <2>2. CASE status = "NONE"
    <3>1. argv' = <<>> /\ UNCHANGED <<plugins, result>> /\ (skipping' => status' = "NONE")
      BY <1>10, <2>2, Zenon DEF Open
    <3>2. Len(conf') \in Nat
      BY DEF Typed
    <3>3. PICK n \in Nat : n = Len(conf') + 1
      BY <3>2
    <3>4. n \in 1..(Len(conf') + 1) /\ n..Len(conf') = {}
      BY <3>2, <3>3
    <3>5. Within(n)'
      BY <3>4, Zenon DEF Within
    <3>6. Count(n, Dashes)' = 0
      <4>1. {k \in n..Len(conf') : conf'[k] \in Dashes} = {}
        BY <3>4, Zenon
      <4> QED
        BY <4>1, FS_EmptySet, Zenon DEF Count
    <3>7. Len(argv') <= Count(n, Dashes)'
      BY <3>1, <3>6
    <3>8. Covered'
      BY <3>4, <3>5, <3>7, Zenon DEF Covered
    <3> QED
      BY <1>1, <1>4, <1>6, <3>1, <3>8, Zenon
  <2> QED
    BY <2>1, <2>2, Zenon
<1>11. CASE ~skipping /\ Bang(l)
  <2>1. CASE status # "PLUG"
    BY <1>5, <1>11, <2>1, Zenon DEF Bang
  <2>2. CASE status = "PLUG"
    <3>1. /\ l \notin Opens \cup Closes /\ status # "NONE"
          /\ UNCHANGED <<skipping, argv, plugins, result>>
      BY <1>11, <2>2, Zenon DEF Bang, Enter, Opens, Closes, Types
    <3>2. Covered'
      BY <1>7, <3>1, Zenon
    <3> QED
      BY <1>1, <1>4, <1>6, <1>11, <3>1, <3>2, Zenon
  <2> QED
    BY <2>1, <2>2, Zenon
<1>12. CASE ~skipping /\ Close(l)
  <2>1. CASE status \notin {"VAL", "PLUG"}
    BY <1>5, <1>12, <2>1, Zenon DEF Close
  <2>2. CASE status' = "NONE" /\ UNCHANGED <<skipping, plugins, result>>
    BY <1>1, <1>4, <1>6, <2>2, Zenon
  <2>3. CASE l = "close" /\ result' = "overrun" /\ Len(plugins) = MaxPlugins
    <3>1. Count(1, {"close"})' > MaxPlugins
      BY <1>2, <1>3, <2>3, SparserAssumption
    <3> QED
      BY <2>3, <3>1, Zenon DEF OverrunNeedsMany, Counted
  <2>4. CASE /\ l = "close" /\ status' = "NONE" /\ UNCHANGED <<skipping, result>>
             /\ plugins' = Append(plugins, [type |-> type, args |-> argv])
    <3>1. Len(plugins') = Len(plugins) + 1
      BY <2>4 DEF Typed
    <3>2. Len(plugins') <= Count(1, {"close"})'
      BY <1>2, <1>3, <2>4, <3>1
    <3> QED
      BY <1>1, <1>6, <2>4, <3>2, Zenon
  <2> QED
    BY <1>12, <2>1, <2>2, <2>3, <2>4, Zenon DEF Close, Enter, Closes
<1>13. CASE ~skipping /\ Switch(l)
  <2>1. l \notin Opens \cup Closes /\ status = "PLUG"
    BY <1>13, Zenon DEF Switch, Opens, Closes, Types, Dashes
  <2>2. CASE l = "off"
    BY <1>1, <1>4, <1>6, <1>13, <2>2, Zenon DEF Switch
  <2>3. CASE l = "on"
    <3>1. UNCHANGED <<status, skipping, argv, plugins, result>>
      BY <1>13, <2>3, Zenon DEF Switch, block
    <3>2. Covered'
      BY <1>7, <2>1, <3>1, Zenon
    <3> QED
      BY <1>1, <1>4, <1>6, <1>13, <3>1, <3>2, Zenon
  <2>4. CASE l \notin {"on", "off"}
    BY <1>5, <1>13, <2>4, Zenon DEF Switch
  <2> QED
    BY <2>2, <2>3, <2>4, Zenon
<1>14. CASE ~skipping /\ Argument(l)
  <2>1. l \in Dashes /\ l \notin Opens \cup Closes /\ status # "NONE"
    BY <1>14, Zenon DEF Argument, Opens, Closes, Types, Dashes
  <2>2. PICK i \in 1..Len(conf') :
          Within(i)' /\ Count(i, Dashes)' \in Nat /\ Len(argv) + 1 <= Count(i, Dashes)'
    BY <1>1, <1>2, <2>1, CoveredLine, Zenon
  <2>3. Len(argv) \in Nat /\ Len(conf') \in Nat /\ i \in 1..(Len(conf') + 1)
    BY DEF Typed
  <2>4. CASE Len(argv) = MaxArgs
    <3>1. Count(i, Dashes)' > MaxArgs
      BY <2>2, <2>3, <2>4
    <3>2. \A k \in i..Len(conf') : conf'[k] \notin Types \cup {"alien"} \cup Closes
      BY <2>2, Zenon DEF Within, Opens
    <3>3. result' = "overrun"
      BY <1>14, <2>4, Zenon DEF Argument
    <3> QED
      BY <2>2, <3>1, <3>2, <3>3, Zenon DEF OverrunNeedsMany, Counted
  <2>5. CASE Len(argv) # MaxArgs
    <3>1. argv' = Append(argv, l) /\ UNCHANGED <<skipping, plugins, result>>
      BY <1>14, <2>5, Zenon DEF Argument
    <3>2. Len(argv') = Len(argv) + 1
      BY <3>1 DEF Typed
    <3>3. Covered'
      BY <2>2, <2>3, <3>2, Zenon DEF Covered
    <3> QED
      BY <1>1, <1>4, <1>6, <1>14, <3>1, <3>3, Zenon
  <2> QED
    BY <2>4, <2>5, Zenon
<1>15. CASE Word(l) \/ Stray(l)
  BY <1>5, <1>15, Zenon DEF Word, Stray
<1> QED
  BY <1>8, <1>9, <1>10, <1>11, <1>12, <1>13, <1>14, <1>15, Zenon DEF Line

(* OverrunNeedsMany, for files of any length and arrays of any size: the   *)
(* only way sparse leaves argv or plugins is a line too many of a block or *)
(* a block too many.                                                       *)
THEOREM OverrunNeedsManyAlways == Spec => []OverrunNeedsMany
<1>1. Init => CInv
  <2> SUFFICES ASSUME Init PROVE CInv
    OBVIOUS
  <2>1. Typed
    <3>1. conf \in Seq(Words) /\ argv \in Seq(Dashes) /\ plugins \in Seq([type : Types, args : Seq(Dashes)])
      BY DEF Init
    <3> QED
      BY <3>1, Zenon DEF Init, Typed, Types
  <2>2. Len(plugins) = 0 /\ 1 \in Nat /\ conf \in Seq(Words)
    BY DEF Init
  <2>3. Count(1, {"close"}) \in Nat
    BY <2>2, CountType, Zenon
  <2>4. Len(plugins) <= Count(1, {"close"})
    BY <2>2, <2>3
  <2> QED
    BY <2>1, <2>4, Zenon DEF Init, CInv, Counted, OverrunNeedsMany
<1>2. CInv /\ [Next]_vars => CInv'
  <2> SUFFICES ASSUME CInv, [Next]_vars
               PROVE  CInv'
    OBVIOUS
  <2>1. CASE UNCHANGED vars
    <3>1. /\ conf' = conf /\ status' = status /\ skipping' = skipping /\ type' = type
          /\ argv' = argv /\ plugins' = plugins /\ result' = result
      BY <2>1, Zenon DEF vars, block
    <3>2. Typed'
      BY <3>1, Zenon DEF CInv, Typed
    <3>3. Counted'
      BY <3>1, Zenon DEF CInv, Counted, Covered, Within, Count
    <3>4. OverrunNeedsMany'
      BY <3>1, Zenon DEF CInv, OverrunNeedsMany, Count
    <3> QED
      BY <3>2, <3>3, <3>4, Zenon DEF CInv
  <2>2. CASE Next
    <3>1. Typed'
      BY <2>2, TypedStep, Zenon DEF CInv
    <3>2. ASSUME NEW l \in Lines, Line(l)
          PROVE  Counted' /\ OverrunNeedsMany'
      BY <3>1, <3>2, LineCounted, Zenon DEF CInv
    <3>3. ASSUME Eof \/ ReadError \/ NoFile
          PROVE  Counted' /\ OverrunNeedsMany'
      BY <3>3, Zenon DEF Eof, ReadError, NoFile, Fail, Counted, OverrunNeedsMany
    <3> QED
      BY <2>2, <3>1, <3>2, <3>3, Zenon DEF Next, CInv
  <2> QED
    BY <2>1, <2>2, Zenon
<1>3. CInv => OverrunNeedsMany
  BY Zenon DEF CInv
<1> QED
  BY <1>1, <1>2, <1>3, PTL DEF Spec
-----------------------------------------------------------------------------
(* The file is read as blocks: what sparse has in its variables is the     *)
(* block of the next line, and what it has loaded are the blocks before.   *)

(* c and d have the same lines in block b. *)
Same(c, d, b) == \A k \in b : d[k] = c[k]

(* A block means what its lines say, wherever they are read from. *)
LEMMA SameLines ==
  ASSUME NEW c, NEW d, NEW b, Same(c, d, b)
  PROVE  /\ Off(d, b) <=> Off(c, b)
         /\ Bare(d, b) <=> Bare(c, b)
         /\ Named(d, b) <=> Named(c, b)
         /\ Args(d, b) = Args(c, b)
         /\ Whole(d, b) <=> Whole(c, b)
         /\ Loading(d, b) <=> Loading(c, b)
         /\ \A p : PluginIs(d, b, p) <=> PluginIs(c, b, p)
<1>1. Off(d, b) <=> Off(c, b)
  <2>1. \A h, o \in b :
          (\A k \in b : k = h \/ o <= k \/ d[k] = "on") <=> (\A k \in b : k = h \/ o <= k \/ c[k] = "on")
    BY Zenon DEF Same
  <2> QED
    BY <2>1, SMT DEF Same, Off
<1>2. Bare(d, b) <=> Bare(c, b)
  BY Zenon DEF Same, Bare
<1>3. Named(d, b) <=> Named(c, b)
  <2>1. \A h, n \in b :
          (\A k \in b : k = h \/ k = n \/ (k < n /\ d[k] = "on") \/ (n < k /\ d[k] \in Dashes)) <=>
          (\A k \in b : k = h \/ k = n \/ (k < n /\ c[k] = "on") \/ (n < k /\ c[k] \in Dashes))
    BY Zenon DEF Same
  <2> QED
    BY <2>1, SMT DEF Same, Named
<1>4. Args(d, b) = Args(c, b)
  BY Zenon DEF Same, Args
<1>5. Whole(d, b) <=> Whole(c, b)
  BY <1>1, <1>2, <1>3, <1>4, Zenon DEF Whole
<1>6. Loading(d, b) <=> Loading(c, b)
  BY <1>1, <1>4, <1>5, Zenon DEF Loading, Same
<1>7. ASSUME NEW p PROVE PluginIs(d, b, p) <=> PluginIs(c, b, p)
  <2>1. \A k \in Args(c, b) : d[k] = c[k]
    BY Zenon DEF Same, Args
  <2>2. ArgsAre(d, Args(c, b), p.args) <=> ArgsAre(c, Args(c, b), p.args)
    BY <2>1, Zenon DEF ArgsAre
  <2> QED
    BY <1>4, <2>2, Zenon DEF PluginIs, Same
<1> QED
  BY <1>1, <1>2, <1>3, <1>4, <1>5, <1>6, <1>7, Zenon

(* fgets: the lines read stay where they are. *)
LEMMA LineAdded ==
  ASSUME NEW c \in Seq(Words), NEW l \in Words, NEW d, d = Append(c, l)
  PROVE  /\ d \in Seq(Words) /\ Len(c) \in Nat /\ Len(d) = Len(c) + 1 /\ d[Len(c) + 1] = l
         /\ \A k \in 1..Len(c) : d[k] = c[k]
         /\ 1..Len(d) = (1..Len(c)) \cup {Len(c) + 1}
  OBVIOUS

(* The blocks that are closed stay as they are. *)
LEMMA BlockKept ==
  ASSUME NEW c \in Seq(Words), NEW l \in Words, NEW d, d = Append(c, l), NEW n \in 0..Len(c)
  PROVE  /\ Block(d, n) = Block(c, n) /\ Block(c, n) \in SUBSET (1..n)
         /\ Same(c, d, Block(c, n))
<1>1. \A k \in 1..n : d[k] = c[k] /\ \A m \in k..n : d[m] = c[m]
  OBVIOUS
<1>2. Block(d, n) = Block(c, n)
  BY <1>1, Zenon DEF Block
<1> QED
  BY <1>1, <1>2, Zenon DEF Block, Same

(* '>' begins a new block, a blank line is no part of one, and every other *)
(* line is part of the block it is in.                                     *)
LEMMA BlockNext ==
  ASSUME NEW c \in Seq(Words), NEW l \in Words, NEW d, d = Append(c, l)
  PROVE  /\ l \in Closes => Block(d, Len(d)) = {}
         /\ l \in {"blank", "ioerror"} => Block(d, Len(d)) = Block(c, Len(c))
         /\ l \notin Closes /\ l \notin {"blank", "ioerror"} =>
              Block(d, Len(d)) = Block(c, Len(c)) \cup {Len(c) + 1}
<1>1. PICK n \in Nat, x \in Nat :
        n = Len(c) /\ x = Len(d) /\ x = n + 1 /\ d[x] = l /\ \A k \in 1..n : d[k] = c[k]
  BY LineAdded
<1>2. x \notin 1..n /\ \A k : k \in 1..x <=> k \in 1..n \/ k = x
  BY <1>1
<1>3. /\ \A k \in 1..n : \A m : m \in k..x <=> m \in k..n \/ m = x
      /\ \A k \in 1..n : \A m \in k..n : m \in 1..n
      /\ \A m : m \in x..x <=> m = x
  BY <1>1
<1>4. \A k \in 1..n : d[k] = c[k] /\ \A m \in k..n : d[m] = c[m]
  BY <1>1, <1>3, Zenon
<1>5. ASSUME NEW k \in 1..n
      PROVE  k \in Block(d, x) <=> k \in Block(c, n) /\ l \notin Closes
  <2>1. (\A m \in k..x : d[m] \notin Closes) <=> (\A m \in k..n : c[m] \notin Closes) /\ l \notin Closes
    <3>1. x \in k..x /\ \A m : m \in k..x <=> m \in k..n \/ m = x
      BY <1>3, Zenon
    <3>2. d[x] = l /\ \A m \in k..n : d[m] = c[m]
      BY <1>1, <1>4, Zenon
    <3> QED
      BY <3>1, <3>2, Zenon
  <2>2. k \in 1..x
    BY <1>2, Zenon
  <2> QED
    BY <1>4, <2>1, <2>2, Zenon DEF Block
<1>6. x \in Block(d, x) <=> l \notin Closes /\ l \notin {"blank", "ioerror"}
  <2>1. x \in 1..x /\ x \in x..x /\ \A m \in x..x : d[m] = l
    BY <1>1, <1>2, <1>3
  <2> QED
    BY <1>1, <2>1, Zenon DEF Block
<1>7. (\A k : k \in Block(d, x) => k \in 1..n \/ k = x) /\ \A k : k \in Block(c, n) => k \in 1..n
  BY <1>2, Zenon DEF Block
<1>8. {"blank", "ioerror"} \cap Closes = {}
  BY Zenon DEF Closes
<1>9. ASSUME l \in Closes PROVE Block(d, x) = {}
  BY <1>5, <1>6, <1>7, <1>9, Zenon
<1>10. ASSUME l \in {"blank", "ioerror"} PROVE Block(d, x) = Block(c, n)
  BY <1>2, <1>5, <1>6, <1>7, <1>8, <1>10, Zenon
<1>11. ASSUME l \notin Closes, l \notin {"blank", "ioerror"}
       PROVE  Block(d, x) = Block(c, n) \cup {x}
  BY <1>5, <1>6, <1>7, <1>11, Zenon
<1> QED
  BY <1>1, <1>9, <1>10, <1>11, Zenon

(* The first line of a block stays the first. *)
LEMMA BeginsKept ==
  ASSUME NEW n \in Nat, NEW b \in SUBSET (1..n), NEW h
  PROVE  Begins(b, h) => Begins(b \cup {n + 1}, h)
  BY DEF Begins

(* A block has one first line. *)
LEMMA BeginsOnce ==
  ASSUME NEW b \in SUBSET Nat, NEW g, NEW h, Begins(b, g), Begins(b, h)
  PROVE  g = h
<1>1. g \in Nat /\ h \in Nat /\ g <= h /\ h <= g
  BY Zenon DEF Begins
<1> QED
  BY <1>1

(* No block is of two forms. *)
LEMMA OneForm ==
  ASSUME NEW c, NEW n \in Nat, NEW b \in SUBSET (1..n)
  PROVE  /\ Bare(c, b) => ~Off(c, b) /\ ~Named(c, b) /\ Args(c, b) = {}
         /\ Named(c, b) => ~Off(c, b)
         /\ b = {} => ~Off(c, b) /\ ~Bare(c, b) /\ ~Named(c, b)
<1>1. Bare(c, b) => ~Off(c, b)
  BY DEF Bare, Off, Begins, Types
<1>2. Bare(c, b) => ~Named(c, b)
  BY DEF Bare, Named, Begins, Types
<1>3. Bare(c, b) => Args(c, b) = {}
  BY DEF Bare, Args, Begins, Types
<1>4. Named(c, b) => ~Off(c, b)
  BY DEF Named, Off, Begins, Types, Dashes
<1>5. b = {} => ~Off(c, b) /\ ~Bare(c, b) /\ ~Named(c, b)
  BY Zenon DEF Off, Bare, Named
<1> QED
  BY <1>1, <1>2, <1>3, <1>4, <1>5, Zenon

(* skip_until: nothing but '>' ends what is skipped. *)
LEMMA OffGrows ==
  ASSUME NEW c, NEW d, NEW n \in Nat, NEW b \in SUBSET (1..n), Same(c, d, b), Off(c, b)
  PROVE  Off(d, b \cup {n + 1})
  BY DEF Same, Off, Begins

(* The first line of a block: '<' and nothing else. *)
LEMMA FirstLine ==
  ASSUME NEW d, NEW x \in Nat
  PROVE  /\ d[x] \in Types => Bare(d, {x}) /\ Begins({x}, x)
         /\ d[x] = "alien" => Off(d, {x})
         /\ d[x] \notin Opens => ~Begun(d, {x})
  BY DEF Bare, Off, Named, Begun, Begins, Opens

(* After '<' and its switches: '-'ON, '-'OFF, '!' and nothing else. *)
LEMMA AfterBare ==
  ASSUME NEW c, NEW d, NEW n \in Nat, NEW b \in SUBSET (1..n), Same(c, d, b), Bare(c, b)
  PROVE  /\ d[n + 1] = "on" => Bare(d, b \cup {n + 1})
         /\ d[n + 1] = "off" => Off(d, b \cup {n + 1})
         /\ d[n + 1] = "bang" => Named(d, b \cup {n + 1}) /\ Args(d, b \cup {n + 1}) = {}
         /\ d[n + 1] \notin {"on", "off", "bang"} => ~Begun(d, b \cup {n + 1})
<1>1. PICK h \in b : Begins(b, h) /\ c[h] \in Types /\ \A k \in b : k = h \/ c[k] = "on"
  BY Zenon DEF Bare
<1> DEFINE x == n + 1
           a == b \cup {x}
<1>2. x \in Nat /\ x \notin b /\ h \in Nat /\ h < x /\ \A k \in b : k \in Nat /\ k < x /\ x \in a
  OBVIOUS
<1>3. Begins(a, h) /\ \A g : Begins(a, g) => g = h
  <2>1. Begins(a, h)
    BY <1>1, BeginsKept, Zenon
  <2>2. a \in SUBSET Nat
    OBVIOUS
  <2> QED
    BY <2>1, <2>2, BeginsOnce, Zenon
<1>4. d[h] \in Types /\ \A k \in b : k = h \/ d[k] = "on"
  BY <1>1, Zenon DEF Same
<1>5. d[h] \notin {"on", "off", "bang", "alien"}
  BY <1>4, Zenon DEF Types
<1>6. ASSUME d[x] = "on" PROVE Bare(d, a)
  BY <1>3, <1>4, <1>6, Zenon DEF Bare
<1>7. ASSUME d[x] = "off" PROVE Off(d, a)
  BY <1>2, <1>3, <1>4, <1>7 DEF Off
<1>8. ASSUME d[x] = "bang" PROVE Named(d, a) /\ Args(d, a) = {}
  <2>1. Named(d, a)
    BY <1>2, <1>3, <1>4, <1>8 DEF Named
  <2>2. ASSUME NEW k \in a, NEW m \in a, m < k, d[m] = "bang"
        PROVE  FALSE
    BY <1>2, <1>4, <1>5, <2>2
  <2>3. Args(d, a) = {}
    BY <2>2, Zenon DEF Args
  <2> QED
    BY <2>1, <2>3, Zenon
<1>9. ASSUME d[x] \notin {"on", "off", "bang"} PROVE ~Begun(d, a)
  <2>1. ~Off(d, a)
    BY <1>2, <1>3, <1>4, <1>5, <1>9 DEF Off
  <2>2. ~Bare(d, a)
    BY <1>2, <1>3, <1>9 DEF Bare
  <2>3. ~Named(d, a)
    BY <1>2, <1>4, <1>5, <1>9 DEF Named
  <2> QED
    BY <1>2, <2>1, <2>2, <2>3, Zenon DEF Begun
<1> QED
  BY <1>6, <1>7, <1>8, <1>9, Zenon

(* After '!': arguments and nothing else. *)
LEMMA AfterNamed ==
  ASSUME NEW c, NEW d, NEW n \in Nat, NEW b \in SUBSET (1..n), Same(c, d, b), Named(c, b)
  PROVE  /\ d[n + 1] \in Dashes =>
              /\ Named(d, b \cup {n + 1})
              /\ \A k : k \in Args(d, b \cup {n + 1}) <=> k \in Args(c, b) \/ k = n + 1
         /\ d[n + 1] \notin Dashes => ~Begun(d, b \cup {n + 1})
<1>1. PICK h \in b, g \in b :
        /\ Begins(b, h) /\ c[h] \in Types /\ c[g] = "bang"
        /\ \A k \in b : k = h \/ k = g \/ (k < g /\ c[k] = "on") \/ (g < k /\ c[k] \in Dashes)
  BY Zenon DEF Named
<1> DEFINE x == n + 1
           a == b \cup {x}
<1>2. x \in Nat /\ x \notin b /\ h \in Nat /\ g \in Nat /\ g < x /\ \A k \in b : k \in Nat /\ k < x /\ x \in a
  OBVIOUS
<1>3. Begins(a, h) /\ \A k : Begins(a, k) => k = h
  <2>1. Begins(a, h)
    BY <1>1, BeginsKept, Zenon
  <2>2. a \in SUBSET Nat
    OBVIOUS
  <2> QED
    BY <2>1, <2>2, BeginsOnce, Zenon
<1>4. /\ d[h] \in Types /\ d[g] = "bang"
      /\ \A k \in b : k = h \/ k = g \/ (k < g /\ d[k] = "on") \/ (g < k /\ d[k] \in Dashes)
  BY <1>1, Zenon DEF Same
<1>5. d[h] \notin {"on", "off", "bang", "alien"} /\ \A y \in Dashes : y # "bang"
  BY <1>4, Zenon DEF Types, Dashes
<1>6. ASSUME d[x] \in Dashes
      PROVE  Named(d, a) /\ \A k : k \in Args(d, a) <=> k \in Args(c, b) \/ k = x
  <2>1. Named(d, a)
    BY <1>2, <1>3, <1>4, <1>6 DEF Named
  <2>2. x \in Args(d, a)
    BY <1>2, <1>4, Zenon DEF Args
  <2>3. \A k \in b : k \in Args(d, a) <=> k \in Args(c, b)
    BY <1>2, <1>5, <1>6 DEF Args, Same
  <2> QED
    BY <2>1, <2>2, <2>3, Zenon DEF Args
<1>7. ASSUME d[x] \notin Dashes PROVE ~Begun(d, a)
  <2>1. ~Off(d, a)
    BY <1>2, <1>3, <1>4, <1>5, <1>7 DEF Off, Dashes
  <2>2. ~Bare(d, a)
    BY <1>2, <1>3, <1>4, <1>5 DEF Bare
  <2>3. ~Named(d, a)
    BY <1>2, <1>3, <1>4, <1>5, <1>7 DEF Named, Dashes
  <2> QED
    BY <1>2, <2>1, <2>2, <2>3, Zenon DEF Begun
<1> QED
  BY <1>6, <1>7, Zenon

-----------------------------------------------------------------------------
(* Lines are ranked by number, and one more comes last. *)
LEMMA Ranks ==
  ASSUME NEW n \in Nat, NEW K \in SUBSET (1..n)
  PROVE  /\ Cardinality(K) \in Nat /\ Cardinality(K \cup {n + 1}) = Cardinality(K) + 1
         /\ \A k \in K : Rank(K, k) \in 1..Cardinality(K) /\ Rank(K \cup {n + 1}, k) = Rank(K, k)
         /\ Rank(K \cup {n + 1}, n + 1) = Cardinality(K) + 1
<1> DEFINE x == n + 1
<1>1. x \notin K /\ \A k \in K : k <= k /\ k <= x /\ ~(x <= k)
  OBVIOUS
<1>2. IsFiniteSet(K)
  <2>1. IsFiniteSet(1..n)
    BY FS_Interval
  <2> QED
    BY <2>1, FS_Subset, Zenon
<1>3. Cardinality(K) \in Nat /\ Cardinality(K \cup {x}) = Cardinality(K) + 1
  BY <1>1, <1>2, FS_CardinalityType, FS_AddElement, Zenon
<1>4. ASSUME NEW k \in K
      PROVE  Rank(K, k) \in 1..Cardinality(K) /\ Rank(K \cup {x}, k) = Rank(K, k)
  <2> DEFINE S == {m \in K : m <= k}
  <2>1. S \in SUBSET K /\ k \in S
    BY <1>1, Zenon
  <2>2. IsFiniteSet(S) /\ Cardinality(S) <= Cardinality(K)
    BY <1>2, <2>1, FS_Subset, Zenon
  <2>3. Cardinality(S) \in Nat /\ Cardinality(S) # 0
    BY <2>1, <2>2, FS_CardinalityType, FS_EmptySet, Zenon
  <2>4. {m \in K \cup {x} : m <= k} = S
    BY <1>1, Zenon
  <2>5. Rank(K, k) = Cardinality(S) /\ Rank(K \cup {x}, k) = Cardinality(S)
    BY <2>4, Zenon DEF Rank
  <2> HIDE DEF S
  <2> QED
    BY <1>3, <2>2, <2>3, <2>5
<1>5. Rank(K \cup {x}, x) = Cardinality(K) + 1
  <2>1. x <= x
    OBVIOUS
  <2>2. {m \in K \cup {x} : m <= x} = K \cup {x}
    BY <1>1, <2>1, Zenon
  <2> QED
    BY <1>3, <2>2, Zenon DEF Rank
<1> QED
  BY <1>3, <1>4, <1>5, Zenon

(* No lines are no arguments. *)
LEMMA NoArgs ==
  ASSUME NEW c
  PROVE  ArgsAre(c, {}, <<>>)
<1>1. Len(<<>>) = 0
  OBVIOUS
<1> QED
  BY <1>1, FS_EmptySet, Zenon DEF ArgsAre

(* argv[argc++]: the next line is the next argument. *)
LEMMA NextArg ==
  ASSUME NEW c, NEW d, NEW n \in Nat, NEW K \in SUBSET (1..n), Same(c, d, K),
         NEW s \in Seq(Dashes), ArgsAre(c, K, s), d[n + 1] \in Dashes
  PROVE  ArgsAre(d, K \cup {n + 1}, Append(s, d[n + 1]))
<1> DEFINE x == n + 1
           t == Append(s, d[x])
<1>1. Len(t) = Len(s) + 1 /\ t[Len(s) + 1] = d[x] /\ \A i \in 1..Len(s) : t[i] = s[i]
  OBVIOUS
<1>2. /\ Cardinality(K) \in Nat /\ Cardinality(K \cup {x}) = Cardinality(K) + 1
      /\ \A k \in K : Rank(K, k) \in 1..Cardinality(K) /\ Rank(K \cup {x}, k) = Rank(K, k)
      /\ Rank(K \cup {x}, x) = Cardinality(K) + 1
  BY Ranks, Zenon
<1>3. Len(s) = Cardinality(K) /\ \A k \in K : s[Rank(K, k)] = c[k]
  BY Zenon DEF ArgsAre
<1>4. Len(t) = Cardinality(K \cup {x})
  BY <1>1, <1>2, <1>3, Zenon
<1>5. \A k \in K : t[Rank(K \cup {x}, k)] = d[k]
  BY <1>1, <1>2, <1>3, Zenon DEF Same
<1>6. t[Rank(K \cup {x}, x)] = d[x]
  BY <1>1, <1>2, <1>3, Zenon
<1> HIDE DEF x, t
<1>7. ArgsAre(d, K \cup {x}, t)
  BY <1>4, <1>5, <1>6, Zenon DEF ArgsAre
<1> QED
  BY <1>7, Zenon DEF x, t

(* One argument, and which one: what load_mysql_module asks of argv is     *)
(* asked of the block.                                                     *)
LEMMA OneArg ==
  ASSUME NEW c, NEW n \in Nat, NEW K \in SUBSET (1..n), NEW s \in Seq(Dashes), ArgsAre(c, K, s)
  PROVE  s = <<"target">> <=> \E k \in K : K = {k} /\ c[k] = "target"
<1>1. IsFiniteSet(K)
  <2>1. IsFiniteSet(1..n)
    BY FS_Interval
  <2> QED
    BY <2>1, FS_Subset, Zenon
<1>2. Len(s) = Cardinality(K) /\ \A k \in K : s[Rank(K, k)] = c[k]
  BY Zenon DEF ArgsAre
<1>3. ASSUME NEW k, K = {k}
      PROVE  Cardinality(K) = 1 /\ s[1] = c[k]
  <2>1. k \in 1..n
    BY <1>3
  <2>2. {m \in K : m <= k} = {k}
    BY <1>3, <2>1
  <2> QED
    BY <1>2, <1>3, <2>2, FS_Singleton, Zenon DEF Rank
<1>4. ASSUME s = <<"target">>
      PROVE  \E k \in K : K = {k} /\ c[k] = "target"
  <2>1. Len(s) = 1 /\ s[1] = "target"
    BY <1>4
  <2>2. PICK k : K = {k}
    BY <1>1, <1>2, <2>1, FS_Singleton, Zenon
  <2> QED
    BY <1>3, <2>1, <2>2, Zenon
<1>5. ASSUME NEW k \in K, K = {k}, c[k] = "target"
      PROVE  s = <<"target">>
  <2>1. Len(s) = 1 /\ s[1] = "target"
    BY <1>2, <1>3, <1>5, Zenon
  <2> QED
    BY <2>1
<1> QED
  BY <1>4, <1>5, Zenon

(* The plugins that are loaded stay those of the blocks before. *)
LEMMA PluginsKept ==
  ASSUME NEW c \in Seq(Words), NEW l \in Words, NEW d, d = Append(c, l),
         NEW E \in SUBSET (1..Len(c)), NEW s, PluginsAre(c, E, s)
  PROVE  PluginsAre(d, E, s)
<1>1. ASSUME NEW e \in E, NEW p, PluginIs(c, Block(c, e - 1), p)
      PROVE  PluginIs(d, Block(d, e - 1), p)
  <2>1. e - 1 \in 0..Len(c)
    OBVIOUS
  <2>2. Block(d, e - 1) = Block(c, e - 1) /\ Same(c, d, Block(c, e - 1))
    BY <2>1, BlockKept, Zenon
  <2> QED
    BY <1>1, <2>2, SameLines, Zenon
<1> QED
  BY <1>1, Zenon DEF PluginsAre

(* plugins[n++]: the next block is the next plugin. *)
LEMMA NextPlugin ==
  ASSUME NEW c \in Seq(Words), NEW l \in Words, NEW d, d = Append(c, l),
         NEW E \in SUBSET (1..Len(c)), NEW P, NEW s \in Seq(P), PluginsAre(c, E, s),
         NEW p \in P, PluginIs(c, Block(c, Len(c)), p)
  PROVE  PluginsAre(d, E \cup {Len(c) + 1}, Append(s, p))
<1> DEFINE x == Len(c) + 1
           t == Append(s, p)
<1>1. Len(t) = Len(s) + 1 /\ t[Len(s) + 1] = p /\ \A i \in 1..Len(s) : t[i] = s[i]
  OBVIOUS
<1>2. Len(c) \in Nat /\ x - 1 = Len(c) /\ Len(c) \in 0..Len(c)
  OBVIOUS
<1>3. /\ Cardinality(E) \in Nat /\ Cardinality(E \cup {x}) = Cardinality(E) + 1
      /\ \A e \in E : Rank(E, e) \in 1..Cardinality(E) /\ Rank(E \cup {x}, e) = Rank(E, e)
      /\ Rank(E \cup {x}, x) = Cardinality(E) + 1
  BY <1>2, Ranks, Zenon
<1>4. Len(s) = Cardinality(E) /\ \A e \in E : PluginIs(d, Block(d, e - 1), s[Rank(E, e)])
  BY PluginsKept, Zenon DEF PluginsAre
<1>5. PluginIs(d, Block(d, x - 1), p)
  <2>1. Block(d, Len(c)) = Block(c, Len(c)) /\ Same(c, d, Block(c, Len(c)))
    BY <1>2, BlockKept, Zenon
  <2> QED
    BY <1>2, <2>1, SameLines, Zenon
<1>6. \A e \in E : t[Rank(E \cup {x}, e)] = s[Rank(E, e)]
  BY <1>1, <1>3, <1>4, Zenon
<1>7. t[Rank(E \cup {x}, x)] = p /\ Len(t) = Cardinality(E \cup {x})
  BY <1>1, <1>3, <1>4, Zenon
<1> HIDE DEF x, t
<1>8. PluginsAre(d, E \cup {x}, t)
  BY <1>4, <1>5, <1>6, <1>7, Zenon DEF PluginsAre
<1> QED
  BY <1>8, Zenon DEF x, t

(* A line with '>' loads the plugin of its block or none. *)
LEMMA LoadedNext ==
  ASSUME NEW c \in Seq(Words), NEW l \in Words, NEW d, d = Append(c, l)
  PROVE  /\ Loaded(c) \in SUBSET (1..Len(c))
         /\ Loaded(d) = IF l = "close" /\ Loading(c, Block(c, Len(c))) THEN Loaded(c) \cup {Len(c) + 1}
                        ELSE Loaded(c)
<1>1. PICK n \in Nat, x \in Nat :
        n = Len(c) /\ x = Len(d) /\ x = n + 1 /\ d[x] = l /\ \A k \in 1..n : d[k] = c[k]
  BY LineAdded
<1>2. x \notin 1..n /\ (\A e : e \in 1..x <=> e \in 1..n \/ e = x) /\ x - 1 = n /\ n \in 0..Len(c)
  BY <1>1
<1>3. ASSUME NEW e \in 1..n
      PROVE  e \in Loaded(d) <=> e \in Loaded(c)
  <2>1. e - 1 \in 0..n
    OBVIOUS
  <2>2. Block(d, e - 1) = Block(c, e - 1) /\ Same(c, d, Block(c, e - 1))
    BY <1>1, <2>1, BlockKept, Zenon
  <2>3. Loading(d, Block(d, e - 1)) <=> Loading(c, Block(c, e - 1))
    BY <2>2, SameLines, Zenon
  <2>4. e \in 1..x
    BY <1>2, Zenon
  <2> QED
    BY <1>1, <2>3, <2>4, Zenon DEF Loaded
<1>4. x \in Loaded(d) <=> l = "close" /\ Loading(c, Block(c, n))
  <2>1. Block(d, n) = Block(c, n) /\ Same(c, d, Block(c, n))
    BY <1>1, <1>2, BlockKept, Zenon
  <2>2. Loading(d, Block(d, x - 1)) <=> Loading(c, Block(c, n))
    BY <1>2, <2>1, SameLines, Zenon
  <2>3. x \in 1..x
    BY <1>2, Zenon
  <2> QED
    BY <1>1, <2>2, <2>3, Zenon DEF Loaded
<1>5. (\A e : e \in Loaded(d) => e \in 1..n \/ e = x) /\ \A e : e \in Loaded(c) => e \in 1..n
  BY <1>1, <1>2, Zenon DEF Loaded
<1>6. ASSUME l = "close" /\ Loading(c, Block(c, n)) PROVE Loaded(d) = Loaded(c) \cup {x}
  BY <1>3, <1>4, <1>5, <1>6, Zenon
<1>7. ASSUME ~(l = "close" /\ Loading(c, Block(c, n))) PROVE Loaded(d) = Loaded(c)
  BY <1>3, <1>4, <1>5, <1>7, Zenon
<1> QED
  BY <1>1, <1>5, <1>6, <1>7, Zenon

-----------------------------------------------------------------------------
(* Every block that is closed is whole, and its arguments fit into argv. *)
Earlier(c) ==
  \A e \in 1..Len(c) :
    LET b == Block(c, e - 1)
    IN  c[e] \in Closes => Whole(c, b) /\ (Off(c, b) \/ Cardinality(Args(c, b)) <= MaxArgs)

(* Block b is skipped, or none is open, or it has come to status st with   *)
(* type t and arguments s.                                                 *)
Stage(c, b, skip, st, t, s) ==
  \/ skip /\ st = "NONE" /\ Off(c, b)
  \/ ~skip /\ st = "NONE" /\ b = {}
  \/ /\ ~skip /\ PluginIs(c, b, [type |-> t, args |-> s]) /\ Len(s) <= MaxArgs
     /\ \/ st = "PLUG" /\ Bare(c, b)
        \/ st = "NAME" /\ Named(c, b) /\ Args(c, b) = {}
        \/ st = "VAL" /\ Named(c, b) /\ Args(c, b) # {}

(* What has been read makes up blocks, the last of which is in status,     *)
(* type and argv, and the ones before are in plugins.                      *)
Meant ==
  result = "reading" =>
    /\ Earlier(conf) /\ Stage(conf, Block(conf, Len(conf)), skipping, status, type, argv)
    /\ PluginsAre(conf, Loaded(conf), plugins) /\ Len(plugins) <= MaxPlugins
    /\ \A k \in 1..Len(conf) : conf[k] # "ioerror"

MInv == Typed /\ Meant /\ ConfMeaning

(* A line closes the block before it or leaves what is closed. *)
LEMMA EarlierNext ==
  ASSUME NEW c \in Seq(Words), NEW l \in Words, NEW d, d = Append(c, l), Earlier(c),
         l \in Closes =>
           LET b == Block(c, Len(c))
           IN  Whole(c, b) /\ (Off(c, b) \/ Cardinality(Args(c, b)) <= MaxArgs)
  PROVE  Earlier(d)
<1> SUFFICES ASSUME NEW e \in 1..Len(d), d[e] \in Closes
             PROVE  LET b == Block(d, e - 1)
                    IN  Whole(d, b) /\ (Off(d, b) \/ Cardinality(Args(d, b)) <= MaxArgs)
  BY Zenon DEF Earlier
<1> DEFINE b == Block(c, e - 1)
<1>1. e - 1 \in 0..Len(c) /\ ((e \in 1..Len(c) /\ d[e] = c[e]) \/ (e - 1 = Len(c) /\ d[e] = l))
  BY LineAdded
<1>2. Block(d, e - 1) = b /\ Same(c, d, b)
  BY <1>1, BlockKept, Zenon
<1>3. Whole(c, b) /\ (Off(c, b) \/ Cardinality(Args(c, b)) <= MaxArgs)
  BY <1>1, Zenon DEF Earlier
<1>4. Whole(d, b) /\ (Off(d, b) \/ Cardinality(Args(d, b)) <= MaxArgs)
  <2> HIDE DEF b
  <2>1. Same(c, d, b)
    BY <1>2, Zenon
  <2>2. (Whole(d, b) <=> Whole(c, b)) /\ (Off(d, b) <=> Off(c, b)) /\ Args(d, b) = Args(c, b)
    BY <2>1, SameLines, Zenon
  <2> QED
    BY <1>3, <2>2, Zenon
<1> QED
  BY <1>2, <1>4, Zenon

(* A file whose closed blocks are whole follows the grammar if its last    *)
(* block is begun, and asks for too much in its last block only.           *)
LEMMA LastBlock ==
  ASSUME NEW c \in Seq(Words), Earlier(c)
  PROVE  LET b == Block(c, Len(c))
         IN  /\ Follows(c) <=> Begun(c, b)
             /\ Holds(c) <=> /\ Cardinality(Loaded(c)) <= MaxPlugins
                             /\ Off(c, b) \/ Cardinality(Args(c, b)) <= MaxArgs
<1> DEFINE b == Block(c, Len(c))
<1>1. Follows(c) <=> Begun(c, b)
  BY Zenon DEF Follows, Earlier
<1>2. PICK x \in Nat : x = Len(c) + 1
  OBVIOUS
<1>3. x - 1 = Len(c) /\ \A e : e \in 1..x <=> e \in 1..Len(c) \/ e = x
  BY <1>2
<1>4. Holds(c) <=> /\ Cardinality(Loaded(c)) <= MaxPlugins
                   /\ Off(c, b) \/ Cardinality(Args(c, b)) <= MaxArgs
  BY <1>2, <1>3, Zenon DEF Holds, Earlier
<1> QED
  BY <1>1, <1>4, Zenon

(* A '>' that closes no whole block breaks the grammar. *)
LEMMA ClosesNone ==
  ASSUME NEW c \in Seq(Words), NEW l \in Words, NEW d, d = Append(c, l), l \in Closes, ~Whole(c, Block(c, Len(c)))
  PROVE  ~Follows(d)
<1>1. PICK n \in Nat, x \in Nat : n = Len(c) /\ x = Len(d) /\ x = n + 1 /\ d[x] = l
  BY LineAdded
<1>2. x \in 1..x /\ x - 1 = n /\ n \in 0..Len(c)
  BY <1>1
<1>3. Block(d, n) = Block(c, n) /\ Same(c, d, Block(c, n))
  BY <1>2, BlockKept, Zenon
<1>4. ~Whole(d, Block(d, x - 1))
  BY <1>1, <1>2, <1>3, SameLines, Zenon
<1> QED
  BY <1>1, <1>2, <1>4, Zenon DEF Follows

(* A stage of sparse is a block begun, and is skipped exactly if the block *)
(* is.                                                                     *)
LEMMA StageIs ==
  ASSUME NEW c, NEW n \in Nat, NEW b \in SUBSET (1..n), NEW skip \in BOOLEAN, NEW st, NEW t, NEW s,
         Stage(c, b, skip, st, t, s)
  PROVE  /\ Begun(c, b) /\ (skip <=> Off(c, b))
         /\ Off(c, b) \/ Cardinality(Args(c, b)) <= MaxArgs
<1>1. CASE skip /\ Off(c, b)
  BY <1>1, Zenon DEF Begun
<1>2. CASE ~skip /\ b = {}
  <2>1. Args(c, b) = {}
    BY <1>2, Zenon DEF Args
  <2>2. Cardinality(Args(c, b)) <= MaxArgs
    BY <2>1, FS_EmptySet, SparserAssumption
  <2> QED
    BY <1>2, <2>2, OneForm, Zenon DEF Begun
<1>3. CASE /\ ~skip /\ PluginIs(c, b, [type |-> t, args |-> s]) /\ Len(s) <= MaxArgs
           /\ Bare(c, b) \/ Named(c, b)
  <2>1. Len([type |-> t, args |-> s].args) = Cardinality(Args(c, b))
    BY <1>3, Zenon DEF PluginIs, ArgsAre
  <2>2. [type |-> t, args |-> s].args = s
    OBVIOUS
  <2>3. Cardinality(Args(c, b)) <= MaxArgs
    BY <1>3, <2>1, <2>2, Zenon
  <2> QED
    BY <1>3, <2>3, OneForm, Zenon DEF Begun
<1> QED
  BY <1>1, <1>2, <1>3, Zenon DEF Stage

(* What a plugin is, by its type and arguments *)
LEMMA PluginOf ==
  ASSUME NEW c, NEW b, NEW t, NEW s
  PROVE  PluginIs(c, b, [type |-> t, args |-> s]) <=>
           (\E h \in b : Begins(b, h) /\ t = c[h]) /\ ArgsAre(c, Args(c, b), s)
<1>1. [type |-> t, args |-> s].type = t /\ [type |-> t, args |-> s].args = s
  OBVIOUS
<1> QED
  BY <1>1, Zenon DEF PluginIs

(* '<': the plugin of a block that is just opened has no arguments. *)
LEMMA PluginOpens ==
  ASSUME NEW d, NEW x \in Nat \ {0}, d[x] \in Types
  PROVE  PluginIs(d, {x}, [type |-> d[x], args |-> <<>>])
<1>1. Bare(d, {x}) /\ Begins({x}, x) /\ {x} \in SUBSET (1..x)
  BY FirstLine
<1>2. Args(d, {x}) = {}
  BY <1>1, OneForm, Zenon
<1>3. ArgsAre(d, Args(d, {x}), <<>>)
  BY <1>2, NoArgs, Zenon
<1>4. \E h \in {x} : Begins({x}, h) /\ d[x] = d[h]
  BY <1>1, Zenon
<1> QED
  BY <1>3, <1>4, PluginOf, Zenon

(* A switch or a name changes no argument. *)
LEMMA PluginStays ==
  ASSUME NEW c, NEW d, NEW n \in Nat, NEW b \in SUBSET (1..n), Same(c, d, b), NEW t, NEW s,
         PluginIs(c, b, [type |-> t, args |-> s]), Args(c, b) = {}, Args(d, b \cup {n + 1}) = {}
  PROVE  PluginIs(d, b \cup {n + 1}, [type |-> t, args |-> s])
<1>1. PICK h \in b : Begins(b, h) /\ t = c[h]
  BY PluginOf, Zenon
<1>2. ArgsAre(c, {}, s)
  BY PluginOf, Zenon
<1>3. Begins(b \cup {n + 1}, h) /\ h \in b \cup {n + 1} /\ t = d[h]
  BY <1>1, BeginsKept, Zenon DEF Same
<1>4. ArgsAre(d, Args(d, b \cup {n + 1}), s)
  BY <1>2, Zenon DEF ArgsAre
<1> QED
  BY <1>3, <1>4, PluginOf, Zenon

(* argv[argc++]: an argument goes to the end. *)
LEMMA PluginGrows ==
  ASSUME NEW c, NEW d, NEW n \in Nat, NEW b \in SUBSET (1..n), Same(c, d, b), NEW t, NEW s \in Seq(Dashes),
         PluginIs(c, b, [type |-> t, args |-> s]), d[n + 1] \in Dashes,
         Args(d, b \cup {n + 1}) = Args(c, b) \cup {n + 1}
  PROVE  PluginIs(d, b \cup {n + 1}, [type |-> t, args |-> Append(s, d[n + 1])])
<1>1. (\E h \in b : Begins(b, h) /\ t = c[h]) /\ ArgsAre(c, Args(c, b), s)
  BY PluginOf, Zenon
<1>2. PICK h \in b : Begins(b, h) /\ t = c[h]
  BY <1>1, Zenon
<1>3. Begins(b \cup {n + 1}, h) /\ h \in b \cup {n + 1} /\ t = d[h]
  BY <1>2, BeginsKept, Zenon DEF Same
<1>4. Args(c, b) \in SUBSET (1..n) /\ Same(c, d, Args(c, b))
  BY Zenon DEF Args, Same
<1>5. ArgsAre(d, Args(c, b) \cup {n + 1}, Append(s, d[n + 1]))
  BY <1>1, <1>4, NextArg, Zenon
<1>6. ArgsAre(d, Args(d, b \cup {n + 1}), Append(s, d[n + 1]))
  BY <1>5, Zenon
<1> QED
  BY <1>3, <1>6, PluginOf, Zenon

(* A blank line changes nothing. *)
LEMMA StageSame ==
  ASSUME NEW c, NEW d, NEW b, Same(c, d, b), NEW skip, NEW st, NEW t, NEW s, Stage(c, b, skip, st, t, s)
  PROVE  Stage(d, b, skip, st, t, s)
<1>1. /\ (Off(d, b) <=> Off(c, b)) /\ (Bare(d, b) <=> Bare(c, b)) /\ (Named(d, b) <=> Named(c, b))
      /\ Args(d, b) = Args(c, b)
      /\ PluginIs(d, b, [type |-> t, args |-> s]) <=> PluginIs(c, b, [type |-> t, args |-> s])
  BY SameLines, Zenon
<1> QED
  BY <1>1, Zenon DEF Stage

(* What load_os_module and load_mysql_module say of type and argv is what  *)
(* the block says.                                                         *)
LEMMA LoadsBlock ==
  ASSUME NEW c, NEW n \in Nat, NEW b \in SUBSET (1..n), NEW t \in Types, NEW s \in Seq(Dashes),
         PluginIs(c, b, [type |-> t, args |-> s]), ~Off(c, b), Whole(c, b)
  PROVE  Loading(c, b) <=> Loads(t, s)
<1>1. (\E h \in b : Begins(b, h) /\ t = c[h]) /\ ArgsAre(c, Args(c, b), s)
  BY PluginOf, Zenon
<1>2. Args(c, b) \in SUBSET (1..n) /\ Args(c, b) \subseteq b
  BY Zenon DEF Args
<1>3. s = <<"target">> <=> \E k \in Args(c, b) : Args(c, b) = {k} /\ c[k] = "target"
  BY <1>1, <1>2, OneArg, Zenon
<1>4. (\E k \in Args(c, b) : Args(c, b) = {k} /\ c[k] = "target") <=>
      (\E k \in b : Args(c, b) = {k} /\ c[k] = "target")
  BY <1>2, Zenon
<1>5. b \in SUBSET Nat
  OBVIOUS
<1>6. (\E k \in b : Begins(b, k) /\ c[k] = "os") <=> t = "os"
  BY <1>1, <1>5, BeginsOnce, Zenon
<1> QED
  BY <1>3, <1>4, <1>6, Zenon DEF Loading, Loads

(* Line: a line goes to the block it is in.  It leaves the variables of    *)
(* sparse at that block, adds a plugin for the block it closes, or ends    *)
(* sparse for a line the grammar does not have or one too many.            *)
LEMMA LineMeans ==
  ASSUME Typed, Typed', Meant, NEW l \in Lines, Line(l)
  PROVE  Meant' /\ ConfMeaning'
<1> DEFINE P == [type : Types, args : Seq(Dashes)]
<1>1. /\ l \in Words /\ l # "ioerror" /\ Fgets(l)
      /\ result = "reading" /\ Meant /\ conf' = Append(conf, l) /\ conf \in Seq(Words)
  BY Zenon DEF Line, Words, Fgets, Typed, Lines, Types, Dashes, Closes
<1>2. PICK c \in Seq(Words), d \in Seq(Words), n \in Nat, x \in Nat :
        /\ c = conf /\ d = conf' /\ d = Append(c, l) /\ n = Len(c) /\ x = n + 1 /\ x = Len(d) /\ d[x] = l
        /\ \A k \in 1..n : d[k] = c[k]
  <2>1. PICK c \in Seq(Words), d \in Seq(Words) : c = conf /\ d = conf' /\ d = Append(c, l)
    BY <1>1, Zenon DEF Typed
  <2>2. PICK n \in Nat, x \in Nat :
          n = Len(c) /\ x = n + 1 /\ x = Len(d) /\ d[x] = l /\ \A k \in 1..n : d[k] = c[k]
    BY <1>1, <2>1, LineAdded
  <2> QED
    BY <2>1, <2>2, Zenon
<1>3. PICK b \in SUBSET (1..n) : b = Block(c, n) /\ Same(c, d, b) /\ Block(d, n) = b
  <2>1. n \in 0..Len(c)
    BY <1>2
  <2>2. Block(d, n) = Block(c, n) /\ Block(c, n) \in SUBSET (1..n) /\ Same(c, d, Block(c, n))
    <3>1. d = Append(c, l)
      BY <1>2, Zenon
    <3> QED
      BY <1>1, <2>1, <3>1, BlockKept, Zenon
  <2> QED
    BY <2>2, Zenon
<1>4. /\ Earlier(c) /\ Stage(c, b, skipping, status, type, argv)
      /\ PluginsAre(c, Loaded(c), plugins) /\ Len(plugins) <= MaxPlugins
      /\ \A k \in 1..n : c[k] # "ioerror"
  BY <1>1, <1>2, <1>3, Zenon DEF Meant
<1>5. PICK a : /\ a = Block(d, x)
               /\ l \in Closes => a = {}
               /\ l = "blank" => a = b
               /\ l \notin Closes /\ l # "blank" => a = b \cup {x}
  <2>1. /\ l \in Closes => Block(d, Len(d)) = {}
        /\ l \in {"blank", "ioerror"} => Block(d, Len(d)) = Block(c, Len(c))
        /\ l \notin Closes /\ l \notin {"blank", "ioerror"} =>
             Block(d, Len(d)) = Block(c, Len(c)) \cup {Len(c) + 1}
    <3>1. d = Append(c, l)
      BY <1>2, Zenon
    <3> QED
      BY <1>1, <3>1, BlockNext, Zenon
  <2>2. Len(d) = x /\ Len(c) = n /\ Len(c) + 1 = x /\ Block(c, n) = b
    BY <1>2, <1>3, Zenon
  <2> QED
    BY <1>1, <2>1, <2>2, Zenon
<1>6. /\ Loaded(c) \in SUBSET (1..n)
      /\ Loaded(d) = IF l = "close" /\ Loading(c, b) THEN Loaded(c) \cup {x} ELSE Loaded(c)
  <2>1. /\ Loaded(c) \in SUBSET (1..Len(c))
        /\ Loaded(d) = IF l = "close" /\ Loading(c, Block(c, Len(c))) THEN Loaded(c) \cup {Len(c) + 1}
                       ELSE Loaded(c)
    BY <1>1, <1>2, LoadedNext, Zenon
  <2>2. Len(c) = n /\ Len(c) + 1 = x /\ Block(c, n) = b
    BY <1>2, <1>3, Zenon
  <2> QED
    BY <2>1, <2>2, Zenon
<1>7. \A k \in 1..Len(d) : d[k] # "ioerror"
  <2>1. \A k \in 1..x : k \in 1..n \/ k = x
    BY <1>2
  <2> QED
    BY <1>1, <1>2, <1>4, <2>1, Zenon
<1>8. PluginsAre(d, Loaded(c), plugins)
  BY <1>1, <1>2, <1>4, <1>6, PluginsKept, Zenon
<1>9. ASSUME l \in Closes => Whole(c, b) /\ (Off(c, b) \/ Cardinality(Args(c, b)) <= MaxArgs)
      PROVE  /\ Earlier(d) /\ (Follows(d) <=> Begun(d, a))
             /\ Holds(d) <=> /\ Cardinality(Loaded(d)) <= MaxPlugins
                             /\ Off(d, a) \/ Cardinality(Args(d, a)) <= MaxArgs
  <2>1. Earlier(d)
    BY <1>1, <1>2, <1>3, <1>4, <1>9, EarlierNext, Zenon
  <2> QED
    BY <1>2, <1>5, <2>1, LastBlock, Zenon
(* The line goes to its block. *)
<1>10. ASSUME l \in Closes => Whole(c, b) /\ (Off(c, b) \/ Cardinality(Args(c, b)) <= MaxArgs),
              l = "close" => ~Loading(c, b), UNCHANGED <<plugins, result>>,
              Stage(d, a, skipping', status', type', argv')
       PROVE  Meant' /\ ConfMeaning'
  <2>1. Earlier(d) /\ Loaded(d) = Loaded(c)
    BY <1>6, <1>9, <1>10, Zenon
  <2>2. Meant'
    BY <1>2, <1>4, <1>5, <1>7, <1>8, <1>10, <2>1, Zenon DEF Meant
  <2> QED
    BY <1>1, <1>10, <2>2, Zenon DEF ConfMeaning
(* The line breaks the grammar. *)
<1>11. ASSUME Fail, l \in Closes => ~Whole(c, b), l \notin Closes => ~Begun(d, a)
       PROVE  Meant' /\ ConfMeaning'
  <2>1. ~Follows(d)
    <3>1. CASE l \in Closes
      BY <1>1, <1>2, <1>3, <1>11, <3>1, ClosesNone, Zenon
    <3>2. CASE l \notin Closes
      BY <1>9, <1>11, <3>2, Zenon
    <3> QED
      BY <3>1, <3>2, Zenon
  <2>2. Loaded(d) = Loaded(c)
    BY <1>6, <1>11, Zenon DEF Loading, Closes
  <2>3. result' = "error" /\ plugins' = plugins
    BY <1>11, Zenon DEF Fail
  <2>4. PluginsAre(d, Loaded(d) \ {}, plugins)
    BY <1>8, <2>2, Zenon
  <2> QED
    BY <1>2, <2>1, <2>3, <2>4, Zenon DEF Meant, ConfMeaning
(* The line is one too many. *)
<1>12. ASSUME result' = "overrun", plugins' = plugins, Follows(d), ~Holds(d)
       PROVE  Meant' /\ ConfMeaning'
  <2>1. x \notin Loaded(c)
    BY <1>2, <1>6
  <2>2. Loaded(d) \ {x} = Loaded(c)
    BY <1>6, <2>1, Zenon
  <2> QED
    BY <1>2, <1>8, <1>12, <2>2, Zenon DEF Meant, ConfMeaning
<1>13. CASE Skip(l)
  <2>1. Off(c, b) /\ status = "NONE" /\ skipping' = (l \notin Closes) /\ UNCHANGED <<status, type, argv, plugins, result>>
    BY <1>4, <1>13, Zenon DEF Stage, Skip
  <2>2. CASE l \in Closes
    <3>1. Stage(d, a, skipping', status', type', argv')
      BY <1>5, <2>1, <2>2, Zenon DEF Stage
    <3>2. Whole(c, b) /\ ~Loading(c, b)
      BY <2>1, Zenon DEF Whole, Loading
    <3> QED
      BY <1>10, <2>1, <3>1, <3>2, Zenon
  <2>3. CASE l \notin Closes
    <3>1. Off(d, b) /\ Off(d, b \cup {n + 1})
      BY <1>3, <2>1, SameLines, OffGrows, Zenon
    <3>2. Off(d, a)
      BY <1>2, <1>5, <2>3, <3>1, Zenon
    <3>3. Stage(d, a, skipping', status', type', argv')
      BY <2>1, <2>3, <3>2, Zenon DEF Stage
    <3> QED
      BY <1>10, <2>1, <2>3, <3>3, Zenon DEF Closes
  <2> QED
    BY <2>2, <2>3, Zenon
<1>14. CASE Blank(l)
  <2>1. l \notin Closes /\ l # "close" /\ l = "blank" /\ UNCHANGED <<status, skipping, type, argv, plugins, result>>
    BY <1>14, Zenon DEF Blank, block, Closes
  <2>2. Stage(d, b, skipping, status, type, argv)
    BY <1>3, <1>4, StageSame, Zenon
  <2>3. Stage(d, a, skipping', status', type', argv')
    BY <1>5, <2>1, <2>2, Zenon
  <2> QED
    BY <1>10, <2>1, <2>3, Zenon
<1>15. ASSUME ~skipping
       PROVE  /\ status = "NONE" => b = {}
              /\ status = "PLUG" => Bare(c, b)
              /\ status \in {"NAME", "VAL"} => Named(c, b)
              /\ status = "NAME" => Args(c, b) = {}
              /\ status = "VAL" => Args(c, b) # {}
              /\ status # "NONE" => PluginIs(c, b, [type |-> type, args |-> argv]) /\ Len(argv) <= MaxArgs
              /\ status \in {"NONE", "PLUG", "NAME", "VAL"}
  BY <1>4, <1>15, Zenon DEF Stage
<1>16. ASSUME ~skipping, Fail, l \notin Closes, l # "blank",
              status = "NONE" => l \notin Opens,
              status = "PLUG" => l \notin {"on", "off", "bang"},
              status \in {"NAME", "VAL"} => l \notin Dashes
       PROVE  Meant' /\ ConfMeaning'
  <2>1. a = b \cup {n + 1} /\ d[n + 1] = l
    BY <1>2, <1>5, <1>16, Zenon
  <2>2. ASSUME status = "NONE" PROVE ~Begun(d, a)
    <3>1. a = {x} /\ d[x] = l
      BY <1>2, <1>15, <1>16, <2>1, <2>2, Zenon
    <3> QED
      BY <1>16, <2>2, <3>1, FirstLine, Zenon
  <2>3. ASSUME status = "PLUG" PROVE ~Begun(d, a)
    <3>1. Bare(c, b)
      BY <1>15, <1>16, <2>3, Zenon
    <3> QED
      BY <1>3, <1>16, <2>1, <2>3, <3>1, AfterBare, Zenon
  <2>4. ASSUME status \in {"NAME", "VAL"} PROVE ~Begun(d, a)
    <3>1. Named(c, b)
      BY <1>15, <1>16, <2>4, Zenon
    <3> QED
      BY <1>3, <1>16, <2>1, <2>4, <3>1, AfterNamed, Zenon
  <2> QED
    BY <1>11, <1>15, <1>16, <2>2, <2>3, <2>4, Zenon
<1>17. CASE ~skipping /\ Word(l)
  <2>1. Fail /\ l \notin Closes /\ l # "blank" /\ l \notin Opens /\ l \notin {"on", "off", "bang"} /\ l \notin Dashes
    BY <1>17, Zenon DEF Word, Closes, Opens, Types, Dashes
  <2> QED
    BY <1>16, <1>17, <2>1, Zenon
<1>18. CASE ~skipping /\ Stray(l)
  <2>1. Fail /\ l \notin Closes /\ l # "blank" /\ l \notin Opens /\ status = "NONE"
    BY <1>18, Zenon DEF Stray, Closes, Opens, Types, Dashes
  <2> QED
    BY <1>16, <1>18, <2>1, Zenon
<1>19. CASE ~skipping /\ Open(l)
  <2>1. l \in Opens /\ l \notin Closes /\ l # "blank" /\ l # "close" /\ l \notin {"on", "off", "bang"} /\ l \notin Dashes
    BY <1>19, Zenon DEF Open, Closes, Opens, Types, Dashes
  <2>2. CASE status # "NONE"
    BY <1>16, <1>19, <2>1, <2>2, Zenon DEF Open
  <2>3. CASE status = "NONE"
    <3>1. /\ argv' = <<>> /\ skipping' = (l = "alien") /\ UNCHANGED <<plugins, result>>
          /\ status' = IF l = "alien" THEN "NONE" ELSE "PLUG"
          /\ type' = IF l = "alien" THEN type ELSE l
      BY <1>19, <2>3, Zenon DEF Open
    <3>2. a = {x} /\ d[x] = l
      BY <1>2, <1>5, <1>15, <1>19, <2>1, <2>3, Zenon
    <3>3. ASSUME l = "alien" PROVE Stage(d, a, skipping', status', type', argv')
      <4>1. Off(d, a)
        BY <3>2, <3>3, FirstLine, Zenon
      <4> QED
        BY <3>1, <3>3, <4>1, Zenon DEF Stage
    <3>4. ASSUME l # "alien" PROVE Stage(d, a, skipping', status', type', argv')
      <4>1. l \in Types /\ x \in Nat \ {0}
        BY <1>2, <2>1, <3>4 DEF Opens
      <4>2. Bare(d, a) /\ PluginIs(d, a, [type |-> l, args |-> <<>>])
        BY <3>2, <4>1, FirstLine, PluginOpens, Zenon
      <4>3. Len(<<>>) <= MaxArgs
        BY SparserAssumption
      <4>4. ~skipping' /\ status' = "PLUG" /\ type' = l /\ argv' = <<>>
        BY <3>1, <3>4, Zenon
      <4>5. Stage(d, a, FALSE, "PLUG", l, <<>>)
        BY <4>2, <4>3, Zenon DEF Stage
      <4>6. skipping' = FALSE
        BY <3>1, <3>4, Zenon
      <4> QED
        BY <4>4, <4>5, <4>6, Zenon
    <3> QED
      BY <1>10, <2>1, <3>1, <3>3, <3>4, Zenon
  <2> QED
    BY <2>2, <2>3, Zenon
<1>20. CASE ~skipping /\ Bang(l)
  <2>1. l = "bang" /\ l \notin Closes /\ l # "blank" /\ l # "close" /\ l \notin Opens /\ l \notin Dashes
    BY <1>20, Zenon DEF Bang, Closes, Opens, Types, Dashes
  <2>2. CASE status # "PLUG"
    BY <1>16, <1>20, <2>1, <2>2, Zenon DEF Bang
  <2>3. CASE status = "PLUG"
    <3>1. status' = "NAME" /\ UNCHANGED <<skipping, type, argv, plugins, result>>
      BY <1>20, <2>3, Zenon DEF Bang, Enter
    <3>2. a = b \cup {n + 1} /\ d[n + 1] = "bang"
      BY <1>2, <1>5, <2>1, Zenon
    <3>3. Bare(c, b) /\ PluginIs(c, b, [type |-> type, args |-> argv]) /\ Len(argv) <= MaxArgs
      BY <1>15, <1>20, <2>3, Zenon
    <3>4. Args(c, b) = {}
      BY <1>3, <3>3, OneForm, Zenon
    <3>5. Named(d, b \cup {n + 1}) /\ Args(d, b \cup {n + 1}) = {}
      BY <1>3, <3>2, <3>3, AfterBare, Zenon
    <3>6. PluginIs(d, b \cup {n + 1}, [type |-> type, args |-> argv])
      BY <1>3, <3>3, <3>4, <3>5, PluginStays, Zenon
    <3>7. Stage(d, b \cup {n + 1}, skipping, "NAME", type, argv)
      BY <1>20, <3>3, <3>5, <3>6, Zenon DEF Stage
    <3>8. Stage(d, a, skipping', status', type', argv')
      BY <3>1, <3>2, <3>7, Zenon
    <3> QED
      BY <1>10, <2>1, <3>1, <3>8, Zenon
  <2> QED
    BY <2>2, <2>3, Zenon
<1>21. CASE ~skipping /\ Switch(l)
  <2>1. l \in Dashes /\ status = "PLUG" /\ l \notin Closes /\ l # "blank" /\ l # "close" /\ l \notin Opens /\ l # "bang"
    BY <1>21, Zenon DEF Switch, Closes, Opens, Types, Dashes
  <2>2. a = b \cup {n + 1} /\ d[n + 1] = l
    BY <1>2, <1>5, <2>1, Zenon
  <2>3. Bare(c, b) /\ PluginIs(c, b, [type |-> type, args |-> argv]) /\ Len(argv) <= MaxArgs
    BY <1>15, <1>21, <2>1, Zenon
  <2>4. CASE l = "off"
    <3>1. skipping' = TRUE /\ status' = "NONE" /\ UNCHANGED <<plugins, result>>
      BY <1>21, <2>4, Zenon DEF Switch
    <3>2. Off(d, b \cup {n + 1})
      BY <1>3, <2>2, <2>3, <2>4, AfterBare, Zenon
    <3>3. Stage(d, a, skipping', status', type', argv')
      BY <2>2, <3>1, <3>2, Zenon DEF Stage
    <3> QED
      BY <1>10, <2>1, <3>1, <3>3, Zenon
  <2>5. CASE l = "on"
    <3>1. UNCHANGED <<skipping, status, type, argv, plugins, result>>
      BY <1>21, <2>5, Zenon DEF Switch, block
    <3>2. Bare(d, b \cup {n + 1})
      BY <1>3, <2>2, <2>3, <2>5, AfterBare, Zenon
    <3>3. Args(c, b) = {}
      BY <1>3, <2>3, OneForm, Zenon
    <3>4. Args(d, b \cup {n + 1}) = {}
      <4>1. b \cup {n + 1} \in SUBSET (1..(n + 1))
        OBVIOUS
      <4>2. n + 1 \in Nat
        OBVIOUS
      <4> QED
        BY <3>2, <4>1, <4>2, OneForm, Zenon
    <3>5. PluginIs(d, b \cup {n + 1}, [type |-> type, args |-> argv])
      BY <1>3, <2>3, <3>3, <3>4, PluginStays, Zenon
    <3>6. Stage(d, b \cup {n + 1}, skipping, "PLUG", type, argv)
      BY <1>21, <2>3, <3>2, <3>5, Zenon DEF Stage
    <3>7. Stage(d, a, skipping', status', type', argv')
      BY <2>1, <2>2, <3>1, <3>6, Zenon
    <3> QED
      BY <1>10, <2>1, <3>1, <3>7, Zenon
  <2>6. CASE l \notin {"on", "off"}
    <3>1. Fail
      BY <1>21, <2>6, Zenon DEF Switch
    <3> QED
      BY <1>16, <1>21, <2>1, <2>6, <3>1, Zenon
  <2> QED
    BY <2>4, <2>5, <2>6, Zenon
<1>22. CASE ~skipping /\ Argument(l)
  <2>1. /\ l \in Dashes /\ status \in {"NAME", "VAL"} /\ status # "NONE" /\ argv \in Seq(Dashes) /\ Len(argv) \in Nat
        /\ l \notin Closes /\ l # "blank" /\ l # "close"
    BY <1>22 DEF Argument, Closes, Dashes, Typed
  <2>2. a = b \cup {n + 1} /\ d[n + 1] = l
    BY <1>2, <1>5, <2>1, Zenon
  <2>3. Named(c, b) /\ PluginIs(c, b, [type |-> type, args |-> argv]) /\ Len(argv) <= MaxArgs
    BY <1>15, <1>22, <2>1, Zenon
  <2>4. Named(d, b \cup {n + 1}) /\ Args(d, b \cup {n + 1}) = Args(c, b) \cup {n + 1}
    <3>1. d[n + 1] \in Dashes
      BY <2>1, <2>2, Zenon
    <3>2. Same(c, d, b) /\ Named(c, b)
      BY <1>3, <2>3, Zenon
    <3>3. Named(d, b \cup {n + 1})
      BY <3>1, <3>2, AfterNamed, Zenon
    <3>4. \A k : k \in Args(d, b \cup {n + 1}) <=> k \in Args(c, b) \/ k = n + 1
      BY <3>1, <3>2, AfterNamed, Zenon
    <3> QED
      BY <3>3, <3>4, Zenon
  <2>5. CASE Len(argv) = MaxArgs
    <3>1. result' = "overrun" /\ plugins' = plugins
      BY <1>22, <2>5, Zenon DEF Argument
    <3>2. Follows(d)
      BY <1>9, <2>1, <2>2, <2>4, Zenon DEF Begun
    <3>3. Len(argv) = Cardinality(Args(c, b))
      BY <2>3, PluginOf, Zenon DEF ArgsAre
    <3>4. Args(c, b) \in SUBSET (1..n)
      BY Zenon DEF Args
    <3>5. Cardinality(Args(d, a)) = Len(argv) + 1
      <4>1. Cardinality(Args(c, b) \cup {n + 1}) = Cardinality(Args(c, b)) + 1
        BY <3>4, Ranks, Zenon
      <4>2. Args(d, a) = Args(c, b) \cup {n + 1}
        BY <2>2, <2>4, Zenon
      <4> QED
        BY <3>3, <4>1, <4>2, Zenon
    <3>6. ~(Cardinality(Args(d, a)) <= MaxArgs)
      BY <2>1, <2>5, <3>5
    <3>7. ~Off(d, a)
      <4>1. b \cup {n + 1} \in SUBSET (1..(n + 1)) /\ n + 1 \in Nat
        OBVIOUS
      <4> QED
        BY <2>2, <2>4, <4>1, OneForm, Zenon
    <3>8. ~Holds(d)
      BY <1>9, <2>1, <3>6, <3>7, Zenon
    <3> QED
      BY <1>12, <3>1, <3>2, <3>8, Zenon
  <2>6. CASE Len(argv) # MaxArgs
    <3>1. argv' = Append(argv, l) /\ status' = "VAL" /\ UNCHANGED <<skipping, type, plugins, result>>
      BY <1>22, <2>6, Zenon DEF Argument
    <3>2. Len(Append(argv, l)) <= MaxArgs
      BY <2>1, <2>3, <2>6, SparserAssumption
    <3>3. PluginIs(d, b \cup {n + 1}, [type |-> type, args |-> Append(argv, d[n + 1])])
      BY <1>3, <2>1, <2>2, <2>3, <2>4, PluginGrows, Zenon
    <3>4. PluginIs(d, b \cup {n + 1}, [type |-> type, args |-> Append(argv, l)])
      BY <2>2, <3>3, Zenon
    <3>5. Args(d, b \cup {n + 1}) # {}
      BY <2>4, Zenon
    <3>6. Stage(d, b \cup {n + 1}, skipping, "VAL", type, Append(argv, l))
      BY <1>22, <2>4, <3>2, <3>4, <3>5, Zenon DEF Stage
    <3>7. Stage(d, a, skipping', status', type', argv')
      BY <2>2, <3>1, <3>6, Zenon
    <3> QED
      BY <1>10, <2>1, <3>1, <3>7, Zenon
  <2> QED
    BY <2>5, <2>6, Zenon
<1>23. CASE ~skipping /\ Close(l)
  <2>1. l \in Closes /\ a = {}
    BY <1>5, <1>23, Zenon DEF Close
  <2>2. CASE status \notin {"VAL", "PLUG"}
    <3>1. Fail
      BY <1>23, <2>2, Zenon DEF Close
    <3>2. b = {} \/ (Named(c, b) /\ Args(c, b) = {})
      BY <1>15, <1>23, <2>2, Zenon
    <3>3. ~Whole(c, b)
      BY <1>3, <3>2, OneForm, Zenon DEF Whole
    <3> QED
      BY <1>11, <2>1, <3>1, <3>3, Zenon
  <2>3. CASE status \in {"VAL", "PLUG"}
    <3>1. /\ Bare(c, b) \/ (Named(c, b) /\ Args(c, b) # {})
          /\ PluginIs(c, b, [type |-> type, args |-> argv]) /\ Len(argv) <= MaxArgs
      BY <1>15, <1>23, <2>3, Zenon
    <3>2. Whole(c, b) /\ ~Off(c, b)
      BY <1>3, <3>1, OneForm, Zenon DEF Whole
    <3>3. Cardinality(Args(c, b)) <= MaxArgs
      <4>1. Len(argv) = Cardinality(Args(c, b))
        BY <3>1, PluginOf, Zenon DEF ArgsAre
      <4> QED
        BY <3>1, <4>1, Zenon
    <3>4. Loading(c, b) <=> Loads(type, argv)
      <4>1. type \in Types /\ argv \in Seq(Dashes)
        BY Zenon DEF Typed
      <4> QED
        BY <1>3, <3>1, <3>2, <4>1, LoadsBlock, Zenon
    <3>5. Earlier(d) /\ Follows(d)
      BY <1>9, <2>1, <3>2, <3>3, Zenon DEF Begun
    <3>6. CASE l = "nomem" \/ ~Loads(type, argv)
      <4>1. status' = "NONE" /\ UNCHANGED <<skipping, type, argv, plugins, result>>
        BY <1>23, <2>3, <3>6, Zenon DEF Close, Enter
      <4>2. Stage(d, a, skipping', status', type', argv')
        BY <1>23, <2>1, <4>1, Zenon DEF Stage
      <4> QED
        BY <1>10, <3>2, <3>3, <3>4, <3>6, <4>1, <4>2, Zenon
    <3>7. CASE l = "close" /\ Loads(type, argv)
      <4>1. Loaded(d) = Loaded(c) \cup {x}
        BY <1>6, <3>4, <3>7, Zenon
      <4>2. Cardinality(Loaded(d)) = Len(plugins) + 1 /\ Len(plugins) \in Nat
        <5>1. Len(plugins) = Cardinality(Loaded(c))
          BY <1>4, Zenon DEF PluginsAre
        <5>2. Cardinality(Loaded(c) \cup {n + 1}) = Cardinality(Loaded(c)) + 1 /\ Cardinality(Loaded(c)) \in Nat
          BY <1>6, Ranks, Zenon
        <5> QED
          BY <1>2, <4>1, <5>1, <5>2, Zenon
      <4>3. CASE Len(plugins) = MaxPlugins
        <5>1. result' = "overrun" /\ plugins' = plugins
          BY <1>23, <2>3, <3>7, <4>3, Zenon DEF Close
        <5>2. ~(Cardinality(Loaded(d)) <= MaxPlugins)
          BY <4>2, <4>3
        <5>3. ~Holds(d)
          BY <1>9, <3>2, <3>3, <5>2, Zenon
        <5> QED
          BY <1>12, <3>5, <5>1, <5>3, Zenon
      <4>4. CASE Len(plugins) # MaxPlugins
        <5>1. /\ status' = "NONE" /\ plugins' = Append(plugins, [type |-> type, args |-> argv])
              /\ UNCHANGED <<skipping, type, argv, result>>
          BY <1>23, <2>3, <3>7, <4>4, Zenon DEF Close
        <5>2. plugins \in Seq(P) /\ [type |-> type, args |-> argv] \in P
          BY DEF Typed
        <5>3. Len(plugins') <= MaxPlugins
          BY <1>4, <4>2, <4>4, <5>1, <5>2, SparserAssumption
        <5>4. PluginsAre(d, Loaded(d), plugins')
          <6>1. PluginIs(c, Block(c, Len(c)), [type |-> type, args |-> argv]) /\ Loaded(c) \in SUBSET (1..Len(c))
            BY <1>2, <1>3, <1>6, <3>1, Zenon
          <6>2. d = Append(c, l)
            BY <1>2, Zenon
          <6>3. PluginsAre(d, Loaded(c) \cup {Len(c) + 1}, Append(plugins, [type |-> type, args |-> argv]))
            BY <1>1, <1>4, <5>2, <6>1, <6>2, NextPlugin, Zenon
          <6>4. Len(c) + 1 = x
            BY <1>2, Zenon
          <6> QED
            BY <4>1, <5>1, <6>3, <6>4, Zenon
        <5>5. Stage(d, a, skipping', status', type', argv')
          BY <1>23, <2>1, <5>1, Zenon DEF Stage
        <5>6. Meant'
          BY <1>2, <1>5, <1>7, <3>5, <5>3, <5>4, <5>5, Zenon DEF Meant
        <5> QED
          BY <1>1, <5>1, <5>6, Zenon DEF ConfMeaning
      <4> QED
        BY <4>3, <4>4, Zenon
    <3> QED
      BY <2>1, <3>6, <3>7, Zenon DEF Closes
  <2> QED
    BY <2>2, <2>3, Zenon
<1> QED
  BY <1>13, <1>14, <1>17, <1>18, <1>19, <1>20, <1>21, <1>22, <1>23, Zenon DEF Line

(* Eof, ReadError: the file ends within its last block, which is dropped,  *)
(* and fgets may only fail outside of what is skipped.                     *)
LEMMA EndMeans ==
  ASSUME Typed, Meant, Eof \/ ReadError
  PROVE  Meant' /\ ConfMeaning'
<1>1. /\ conf \in Seq(Words) /\ skipping \in BOOLEAN /\ Earlier(conf)
      /\ Stage(conf, Block(conf, Len(conf)), skipping, status, type, argv)
      /\ PluginsAre(conf, Loaded(conf), plugins) /\ Len(plugins) <= MaxPlugins
      /\ \A k \in 1..Len(conf) : conf[k] # "ioerror"
  BY Zenon DEF Typed, Meant, Eof, ReadError, Fgets
<1> PICK n \in Nat : n = Len(conf)
  BY <1>1
<1>2. PICK b \in SUBSET (1..n) : n = Len(conf) /\ b = Block(conf, n)
  <2>1. Block(conf, n) \in SUBSET (1..n)
    BY Zenon DEF Block
  <2> QED
    BY <2>1, Zenon
<1>3. /\ Begun(conf, b) /\ (skipping <=> Off(conf, b))
      /\ Off(conf, b) \/ Cardinality(Args(conf, b)) <= MaxArgs
  BY <1>1, <1>2, StageIs, Zenon
<1>4. Cardinality(Loaded(conf)) <= MaxPlugins
  BY <1>1, Zenon DEF PluginsAre
<1>5. CASE Eof
  <2>1. Follows(conf) /\ Holds(conf)
    BY <1>1, <1>2, <1>3, <1>4, LastBlock, Zenon
  <2>2. ~(conf # <<>> /\ conf[Len(conf)] = "ioerror")
    <3>1. conf # <<>> => Len(conf) \in 1..Len(conf)
      BY <1>1
    <3> QED
      BY <1>1, <3>1, Zenon
  <2>3. PluginsAre(conf, Loaded(conf) \ {}, plugins)
    <3>1. Loaded(conf) \ {} = Loaded(conf)
      BY Zenon
    <3> QED
      BY <1>1, <3>1, Zenon
  <2>4. result' = "ok" /\ conf' = conf /\ plugins' = plugins
    BY <1>5, Zenon DEF Eof
  <2> QED
    BY <2>1, <2>2, <2>3, <2>4, Zenon DEF Meant, ConfMeaning
<1>6. CASE ReadError
  <2>1. /\ conf' = Append(conf, "ioerror") /\ plugins' = plugins /\ "ioerror" \in Words
        /\ result' = IF skipping THEN "error" ELSE "ok"
    BY <1>6, Zenon DEF ReadError, Fgets, Words
  <2>2. PICK d : d = conf' /\ d = Append(conf, "ioerror")
    BY <2>1, Zenon
  <2>3. /\ d \in Seq(Words) /\ d # <<>> /\ d[Len(d)] = "ioerror"
    BY <1>1, <2>1, <2>2
  <2>4. Block(d, Len(d)) = b
    <3>1. d = Append(conf, "ioerror") /\ "ioerror" \in {"blank", "ioerror"}
      BY <2>2, Zenon
    <3>2. Block(d, Len(d)) = Block(conf, Len(conf))
      BY <1>1, <2>1, <3>1, BlockNext, Zenon
    <3> QED
      BY <1>2, <3>2, Zenon
  <2>5. Same(conf, d, b)
    <3>1. n \in 0..Len(conf)
      BY <1>2
    <3> QED
      BY <1>1, <1>2, <2>1, <2>2, <3>1, BlockKept, Zenon
  <2>6. /\ Begun(d, b) /\ (Off(d, b) <=> Off(conf, b)) /\ Args(d, b) = Args(conf, b)
    BY <1>3, <2>5, SameLines, Zenon DEF Begun
  <2>7. "ioerror" \notin Closes
    BY Zenon DEF Closes
  <2>8. Earlier(d)
    BY <1>1, <2>1, <2>2, <2>7, EarlierNext, Zenon
  <2>9. Loaded(d) = Loaded(conf) /\ Loaded(conf) \in SUBSET (1..Len(conf))
    BY <1>1, <2>1, <2>2, LoadedNext, Zenon
  <2>10. Follows(d) /\ Holds(d)
    <3>1. Off(d, b) \/ Cardinality(Args(d, b)) <= MaxArgs
      BY <1>3, <2>6, Zenon
    <3> QED
      BY <1>4, <2>3, <2>4, <2>6, <2>8, <2>9, <3>1, LastBlock, Zenon
  <2>11. PluginsAre(d, Loaded(d) \ {}, plugins)
    <3>1. Loaded(d) \ {} = Loaded(conf)
      BY <2>9, Zenon
    <3> QED
      BY <1>1, <2>1, <2>2, <2>9, <3>1, PluginsKept, Zenon
  <2>12. skipping <=> Off(d, Block(d, Len(d)))
    BY <1>3, <2>4, <2>6, Zenon
  <2>13. conf' = d
    BY <2>2, Zenon
  <2> QED
    BY <2>1, <2>3, <2>10, <2>11, <2>12, <2>13, Zenon DEF Meant, ConfMeaning
<1> QED
  BY <1>5, <1>6, Zenon

(* NoFile: a file that cannot be opened is no file of the grammar, and     *)
(* there is nothing that it asks for.                                      *)
LEMMA NoFileMeans ==
  ASSUME Typed, Meant, NoFile
  PROVE  Meant' /\ ConfMeaning'
<1>1. /\ conf = <<>> /\ PluginsAre(conf, Loaded(conf), plugins) /\ "nofile" \in Words
      /\ conf' = Append(conf, "nofile") /\ plugins' = plugins /\ result' = "error"
  BY Zenon DEF Meant, NoFile, Fgets, Fail, Words
<1>2. PICK c \in Seq(Words), d \in Seq(Words) : c = conf /\ d = conf' /\ d = Append(c, "nofile")
  <2>1. conf \in Seq(Words)
    BY Zenon DEF Typed
  <2>2. Append(conf, "nofile") \in Seq(Words)
    BY <1>1, <2>1
  <2> QED
    BY <1>1, <2>1, <2>2, Zenon
<1>3. Len(c) = 0 /\ Len(c) + 1 = 1 /\ Len(d) = 1 /\ d[1] = "nofile" /\ 1..Len(c) = {}
  BY <1>1, <1>2
<1>4. Block(d, Len(d)) = {1}
  <2>1. Block(c, Len(c)) = {}
    BY <1>3, Zenon DEF Block
  <2>2. "nofile" \notin Closes /\ "nofile" \notin {"blank", "ioerror"}
    BY Zenon DEF Closes
  <2>3. d = Append(c, "nofile")
    BY <1>2, Zenon
  <2>4. Block(d, Len(d)) = Block(c, Len(c)) \cup {Len(c) + 1}
    <3>1. PICK l \in Words : l = "nofile"
      BY <1>1, Zenon
    <3>2. d = Append(c, l) /\ l \notin Closes /\ l \notin {"blank", "ioerror"}
      BY <2>2, <2>3, <3>1, Zenon
    <3> QED
      BY <3>2, BlockNext, Zenon
  <2> QED
    BY <1>3, <2>1, <2>4, Zenon
<1>5. ~Follows(d)
  <2>1. d[1] \notin Types /\ d[1] # "alien"
    BY <1>3, Zenon DEF Types
  <2>2. ~Begun(d, {1})
    BY <2>1, Zenon DEF Begun, Off, Bare, Named
  <2> QED
    BY <1>4, <2>2, Zenon DEF Follows
<1>6. Loaded(d) = Loaded(c) /\ Loaded(c) \in SUBSET (1..Len(c))
  <2>1. "nofile" # "close"
    OBVIOUS
  <2> QED
    BY <1>1, <1>2, <2>1, LoadedNext, Zenon
<1>7. PluginsAre(d, Loaded(d) \ {}, plugins)
  <2>1. Loaded(d) \ {} = Loaded(c)
    BY <1>6, Zenon
  <2> QED
    BY <1>1, <1>2, <1>6, <2>1, PluginsKept, Zenon
<1> QED
  BY <1>1, <1>2, <1>5, <1>7, Zenon DEF Meant, ConfMeaning

(* ConfMeaning, for files of any length and arrays of any size: sparse     *)
(* loads what the blocks of the file ask for, each with the arguments of   *)
(* its own block, and fails or leaves its arrays exactly where the file    *)
(* makes it.                                                               *)
THEOREM ConfMeaningAlways == Spec => []ConfMeaning
<1>1. Init => MInv
  <2> SUFFICES ASSUME Init PROVE MInv
    OBVIOUS
  <2>1. Typed
    <3>1. conf \in Seq(Words) /\ argv \in Seq(Dashes) /\ plugins \in Seq([type : Types, args : Seq(Dashes)])
      BY DEF Init
    <3> QED
      BY <3>1, Zenon DEF Init, Typed, Types
  <2>2. Len(conf) = 0 /\ Len(plugins) = 0 /\ 1..Len(conf) = {} /\ Len(plugins) <= MaxPlugins
    BY SparserAssumption DEF Init
  <2>3. Block(conf, Len(conf)) = {} /\ Loaded(conf) = {} /\ Earlier(conf)
    BY <2>2, Zenon DEF Block, Loaded, Earlier
  <2>4. PluginsAre(conf, Loaded(conf), plugins)
    BY <2>2, <2>3, FS_EmptySet, Zenon DEF PluginsAre
  <2>5. Stage(conf, Block(conf, Len(conf)), skipping, status, type, argv)
    BY <2>3, Zenon DEF Init, Stage
  <2>6. Meant
    BY <2>2, <2>3, <2>4, <2>5, Zenon DEF Meant
  <2>7. ConfMeaning
    BY Zenon DEF Init, ConfMeaning
  <2> QED
    BY <2>1, <2>6, <2>7, Zenon DEF MInv
<1>2. MInv /\ [Next]_vars => MInv'
  <2> SUFFICES ASSUME MInv, [Next]_vars
               PROVE  MInv'
    OBVIOUS
  <2>1. CASE UNCHANGED vars
    <3>1. /\ conf' = conf /\ status' = status /\ skipping' = skipping /\ type' = type
          /\ argv' = argv /\ plugins' = plugins /\ result' = result
      BY <2>1, Zenon DEF vars, block
    <3>2. Typed'
      BY <3>1, Zenon DEF MInv, Typed
    <3>3. Meant'
      BY <3>1, Zenon DEF MInv, Meant
    <3>4. ConfMeaning'
      BY <3>1, Zenon DEF MInv, ConfMeaning
    <3> QED
      BY <3>2, <3>3, <3>4, Zenon DEF MInv
  <2>2. CASE Next
    <3>1. Typed'
      BY <2>2, TypedStep, Zenon DEF MInv
    <3>2. ASSUME NEW l \in Lines, Line(l)
          PROVE  Meant' /\ ConfMeaning'
      BY <3>1, <3>2, LineMeans, Zenon DEF MInv
    <3>3. ASSUME Eof \/ ReadError
          PROVE  Meant' /\ ConfMeaning'
      BY <3>3, EndMeans, Zenon DEF MInv
    <3>4. ASSUME NoFile
          PROVE  Meant' /\ ConfMeaning'
      BY <3>4, NoFileMeans, Zenon DEF MInv
    <3> QED
      BY <2>2, <3>1, <3>2, <3>3, <3>4, Zenon DEF Next, MInv
  <2> QED
    BY <2>1, <2>2, Zenon
<1>3. MInv => ConfMeaning
  BY Zenon DEF MInv
<1> QED
  BY <1>1, <1>2, <1>3, PTL DEF Spec
====
