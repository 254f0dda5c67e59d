---------------------------- MODULE PayloadProofs ----------------------------
(***************************************************************************)
(* What plugin_gather leaves in a packet is JSON, for any number of        *)
(* gathers and whatever the sections read.  The brackets that are open at  *)
(* any place of the text are the first of { [ { { { {, so a place is known *)
(* by how many are open and by its last token (At): one lemma says which   *)
(* token may come next (Put), and the actions put their tokens one by one. *)
(***************************************************************************)
EXTENDS Payload, FiniteSetTheorems, SequenceTheorems, TLAPS

(* What the l-th of the open brackets is: only the array of records has    *)
(* square ones.                                                            *)
Bracket(l) == IF l = 2 THEN "[" ELSE "{"

Weight(x) == IF x \in Opens THEN 1 ELSE IF x \in Closes THEN -1 ELSE 0

(* The i-th token is one that a comma or a neighbour before it allows, and *)
(* if it closes a bracket, this is the innermost one.                      *)
Fit(t, d, i) ==
  /\ t[i + 1] \in Follows[t[i]]
  /\ t[i] = "," => Within(t, d, i + 1, IF t[i + 1] = "{" THEN "[" ELSE "{")

Matched(t, d, i) ==
  /\ t[i] = "}" => Within(t, d, i, "{")
  /\ t[i] = "]" => Within(t, d, i, "[")

(* t is the beginning of a JSON object, with n brackets open at its end *)
Prefix(t, n) ==
  LET d == Depth(t)
  IN  /\ t \in Seq(Token) /\ Len(t) > 0 /\ t[1] = "{" /\ d[Len(t)] = n
      /\ \A l \in 1..n : \E j \in 1..Len(t) :
           t[j] = Bracket(l) /\ d[j] = l /\ \A m \in j..Len(t) : d[m] >= l
      /\ \A i \in 1..Len(t) : d[i] > 0 /\ Matched(t, d, i)
      /\ \A i \in 1..(Len(t) - 1) : Fit(t, d, i)

At(t, n, x) == Prefix(t, n) /\ t[Len(t)] = x

(* May x come next where n brackets are open and the last token is y? *)
Allowed(n, y, x) ==
  /\ x \in Follows[y]
  /\ y = "," => Bracket(n) = IF x = "{" THEN "[" ELSE "{"
  /\ x \in Opens => x = Bracket(n + 1)
  /\ x = "}" => Bracket(n) = "{"
  /\ x = "]" => Bracket(n) = "["

(* What a section may come after *)
Nexts == {"{", "}", ","}

(* What a closing brace may come after *)
Ends == {"{", "}", "f"}

-----------------------------------------------------------------------------
(* Brackets are counted in finite sets. *)
LEMMA PlacesFinite ==
  ASSUME NEW t \in Seq(Token), NEW i \in Nat, NEW B
  PROVE  /\ IsFiniteSet({j \in 1..i : t[j] \in B})
         /\ Cardinality({j \in 1..i : t[j] \in B}) \in Nat
<1>1. IsFiniteSet(1..i)
  BY FS_Interval
<1>2. {j \in 1..i : t[j] \in B} \in SUBSET (1..i)
  OBVIOUS
<1>3. IsFiniteSet({j \in 1..i : t[j] \in B})
  BY <1>1, <1>2, FS_Subset, Zenon
<1> QED
  BY <1>3, FS_CardinalityType, Zenon

(* The places of one more token *)
LEMMA PlacesAppend ==
  ASSUME NEW t \in Seq(Token), NEW x \in Token, NEW B
  PROVE  Cardinality({j \in 1..(Len(t) + 1) : Append(t, x)[j] \in B})
           = Cardinality({j \in 1..Len(t) : t[j] \in B}) + (IF x \in B THEN 1 ELSE 0)
<1> DEFINE n == Len(t) + 1
           S == {j \in 1..Len(t) : t[j] \in B}
           T == {j \in 1..n : Append(t, x)[j] \in B}
<1>1. Len(t) \in Nat /\ n \notin 1..Len(t) /\ 1..n = (1..Len(t)) \cup {n}
  OBVIOUS
<1>2. Append(t, x)[n] = x /\ \A j \in 1..Len(t) : Append(t, x)[j] = t[j]
  OBVIOUS
<1>3. IsFiniteSet(S) /\ Cardinality(S) \in Nat
  BY <1>1, PlacesFinite, Zenon
<1>4. CASE x \in B
  <2>1. T = S \cup {n}
    BY <1>1, <1>2, <1>4, Zenon
  <2>2. n \notin S
    BY <1>1, Zenon
  <2>3. Cardinality(S \cup {n}) = Cardinality(S) + 1
    BY <1>3, <2>2, FS_AddElement, Zenon
  <2> QED
    BY <1>4, <2>1, <2>3, Zenon
<1>5. CASE x \notin B
  <2>1. T = S
    BY <1>1, <1>2, <1>5, Zenon
  <2> HIDE DEF S, T
  <2>2. Cardinality(T) = Cardinality(S) + 0
    BY <1>3, <2>1
  <2> QED
    BY <1>5, <2>2, Zenon DEF S, T
<1> QED
  BY <1>4, <1>5, Zenon

(* How many brackets are open is a matter of the tokens so far. *)
LEMMA DepthType ==
  ASSUME NEW t \in Seq(Token)
  PROVE  \A i \in 0..Len(t) : Depth(t)[i] \in Int
<1> SUFFICES ASSUME NEW i \in 0..Len(t)
             PROVE  Depth(t)[i] \in Int
  OBVIOUS
<1>1. i \in Nat
  OBVIOUS
<1>2. /\ Cardinality({j \in 1..i : t[j] \in Opens}) \in Nat
      /\ Cardinality({j \in 1..i : t[j] \in Closes}) \in Nat
  BY <1>1, PlacesFinite, Zenon
<1> QED
  BY <1>2 DEF Depth

(* A token changes the number of open brackets by its weight, and none of  *)
(* the numbers before it.                                                  *)
LEMMA DepthAppend ==
  ASSUME NEW t \in Seq(Token), NEW x \in Token
  PROVE  /\ \A i \in 0..Len(t) : Depth(Append(t, x))[i] = Depth(t)[i]
         /\ Depth(Append(t, x))[Len(t) + 1] = Depth(t)[Len(t)] + Weight(x)
<1> DEFINE u == Append(t, x)
           n == Len(t) + 1
<1>1. Len(t) \in Nat /\ Len(u) = n /\ n \in 0..n /\ Len(t) \in 0..Len(t)
  OBVIOUS
<1>2. ASSUME NEW i \in 0..Len(t)
      PROVE  Depth(u)[i] = Depth(t)[i]
  <2>1. i \in 0..Len(u)
    BY <1>1
  <2>2. \A j \in 1..i : u[j] = t[j]
    OBVIOUS
  <2>3. /\ {j \in 1..i : u[j] \in Opens} = {j \in 1..i : t[j] \in Opens}
        /\ {j \in 1..i : u[j] \in Closes} = {j \in 1..i : t[j] \in Closes}
    BY <2>2, Zenon
  <2> HIDE DEF u
  <2> QED
    BY <2>1, <2>3, Zenon DEF Depth
<1>3. Depth(u)[n] = Depth(t)[Len(t)] + Weight(x)
  <2> DEFINE O(s, i) == Cardinality({j \in 1..i : s[j] \in Opens})
             C(s, i) == Cardinality({j \in 1..i : s[j] \in Closes})
  <2>1. Depth(u)[n] = O(u, n) - C(u, n) /\ Depth(t)[Len(t)] = O(t, Len(t)) - C(t, Len(t))
    <3> HIDE DEF u, n
    <3> QED
      BY <1>1, Zenon DEF Depth
  <2>2. /\ O(u, n) = O(t, Len(t)) + (IF x \in Opens THEN 1 ELSE 0)
        /\ C(u, n) = C(t, Len(t)) + (IF x \in Closes THEN 1 ELSE 0)
    <3>1. \A B : Cardinality({j \in 1..n : u[j] \in B})
                   = Cardinality({j \in 1..Len(t) : t[j] \in B}) + (IF x \in B THEN 1 ELSE 0)
      BY PlacesAppend, Zenon
    <3> HIDE DEF u, n
    <3> QED
      BY <3>1, Zenon
  <2>3. O(t, Len(t)) \in Nat /\ C(t, Len(t)) \in Nat
    BY <1>1, PlacesFinite, Zenon
  <2>4. x \in Opens => x \notin Closes
    BY Zenon DEF Opens, Closes
  <2> HIDE DEF O, C, u, n
  <2> QED
    BY <2>1, <2>2, <2>3, <2>4 DEF Weight
<1> QED
  BY <1>2, <1>3, Zenon

-----------------------------------------------------------------------------
(* What encloses a place does not depend on what comes after it. *)
LEMMA WithinAppend ==
  ASSUME NEW t \in Seq(Token), NEW x \in Token, NEW i \in 1..(Len(t) + 1), NEW b,
         Within(t, Depth(t), i, b)
  PROVE  Within(Append(t, x), Depth(Append(t, x)), i, b)
<1> DEFINE u == Append(t, x)
           d == Depth(t)
           e == Depth(u)
<1>1. PICK j \in 1..(i - 1) : t[j] = b /\ d[j] = d[i - 1] /\ \A m \in j..(i - 1) : d[m] >= d[j]
  BY Zenon DEF Within
<1>2. \A m \in 1..(i - 1) : m \in 1..Len(t) /\ m \in 0..Len(t)
  OBVIOUS
<1>3. i - 1 \in 1..(i - 1) /\ \A m \in j..(i - 1) : m \in 1..(i - 1)
  OBVIOUS
<1>4. \A m \in 1..(i - 1) : e[m] = d[m]
  BY <1>2, DepthAppend, Zenon
<1>5. \A m \in 1..Len(t) : u[m] = t[m]
  OBVIOUS
<1> HIDE DEF u, d, e
<1>6. u[j] = b /\ e[j] = e[i - 1] /\ \A m \in j..(i - 1) : e[m] >= e[j]
  BY <1>1, <1>2, <1>3, <1>4, <1>5, Zenon
<1> QED
  BY <1>6, Zenon DEF Within, u, d, e

(* The beginning of an object is a nonempty sequence. *)
LEMMA Nonempty ==
  ASSUME NEW t, NEW n, Prefix(t, n)
  PROVE  t \in Seq(Token) /\ Len(t) \in Nat \ {0} /\ t[1] = "{" /\ Depth(t)[Len(t)] = n
<1>1. t \in Seq(Token) /\ Len(t) > 0
  BY Zenon DEF Prefix
<1>2. Len(t) \in Nat \ {0}
  BY <1>1
<1> QED
  BY <1>1, <1>2, Zenon DEF Prefix

(* The innermost bracket that is open at the end *)
LEMMA Innermost ==
  ASSUME NEW t, NEW n \in Nat \ {0}, Prefix(t, n)
  PROVE  Within(t, Depth(t), Len(t) + 1, Bracket(n))
<1> DEFINE d == Depth(t)
<1>1. n \in 1..n
  OBVIOUS
<1>2. PICK j \in 1..Len(t) : t[j] = Bracket(n) /\ d[j] = n /\ \A m \in j..Len(t) : d[m] >= n
  BY <1>1, Zenon DEF Prefix
<1>3. d[Len(t)] = n /\ Len(t) \in Nat
  BY Nonempty, Zenon
<1> HIDE DEF d
<1>4. (Len(t) + 1) - 1 = Len(t)
  BY <1>3
<1> QED
  BY <1>2, <1>3, <1>4, Zenon DEF Within, d

(* A token that is allowed keeps the neighbours fitting and the brackets   *)
(* matched.                                                                *)
LEMMA Fitting ==
  ASSUME NEW t, NEW n \in Nat \ {0}, NEW y, At(t, n, y), NEW x \in Token, Allowed(n, y, x)
  PROVE  LET u == Append(t, x) IN
         /\ \A i \in 1..Len(t) : Fit(u, Depth(u), i)
         /\ \A i \in 1..Len(u) : Matched(u, Depth(u), i)
<1> DEFINE u == Append(t, x)
           d == Depth(t)
           e == Depth(u)
           k == Len(t)
<1>0. t \in Seq(Token) /\ k \in Nat \ {0} /\ t[k] = y
  BY Nonempty, Zenon DEF At
<1>1. t \in Seq(Token) /\ k \in Nat /\ k > 0 /\ t[k] = y
  BY <1>0
<1>2. u \in Seq(Token) /\ Len(u) = k + 1 /\ u[k + 1] = x /\ \A i \in 1..k : u[i] = t[i]
  BY <1>1
<1>3. Within(u, e, k + 1, Bracket(n))
  <2>1. k + 1 \in 1..(k + 1)
    BY <1>1
  <2> QED
    BY <1>1, <2>1, Innermost, WithinAppend, Zenon DEF At
<1>4. ASSUME NEW i \in 1..k, NEW b, Within(t, d, i, b)
      PROVE  Within(u, e, i, b)
  <2>1. i \in 1..(k + 1)
    BY <1>1
  <2> QED
    BY <1>1, <1>4, <2>1, WithinAppend, Zenon
<1> HIDE DEF u, e
<1>5. ASSUME NEW i \in 1..k
      PROVE  Fit(u, e, i)
  <2>1. CASE i = k
    BY <1>1, <1>2, <1>3, <2>1, Zenon DEF Allowed, Fit
  <2>2. CASE i # k
    <3>1. i \in 1..(k - 1) /\ i + 1 \in 1..k
      BY <1>1, <2>2
    <3>2. Fit(t, d, i) /\ u[i] = t[i] /\ u[i + 1] = t[i + 1]
      BY <1>2, <3>1, Zenon DEF At, Prefix
    <3> QED
      BY <1>4, <3>1, <3>2, Zenon DEF Fit
  <2> QED
    BY <2>1, <2>2, Zenon
<1>6. ASSUME NEW i \in 1..(k + 1)
      PROVE  Matched(u, e, i)
  <2>1. CASE i = k + 1
    BY <1>2, <1>3, <2>1, Zenon DEF Allowed, Matched
  <2>2. CASE i # k + 1
    <3>1. i \in 1..k
      BY <1>1, <2>2
    <3>2. Matched(t, d, i) /\ u[i] = t[i]
      BY <1>2, <3>1, Zenon DEF At, Prefix
    <3> QED
      BY <1>4, <3>1, <3>2, Zenon DEF Matched
  <2> QED
    BY <2>1, <2>2, Zenon
<1> QED
  BY <1>2, <1>5, <1>6, Zenon DEF u, e

(* The token that is allowed next, as long as a bracket stays open *)
LEMMA Put ==
  ASSUME NEW t, NEW n \in Nat \ {0}, NEW y, At(t, n, y), NEW x \in Token, Allowed(n, y, x),
         n + Weight(x) > 0
  PROVE  At(Append(t, x), n + Weight(x), x)
<1> DEFINE u == Append(t, x)
           d == Depth(t)
           e == Depth(u)
           k == Len(t)
           w == n + Weight(x)
<1>0. t[1] = "{" /\ d[k] = n
  BY Nonempty, Zenon DEF At
<1>1. t \in Seq(Token) /\ k \in Nat \ {0}
  BY Nonempty, Zenon DEF At
<1>2. u \in Seq(Token) /\ Len(u) = k + 1 /\ u[k + 1] = x /\ \A i \in 1..k : u[i] = t[i]
  BY <1>1
<1>3. e[k + 1] = w /\ \A i \in 0..k : e[i] = d[i]
  BY <1>0, <1>1, DepthAppend, Zenon
<1>4. w \in Nat \ {0} /\ w \in {n - 1, n, n + 1}
  BY DEF Weight
<1>5. (\A i \in 1..k : Fit(u, e, i)) /\ (\A i \in 1..(k + 1) : Matched(u, e, i))
  BY <1>2, Fitting, Zenon
<1>6. \A i \in 1..k : d[i] \in Int /\ d[i] > 0 /\ e[i] = d[i]
  <2>1. \A i \in 1..k : i \in 0..k
    BY <1>1
  <2>2. \A i \in 1..k : d[i] > 0
    BY Zenon DEF At, Prefix
  <2> QED
    BY <1>1, <1>3, <2>1, <2>2, DepthType, Zenon
<1> HIDE DEF u, d, e, w
<1>7. ASSUME NEW i \in 1..(k + 1)
      PROVE  e[i] > 0
  <2>1. i \in 1..k \/ i = k + 1
    BY <1>1
  <2> QED
    BY <1>3, <1>4, <1>6, <2>1
<1>8. ASSUME NEW l \in 1..w
      PROVE  \E j \in 1..(k + 1) : u[j] = Bracket(l) /\ e[j] = l /\ \A m \in j..(k + 1) : e[m] >= l
  <2>1. CASE l \in 1..n
    <3>1. PICK j \in 1..k : t[j] = Bracket(l) /\ d[j] = l /\ \A m \in j..k : d[m] >= l
      BY <2>1, Zenon DEF At, Prefix, d
    <3>2. j \in 1..(k + 1) /\ u[j] = Bracket(l) /\ e[j] = l
      BY <1>1, <1>2, <1>6, <3>1
    <3>3. ASSUME NEW m \in j..(k + 1)
          PROVE  e[m] >= l
      <4>1. m = k + 1 \/ (m \in j..k /\ m \in 1..k)
        BY <1>1
      <4> QED
        BY <1>3, <1>4, <1>6, <3>1, <4>1
    <3> QED
      BY <3>2, <3>3, Zenon
  <2>2. CASE l \notin 1..n
    <3>1. l = n + 1 /\ w = n + 1
      BY <1>4, <2>2
    <3>2. x \in Opens
      BY <3>1 DEF w, Weight
    <3>3. k + 1 \in 1..(k + 1)
      BY <1>1
    <3>4. u[k + 1] = Bracket(l) /\ e[k + 1] = l
      BY <1>2, <1>3, <3>1, <3>2, Zenon DEF Allowed
    <3>5. \A m \in (k + 1)..(k + 1) : e[m] >= l
      BY <1>3, <1>4, <3>1
    <3> QED
      BY <3>3, <3>4, <3>5, Zenon
  <2> QED
    BY <2>1, <2>2, Zenon
<1>9. (k + 1) - 1 = k /\ k + 1 > 0 /\ u[1] = t[1]
  BY <1>1, <1>2
<1>10. Prefix(u, w)
  BY <1>0, <1>2, <1>3, <1>5, <1>7, <1>8, <1>9, Zenon DEF Prefix, e
<1> QED
  BY <1>2, <1>10, Zenon DEF At, u, w

(* The brace that closes the packet makes its text a JSON object. *)
LEMMA Finish ==
  ASSUME NEW t, NEW y, At(t, 1, y), NEW x \in Token, Weight(x) = -1, Allowed(1, y, x)
  PROVE  IsJson(Append(t, x))
<1> DEFINE u == Append(t, x)
           d == Depth(t)
           e == Depth(u)
           k == Len(t)
<1>1. t[1] = "{" /\ d[k] = 1
  BY Nonempty, Zenon DEF At
<1>2. t \in Seq(Token) /\ k \in Nat \ {0}
  BY Nonempty, Zenon DEF At
<1>3. Len(u) = k + 1 /\ u[1] = t[1]
  BY <1>2
<1>4. e[k + 1] = 1 + Weight(x) /\ \A i \in 0..k : e[i] = d[i]
  BY <1>1, <1>2, DepthAppend, Zenon
<1>5. \A i \in 1..k : e[i] > 0
  <2>1. \A i \in 1..k : i \in 0..k
    BY <1>2
  <2> QED
    BY <1>4, <2>1, Zenon DEF At, Prefix
<1>6. (\A i \in 1..k : Fit(u, e, i)) /\ (\A i \in 1..(k + 1) : Matched(u, e, i))
  <2>1. 1 \in Nat \ {0}
    OBVIOUS
  <2> QED
    BY <1>3, <2>1, Fitting, Zenon
<1> HIDE DEF u, e
<1>7. e[k + 1] = 0 /\ k + 1 > 0 /\ (k + 1) - 1 = k
  BY <1>2, <1>4
<1> QED
  BY <1>1, <1>3, <1>5, <1>6, <1>7, Zenon DEF IsJson, Fit, Matched, u, e

-----------------------------------------------------------------------------
(* The moves that the text of a packet is made of *)
LEMMA Moves ==
  /\ Allowed(1, "{", "f") /\ Allowed(1, "f", ",") /\ Allowed(1, ",", "k") /\ Allowed(1, "k", "[")
  /\ Allowed(2, "[", "{") /\ Allowed(2, "}", ",") /\ Allowed(2, ",", "{")
  /\ Allowed(2, "[", "]") /\ Allowed(2, "}", "]") /\ Allowed(1, "]", "}")
  /\ \A n \in 3..6 :
       /\ Allowed(n, "{", "f") /\ Allowed(n, "f", ",") /\ Allowed(n, ",", "f")
       /\ Allowed(n, "{", "k") /\ Allowed(n, ",", "k") /\ Allowed(n, "k", "{")
       /\ Allowed(n, "{", "}") /\ Allowed(n, "f", "}") /\ Allowed(n, "}", "}")
       /\ Allowed(n, "}", ",")
<1>1. /\ Follows["{"] = {"f", "k", "}"} /\ Follows["["] = {"{", "]"} /\ Follows["k"] = {"{", "["}
      /\ Follows["f"] = {",", "}"} /\ Follows[","] = {"f", "k", "{"}
      /\ Follows["}"] = {",", "}", "]"} /\ Follows["]"] = {",", "}", "]"}
  BY Zenon DEF Follows, Token, Opens, Closes
<1>2. 1 # 2 /\ 1 + 1 = 2 /\ 2 + 1 # 2 /\ \A n \in 3..6 : n # 2 /\ n + 1 # 2
  OBVIOUS
<1>3. /\ Bracket(1) = "{" /\ Bracket(2) = "[" /\ Bracket(1 + 1) = "[" /\ Bracket(2 + 1) = "{"
      /\ \A n \in 3..6 : Bracket(n) = "{" /\ Bracket(n + 1) = "{"
  BY <1>2, Zenon DEF Bracket
<1>4. /\ Allowed(1, "{", "f") /\ Allowed(1, "f", ",") /\ Allowed(1, ",", "k") /\ Allowed(1, "k", "[")
      /\ Allowed(2, "[", "{") /\ Allowed(2, "}", ",") /\ Allowed(2, ",", "{")
      /\ Allowed(2, "[", "]") /\ Allowed(2, "}", "]") /\ Allowed(1, "]", "}")
  BY <1>1, <1>3, Zenon DEF Allowed, Opens
<1>5. ASSUME NEW n \in 3..6
      PROVE  /\ Allowed(n, "{", "f") /\ Allowed(n, "f", ",") /\ Allowed(n, ",", "f")
             /\ Allowed(n, "{", "k") /\ Allowed(n, ",", "k") /\ Allowed(n, "k", "{")
             /\ Allowed(n, "{", "}") /\ Allowed(n, "f", "}") /\ Allowed(n, "}", "}")
             /\ Allowed(n, "}", ",")
  BY <1>1, <1>3, Zenon DEF Allowed, Opens
<1> QED
  BY <1>4, <1>5, Zenon

(* One token after another: none *)
LEMMA NoToken ==
  ASSUME NEW t \in Seq(Token)
  PROVE  t \o <<>> = t
OBVIOUS

(* ... one *)
LEMMA OneToken ==
  ASSUME NEW t \in Seq(Token), NEW a \in Token
  PROVE  t \o <<a>> = Append(t, a)
OBVIOUS

(* ... two *)
LEMMA TwoTokens ==
  ASSUME NEW t \in Seq(Token), NEW a \in Token, NEW b \in Token
  PROVE  t \o <<a, b>> = Append(Append(t, a), b)
OBVIOUS

(* ... three *)
LEMMA ThreeTokens ==
  ASSUME NEW t \in Seq(Token), NEW a \in Token, NEW b \in Token, NEW c \in Token
  PROVE  t \o <<a, b, c>> = Append(Append(Append(t, a), b), c)
OBVIOUS

(* ... four *)
LEMMA FourTokens ==
  ASSUME NEW t \in Seq(Token), NEW a \in Token, NEW b \in Token, NEW c \in Token, NEW d \in Token
  PROVE  t \o <<a, b, c, d>> = Append(Append(Append(Append(t, a), b), c), d)
OBVIOUS

(* Five tokens and nothing before them *)
LEMMA FiveTokens ==
  ASSUME NEW a \in Token, NEW b \in Token, NEW c \in Token, NEW d \in Token, NEW e \in Token
  PROVE  Append(Append(Append(Append(<<a>>, b), c), d), e) = <<a, b, c, d, e>>
<1> DEFINE s == Append(Append(Append(Append(<<a>>, b), c), d), e)
           r == <<a, b, c, d, e>>
<1>1. s \in Seq(Token) /\ r \in Seq(Token) /\ Len(s) = 5 /\ Len(r) = 5
  OBVIOUS
<1>2. s[1] = a /\ s[2] = b /\ s[3] = c /\ s[4] = d /\ s[5] = e
  OBVIOUS
<1>3. \A i \in 1..5 : s[i] = r[i]
  BY <1>2
<1> HIDE DEF s, r
<1>4. s = r
  BY <1>1, <1>3, SeqEqual, Zenon
<1> QED
  BY <1>4, Zenon DEF s, r

(* Put, by the kind of the token *)
LEMMA PutPlain ==
  ASSUME NEW t, NEW n \in Nat \ {0}, NEW y, At(t, n, y), NEW x \in Token \ (Opens \cup Closes),
         Allowed(n, y, x)
  PROVE  At(Append(t, x), n, x)
<1>1. Weight(x) = 0
  BY Zenon DEF Weight
<1>2. n + Weight(x) = n /\ n > 0
  BY <1>1
<1> QED
  BY <1>2, Put, Zenon

(* Put, of a bracket that opens *)
LEMMA PutOpen ==
  ASSUME NEW t, NEW n \in Nat \ {0}, NEW y, At(t, n, y), NEW x \in Opens, Allowed(n, y, x)
  PROVE  At(Append(t, x), n + 1, x)
<1>1. x \in Token /\ Weight(x) = 1
  BY Zenon DEF Token, Weight
<1>2. n + 1 > 0
  OBVIOUS
<1> QED
  BY <1>1, <1>2, Put, Zenon

(* Put, of a bracket that closes and is not the last one *)
LEMMA PutClose ==
  ASSUME NEW t, NEW n \in Nat \ {0}, NEW y, At(t, n + 1, y), NEW x \in Closes, Allowed(n + 1, y, x)
  PROVE  At(Append(t, x), n, x)
<1>1. x \in Token /\ Weight(x) = -1
  BY Zenon DEF Token, Weight, Opens, Closes
<1>2. n + 1 \in Nat \ {0} /\ (n + 1) + Weight(x) = n /\ n > 0
  BY <1>1
<1> QED
  BY <1>1, <1>2, Put, Zenon

(* How many brackets may be open *)
LEMMA Numbers ==
  /\ 1 \in Nat \ {0} /\ 2 \in Nat \ {0} /\ 3 \in Nat \ {0} /\ 4 \in Nat \ {0} /\ 5 \in Nat \ {0}
  /\ 6 \in Nat \ {0}
  /\ 1 + 1 = 2 /\ 2 + 1 = 3 /\ 3 + 1 = 4 /\ 4 + 1 = 5 /\ 5 + 1 = 6
  /\ 3 \in 3..6 /\ 4 \in 3..6 /\ 5 \in 3..6 /\ 6 \in 3..6
OBVIOUS

(* What kinds the tokens are of *)
LEMMA Kinds ==
  /\ "," \in Token \ (Opens \cup Closes)
  /\ "k" \in Token \ (Opens \cup Closes)
  /\ "f" \in Token \ (Opens \cup Closes)
  /\ "{" \in Opens /\ "[" \in Opens /\ "}" \in Closes /\ "]" \in Closes
  /\ "{" \in Token /\ "[" \in Token /\ "}" \in Token /\ "]" \in Token
  /\ "," \in Token /\ "k" \in Token /\ "f" \in Token
BY Zenon DEF Token, Opens, Closes

(* packet_gather: the key and the brace of a section, after the brace of   *)
(* "values", a section before it or the comma of the record.               *)
LEMMA OpenedAt ==
  ASSUME NEW t, NEW n \in 3..5, NEW y \in Nexts, At(t, n, y)
  PROVE  At(Opened(t), n + 1, "{")
<1>1. t \in Seq(Token) /\ LastChar(t) = y
  BY Nonempty, Zenon DEF At, LastChar
<1>2. n \in Nat \ {0} /\ n \in 3..6
  OBVIOUS
<1>3. PICK s : s = t \o Sep(LastChar(t) = "}")
  BY Zenon
<1>4. At(s, n, "{") \/ At(s, n, ",")
  <2>1. CASE y = "}"
    <3>1. s = Append(t, ",")
      BY <1>1, <1>3, <2>1, OneToken, NoToken, Kinds, Zenon DEF Sep
    <3> QED
      BY <1>2, <2>1, <3>1, Moves, Kinds, PutPlain, Zenon
  <2>2. CASE y # "}"
    <3>1. s = t
      BY <1>1, <1>3, <2>2, OneToken, NoToken, Kinds, Zenon DEF Sep
    <3> QED
      BY <2>2, <3>1, Zenon DEF Nexts
  <2> QED
    BY <2>1, <2>2, Zenon
<1>5. At(Append(s, "k"), n, "k")
  BY <1>2, <1>4, Moves, Kinds, PutPlain, Zenon
<1>6. At(Append(Append(s, "k"), "{"), n + 1, "{")
  BY <1>2, <1>5, Moves, Kinds, PutOpen, Zenon
<1>7. s \in Seq(Token)
  BY <1>4, Nonempty, Zenon DEF At
<1>8. s \o <<"k", "{">> = Append(Append(s, "k"), "{")
  BY <1>7, TwoTokens, Kinds, Zenon
<1> QED
  BY <1>3, <1>6, <1>8, Zenon DEF Opened

(* The brace that opens the packet *)
LEMMA FirstAt == At(<<"{">>, 1, "{")
<1> DEFINE u == <<"{">>
           z == Depth(<<>>)
<1>1. <<>> \in Seq(Token) /\ Len(<<>>) = 0 /\ 0 \in 0..0 /\ 0 + 1 = 1 /\ 1 - 1 = 0 /\ 1 > 0
  OBVIOUS
<1>2. z[0] = 0
  <2>1. 1..0 = {}
    OBVIOUS
  <2>2. {j \in 1..0 : <<>>[j] \in Opens} = {} /\ {j \in 1..0 : <<>>[j] \in Closes} = {}
    BY <2>1, Zenon
  <2>3. Cardinality({}) = 0
    BY FS_EmptySet, Zenon
  <2>4. z[0] = Cardinality({}) - Cardinality({})
    BY <1>1, <2>2, Zenon DEF Depth
  <2> QED
    BY <2>3, <2>4
<1>3. \A a : Append(<<>>, a) = <<a>> /\ Len(<<a>>) = 1 /\ <<a>>[1] = a
  OBVIOUS
<1>4. u \in Seq(Token) /\ Len(u) = 1 /\ u[1] = "{"
  <2>1. \A a \in Token : <<a>> \in Seq(Token)
    OBVIOUS
  <2> QED
    BY <1>3, <2>1, Kinds, Zenon
<1>5. Depth(u)[1] = z[0] + Weight("{")
  <2>1. Depth(Append(<<>>, "{"))[Len(<<>>) + 1] = z[Len(<<>>)] + Weight("{")
    BY <1>1, DepthAppend, Kinds, Zenon
  <2>2. Append(<<>>, "{") = u /\ Len(<<>>) + 1 = 1 /\ Len(<<>>) = 0
    BY <1>1, <1>3, Zenon
  <2> QED
    BY <2>1, <2>2, Zenon
<1>6. Weight("{") = 1
  BY Kinds, Zenon DEF Weight
<1>7. 1 # 2 /\ 0 + 1 = 1 /\ 1 >= 1 /\ 1..1 = {1} /\ 1..0 = {}
  OBVIOUS
<1> HIDE DEF u, z
<1>8. Depth(u)[1] = 1
  BY <1>2, <1>5, <1>6, <1>7, Zenon
<1>9. Matched(u, Depth(u), 1)
  BY <1>4, Zenon DEF Matched
<1>10. Bracket(1) = "{"
  BY <1>7, Zenon DEF Bracket
<1>11. Prefix(u, 1)
  <2>1. \A i \in 1..Len(u) : i = 1
    BY <1>4, <1>7, Zenon
  <2>2. \A i \in 1..(Len(u) - 1) : FALSE
    BY <1>1, <1>4, <1>7, Zenon
  <2>3. 1 \in 1..Len(u) /\ Len(u) > 0 /\ \A m \in 1..Len(u) : Depth(u)[m] >= 1
    BY <1>1, <1>4, <1>7, <1>8, Zenon
  <2>4. \A l \in 1..1 : l = 1
    BY <1>7, Zenon
  <2> QED
    BY <1>1, <1>4, <1>8, <1>9, <1>10, <2>1, <2>2, <2>3, <2>4, Zenon DEF Prefix
<1> QED
  BY <1>4, <1>11, Zenon DEF At, u

(* packet_begin: the agent's members, and the key and the bracket of the   *)
(* records.                                                                *)
LEMMA HeaderAt == At(Header, 2, "[")
<1> DEFINE h == Append(Append(Append(<<"{">>, "f"), ","), "k")
<1>1. 1 \in Nat \ {0} /\ 1 + 1 = 2
  BY Numbers, Zenon
<1>2. At(h, 1, "k")
  BY <1>1, FirstAt, Moves, Kinds, PutPlain, Zenon
<1>3. At(Append(h, "["), 2, "[")
  BY <1>1, <1>2, Moves, Kinds, PutOpen, Zenon
<1>4. \A a, b, c, d, e \in Token : Append(Append(Append(Append(<<a>>, b), c), d), e) = <<a, b, c, d, e>>
  BY FiveTokens, Zenon
<1>5. "{" \in Token /\ "f" \in Token /\ "," \in Token /\ "k" \in Token /\ "[" \in Token
  BY Kinds, Zenon
<1>6. Append(h, "[") = Header
  <2>1. \A b, c, d, e \in Token : Append(Append(Append(Append(<<"{">>, b), c), d), e) = <<"{", b, c, d, e>>
    BY <1>4, <1>5, Zenon
  <2>2. \A c, d, e \in Token : Append(Append(Append(Append(<<"{">>, "f"), c), d), e) = <<"{", "f", c, d, e>>
    BY <1>5, <2>1, Zenon
  <2>3. \A d, e \in Token : Append(Append(Append(Append(<<"{">>, "f"), ","), d), e) = <<"{", "f", ",", d, e>>
    BY <1>5, <2>2, Zenon
  <2> QED
    BY <1>5, <2>3, Zenon DEF Header
<1> QED
  BY <1>3, <1>6, Zenon

(* plugin_gather: the head of a record, after a comma if it is not the     *)
(* first one.                                                              *)
LEMMA RecordHeadAt ==
  ASSUME NEW t, NEW cont \in BOOLEAN, At(t, 2, IF cont THEN "}" ELSE "[")
  PROVE  At(t \o Sep(cont) \o <<"{", "f", ",">>, 3, ",")
<1>1. t \in Seq(Token)
  BY Nonempty, Zenon DEF At
<1>2. 2 \in Nat \ {0} /\ 3 \in Nat \ {0} /\ 2 + 1 = 3 /\ 3 \in 3..6
  BY Numbers, Zenon
<1>3. PICK s : s = t \o Sep(cont)
  BY Zenon
<1>4. At(s, 2, "[") \/ At(s, 2, ",")
  <2>1. CASE cont
    <3>1. s = Append(t, ",")
      BY <1>1, <1>3, <2>1, OneToken, Kinds, Zenon DEF Sep
    <3> QED
      BY <1>2, <2>1, <3>1, Moves, Kinds, PutPlain, Zenon
  <2>2. CASE ~cont
    BY <1>1, <1>3, <2>2, NoToken, Zenon DEF Sep
  <2> QED
    BY <2>1, <2>2, Zenon
<1>5. At(Append(s, "{"), 3, "{")
  BY <1>2, <1>4, Moves, Kinds, PutOpen, Zenon
<1>6. At(Append(Append(s, "{"), "f"), 3, "f")
  BY <1>2, <1>5, Moves, Kinds, PutPlain, Zenon
<1>7. At(Append(Append(Append(s, "{"), "f"), ","), 3, ",")
  BY <1>2, <1>6, Moves, Kinds, PutPlain, Zenon
<1>8. s \in Seq(Token)
  BY <1>4, Nonempty, Zenon DEF At
<1>9. s \o <<"{", "f", ",">> = Append(Append(Append(s, "{"), "f"), ",")
  <2>1. \A a, b, c \in Token : s \o <<a, b, c>> = Append(Append(Append(s, a), b), c)
    BY <1>8, ThreeTokens, Zenon
  <2>2. "{" \in Token /\ "f" \in Token /\ "," \in Token
    BY Kinds, Zenon
  <2> QED
    BY <2>1, <2>2, Zenon
<1> QED
  BY <1>3, <1>7, <1>9, Zenon

(* packet_gather: the brace that closes a section *)
LEMMA SectionClosed ==
  ASSUME NEW t, NEW y, At(t, 5, y), y \in Ends
  PROVE  At(t \o <<"}">>, 4, "}")
<1>1. 4 \in Nat \ {0} /\ 4 + 1 = 5 /\ 5 \in 3..6
  BY Numbers, Zenon
<1>2. Allowed(5, y, "}")
  BY <1>1, Moves, Zenon DEF Ends
<1>3. At(Append(t, "}"), 4, "}")
  BY <1>1, <1>2, Kinds, PutClose, Zenon
<1>4. t \in Seq(Token)
  BY Nonempty, Zenon DEF At
<1> QED
  BY <1>3, <1>4, OneToken, Kinds, Zenon

(* plugin_gather: the braces that close "values" and the record *)
LEMMA RecordClosed ==
  ASSUME NEW t, NEW y, At(t, 4, y), y \in Ends
  PROVE  At(t \o <<"}", "}">>, 2, "}")
<1>1. 3 \in Nat \ {0} /\ 2 \in Nat \ {0} /\ 3 + 1 = 4 /\ 2 + 1 = 3 /\ 4 \in 3..6 /\ 3 \in 3..6
  BY Numbers, Zenon
<1>2. Allowed(4, y, "}")
  BY <1>1, Moves, Zenon DEF Ends
<1>3. At(Append(t, "}"), 3, "}")
  BY <1>1, <1>2, Kinds, PutClose, Zenon
<1>4. At(Append(Append(t, "}"), "}"), 2, "}")
  BY <1>1, <1>3, Moves, Kinds, PutClose, Zenon
<1>5. t \in Seq(Token)
  BY Nonempty, Zenon DEF At
<1>6. t \o <<"}", "}">> = Append(Append(t, "}"), "}")
  BY <1>5, TwoTokens, Kinds, Zenon
<1> QED
  BY <1>4, <1>6, Zenon

(* packet_ready: "]}" completes a packet between two gathers. *)
LEMMA Sealed ==
  ASSUME NEW t, At(t, 2, "[") \/ At(t, 2, "}")
  PROVE  IsJson(t \o <<"]", "}">>)
<1>1. 1 \in Nat \ {0} /\ 1 + 1 = 2
  BY Numbers, Zenon
<1>2. At(Append(t, "]"), 1, "]")
  BY <1>1, Moves, Kinds, PutClose, Zenon
<1>3. Weight("}") = -1
  BY Zenon DEF Weight, Opens, Closes
<1>4. IsJson(Append(Append(t, "]"), "}"))
  BY <1>2, <1>3, Moves, Kinds, Finish, Zenon
<1>5. t \in Seq(Token)
  BY Nonempty, Zenon DEF At
<1>6. t \o <<"]", "}">> = Append(Append(t, "]"), "}")
  BY <1>5, TwoTokens, Kinds, Zenon
<1> QED
  BY <1>4, <1>6, Zenon

-----------------------------------------------------------------------------
(* A section is followed by members or lists of its own, whatever is       *)
(* before it: y is the last token afterwards.                              *)
Continues(out, y) == out \in Seq(Token) /\ \A t : At(t, 5, "{") => At(t \o out, 5, y)

SectionOut(sub) == \E y \in Ends : Continues(sub.out, y)

(* What a section of lists holds so far: nothing, or lists *)
Braces    == {"{", "}"}
Listed(s) == \E y \in Braces : Continues(s.out, y) /\ LastChar(<<"{">> \o s.out) = y

(* Appending in two parts *)
LEMMA Concats ==
  ASSUME NEW t \in Seq(Token), NEW r \in Seq(Token), NEW s \in Seq(Token)
  PROVE  t \o (r \o s) = (t \o r) \o s /\ r \o s \in Seq(Token)
<1>1. r \o s \in Seq(Token)
  OBVIOUS
<1>2. t \o (r \o s) = (t \o r) \o s
  BY ConcatAssociative
<1> QED
  BY <1>1, <1>2, Zenon

(* Appending in three parts *)
LEMMA ConcatsOfThree ==
  ASSUME NEW t \in Seq(Token), NEW a \in Seq(Token)
  PROVE  \A b, c \in Seq(Token) : t \o (a \o b \o c) = t \o a \o b \o c
<1> SUFFICES ASSUME NEW b \in Seq(Token), NEW c \in Seq(Token)
             PROVE  t \o (a \o b \o c) = t \o a \o b \o c
  OBVIOUS
<1>1. a \o b \in Seq(Token) /\ t \o (a \o b) = t \o a \o b
  BY Concats
<1>2. ASSUME NEW m \in Seq(Token) PROVE t \o (m \o c) = (t \o m) \o c
  BY Concats, SMTT(30)
<1> QED
  BY <1>1, <1>2, Zenon

(* A section that holds nothing *)
LEMMA NothingFits == Continues(<<>>, "{")
<1>1. <<>> \in Seq(Token)
  OBVIOUS
<1>2. ASSUME NEW t, At(t, 5, "{")
      PROVE  t \o <<>> = t
  BY <1>2, Nonempty, NoToken, Zenon DEF At
<1> QED
  BY <1>1, <1>2, Zenon DEF Continues

(* A section that holds members *)
LEMMA MembersFit == Continues(<<"f">>, "f")
<1>1. \A a \in Token : <<a>> \in Seq(Token)
  OBVIOUS
<1>2. <<"f">> \in Seq(Token)
  BY <1>1, Kinds, Zenon
<1>3. ASSUME NEW t, At(t, 5, "{")
      PROVE  At(t \o <<"f">>, 5, "f")
  <2>1. t \o <<"f">> = Append(t, "f")
    BY <1>3, Nonempty, OneToken, Kinds, Zenon DEF At
  <2> QED
    BY <1>3, <2>1, Numbers, Moves, Kinds, PutPlain, Zenon
<1> QED
  BY <1>2, <1>3, Zenon DEF Continues

(* Members after members, with a comma *)
LEMMA MoreMembersFit ==
  ASSUME NEW out, Continues(out, "f")
  PROVE  Continues(out \o <<",", "f">>, "f")
<1>1. \A a, b \in Token : <<a, b>> \in Seq(Token)
  OBVIOUS
<1>2. <<",", "f">> \in Seq(Token) /\ out \in Seq(Token)
  BY <1>1, Kinds, Zenon DEF Continues
<1>3. out \o <<",", "f">> \in Seq(Token)
  BY <1>2, Concats, Zenon
<1>4. ASSUME NEW t, At(t, 5, "{")
      PROVE  At(t \o (out \o <<",", "f">>), 5, "f")
  <2>1. At(t \o out, 5, "f")
    BY <1>4, Zenon DEF Continues
  <2>2. t \in Seq(Token) /\ t \o out \in Seq(Token)
    BY <1>4, <2>1, Nonempty, Zenon DEF At
  <2>3. t \o (out \o <<",", "f">>) = (t \o out) \o <<",", "f">>
    <3>1. out \in Seq(Token)
      BY <1>2, Zenon
    <3>2. \A q \in Seq(Token) : t \o (out \o q) = (t \o out) \o q
      BY <2>2, <3>1, Concats
    <3> QED
      BY <1>2, <3>2, Zenon
  <2>4. (t \o out) \o <<",", "f">> = Append(Append(t \o out, ","), "f")
    BY <2>2, TwoTokens, Kinds, Zenon
  <2>5. At(Append(t \o out, ","), 5, ",")
    BY <2>1, Numbers, Moves, Kinds, PutPlain, Zenon
  <2>6. At(Append(Append(t \o out, ","), "f"), 5, "f")
    BY <2>5, Numbers, Moves, Kinds, PutPlain, Zenon
  <2> QED
    BY <2>3, <2>4, <2>6, Zenon
<1> QED
  BY <1>2, <1>3, <1>4, Zenon DEF Continues

(* Short sequences of tokens *)
LEMMA ShortSeqs ==
  /\ <<>> \in Seq(Token)
  /\ \A a \in Token : <<a>> \in Seq(Token)
  /\ \A a, b \in Token : <<a, b>> \in Seq(Token)
  /\ <<"k", "{", "f", "}">> \in Seq(Token)
<1>1. \A a, b, c, d \in Token : <<a, b, c, d>> \in Seq(Token)
  OBVIOUS
<1>2. "k" \in Token /\ "{" \in Token /\ "f" \in Token /\ "}" \in Token
  BY Kinds, Zenon
<1>3. <<"k", "{", "f", "}">> \in Seq(Token)
  BY <1>1, <1>2, Zenon
<1>4. /\ <<>> \in Seq(Token)
      /\ \A a \in Token : <<a>> \in Seq(Token)
      /\ \A a, b \in Token : <<a, b>> \in Seq(Token)
  OBVIOUS
<1> QED
  BY <1>3, <1>4, Zenon

(* The tokens of a list, one after another *)
LEMMA ItemTokens ==
  ASSUME NEW t \in Seq(Token)
  PROVE  t \o <<"k", "{", "f", "}">> = Append(Append(Append(Append(t, "k"), "{"), "f"), "}")
<1>1. \A a, b, c, d \in Token : t \o <<a, b, c, d>> = Append(Append(Append(Append(t, a), b), c), d)
  BY FourTokens, Zenon
<1>2. "k" \in Token /\ "{" \in Token /\ "f" \in Token /\ "}" \in Token
  BY Kinds, Zenon
<1>3. \A b, c, d \in Token : t \o <<"k", b, c, d>> = Append(Append(Append(Append(t, "k"), b), c), d)
  BY <1>1, <1>2, Zenon
<1>4. \A c, d \in Token : t \o <<"k", "{", c, d>> = Append(Append(Append(Append(t, "k"), "{"), c), d)
  BY <1>2, <1>3, Zenon
<1> QED
  BY <1>2, <1>4, Zenon

(* A list ends in a brace. *)
LEMMA ItemLast ==
  ASSUME NEW t \in Seq(Token)
  PROVE  LastChar(<<"{">> \o (t \o <<"k", "{", "f", "}">>)) = "}"
<1>1. ASSUME NEW z \in Token, NEW s \in Seq(Token), NEW d \in Token
      PROVE  LastChar(<<z>> \o Append(s, d)) = d
  BY DEF LastChar
<1>2. PICK s \in Seq(Token) : s = Append(Append(Append(t, "k"), "{"), "f")
  <2>1. \A r \in Seq(Token), a \in Token : Append(r, a) \in Seq(Token)
    OBVIOUS
  <2> QED
    BY <2>1, Kinds, Zenon
<1>3. t \o <<"k", "{", "f", "}">> = Append(s, "}")
  BY <1>2, ItemTokens, Zenon
<1>4. \A z, d \in Token : LastChar(<<z>> \o Append(s, d)) = d
  BY <1>1, Zenon
<1>5. "{" \in Token /\ "}" \in Token
  BY Kinds, Zenon
<1> QED
  BY <1>3, <1>4, <1>5, Zenon

(* os_proc: a list after what the section holds, with a comma unless this  *)
(* is nothing                                                              *)
LEMMA ItemFits ==
  ASSUME NEW out, NEW y \in Braces, Continues(out, y), NEW sep, sep = Sep(y # "{")
  PROVE  Continues(out \o sep \o <<"k", "{", "f", "}">>, "}")
<1> DEFINE item == <<"k", "{", "f", "}">>
<1>1. sep \in Seq(Token) /\ item \in Seq(Token) /\ out \in Seq(Token)
  BY ShortSeqs, Kinds, Zenon DEF Sep, Continues
<1>2. out \o sep \o item \in Seq(Token)
  BY <1>1, Concats, Zenon
<1>3. ASSUME NEW t, At(t, 5, "{")
      PROVE  At(t \o (out \o sep \o item), 5, "}")
  <2> DEFINE a == t \o out \o sep
  <2>1. At(t \o out, 5, y)
    BY <1>3, Zenon DEF Continues
  <2>2. t \in Seq(Token) /\ t \o out \in Seq(Token)
    BY <1>3, <2>1, Nonempty, Zenon DEF At
  <2>3. t \o (out \o sep \o item) = a \o item
    <3> HIDE DEF item
    <3>1. \A b, c \in Seq(Token) : t \o (out \o b \o c) = t \o out \o b \o c
      <4>1. t \in Seq(Token) /\ out \in Seq(Token)
        BY <1>1, <2>2, Zenon
      <4> QED
        BY <4>1, ConcatsOfThree, Zenon
    <3>2. \A c \in Seq(Token) : t \o (out \o sep \o c) = t \o out \o sep \o c
      BY <1>1, <3>1, Zenon
    <3> QED
      BY <1>1, <3>2, Zenon
  <2>4. At(a, 5, "{") \/ At(a, 5, ",")
    <3>1. CASE y = "{"
      BY <2>1, <2>2, <3>1, NoToken, Zenon DEF Sep
    <3>2. CASE y # "{"
      <4>1. a = Append(t \o out, ",") /\ y = "}"
        BY <2>2, <3>2, OneToken, Kinds, Zenon DEF Sep, Braces
      <4> HIDE DEF a
      <4> QED
        BY <2>1, <4>1, Numbers, Moves, Kinds, PutPlain, Zenon
    <3> QED
      BY <3>1, <3>2, Zenon
  <2> HIDE DEF a
  <2>5. At(Append(a, "k"), 5, "k")
    BY <2>4, Numbers, Moves, Kinds, PutPlain, Zenon
  <2>6. At(Append(Append(a, "k"), "{"), 6, "{")
    BY <2>5, Numbers, Moves, Kinds, PutOpen, Zenon
  <2>7. At(Append(Append(Append(a, "k"), "{"), "f"), 6, "f")
    BY <2>6, Numbers, Moves, Kinds, PutPlain, Zenon
  <2>8. At(Append(Append(Append(Append(a, "k"), "{"), "f"), "}"), 5, "}")
    BY <2>7, Numbers, Moves, Kinds, PutClose, Zenon
  <2>9. a \o item = Append(Append(Append(Append(a, "k"), "{"), "f"), "}")
    <3>1. a \in Seq(Token)
      BY <2>4, Nonempty, Zenon DEF At
    <3> QED
      BY <3>1, ItemTokens, Zenon
  <2> QED
    BY <2>3, <2>8, <2>9, Zenon
<1> QED
  BY <1>2, <1>3, Zenon DEF Continues

(* os_proc: one of the three lists, or none *)
LEMMA ListFits ==
  ASSUME NEW s, Listed(s), NEW read
  PROVE  Listed(ProcList(s, read))
<1> DEFINE item == <<"k", "{", "f", "}">>
<1>1. PICK y \in Braces : Continues(s.out, y) /\ LastChar(<<"{">> \o s.out) = y
  BY Zenon DEF Listed
<1>2. CASE read # "some"
  BY <1>2, Zenon DEF ProcList
<1>3. CASE read = "some"
  <2>1. PICK sep : sep = Sep(y # "{")
    BY Zenon
  <2>2. sep \in Seq(Token) /\ s.out \in Seq(Token)
    BY <1>1, <2>1, ShortSeqs, Kinds, Zenon DEF Sep, Continues
  <2>3. Continues(s.out \o sep \o item, "}")
    BY <1>1, <2>1, ItemFits, Zenon
  <2>4. LastChar(<<"{">> \o (s.out \o sep \o item)) = "}"
    <3>1. s.out \o sep \in Seq(Token)
      BY <2>2, Concats, Zenon
    <3> QED
      BY <3>1, ItemLast, Zenon
  <2>5. ProcList(s, read).out = s.out \o sep \o item
    BY <1>1, <1>3, <2>1, Zenon DEF ProcList, Gathered
  <2> QED
    BY <2>3, <2>4, <2>5, Zenon DEF Listed, Braces
<1> QED
  BY <1>2, <1>3, Zenon

(* os_proc leaves nothing, or lists with commas between them, wherever a   *)
(* popen fails.                                                            *)
LEMMA ProcFits ==
  ASSUME NEW cpu, NEW mem, NEW list
  PROVE  Listed(os_proc(cpu, mem, list))
<1>1. Listed(NoData)
  <2>1. NoData.out = <<>>
    BY Zenon DEF NoData, Gathered
  <2>2. \A z \in Token : LastChar(<<z>> \o <<>>) = z
    BY DEF LastChar
  <2> QED
    BY <2>1, <2>2, NothingFits, Kinds, Zenon DEF Listed, Braces
<1> DEFINE top == ProcList(NoData, cpu)
           both == ProcList(top, mem)
<1>2. Listed(top)
  BY <1>1, ListFits, Zenon
<1>3. Listed(ProcList(both, list))
  <2>1. Listed(both)
    BY <1>2, ListFits, Zenon
  <2> QED
    BY <2>1, ListFits, Zenon
<1>4. os_proc(cpu, mem, list) \in {NoData, top, ProcList(both, list)}
  BY Zenon DEF os_proc
<1> HIDE DEF top, both
<1> QED
  BY <1>1, <1>2, <1>3, <1>4, Zenon

(* Members or nothing *)
LEMMA MembersOut ==
  ASSUME NEW ok, NEW cond
  PROVE  SectionOut(Gathered(ok, When(cond, <<"f">>)))
<1>1. Gathered(ok, When(cond, <<"f">>)).out \in {<<>>, <<"f">>}
  BY Zenon DEF Gathered, When
<1> QED
  BY <1>1, NothingFits, MembersFit, Zenon DEF SectionOut, Ends

(* Whatever os_gather's commands yield, a section holds what fits in one. *)
LEMMA OsFits ==
  ASSUME NEW i \in 1..5, NEW sub \in os_section(i)
  PROVE  SectionOut(sub)
<1>1. \/ \E r \in Reads : sub \in {os_cpu(r), os_disk(r), os_memory(r), os_network(r)}
      \/ \E c, m, l \in Reads : sub = os_proc(c, m, l)
  BY DEF os_section
<1>2. CASE \E r \in Reads : sub \in {os_cpu(r), os_disk(r), os_memory(r), os_network(r)}
  <2>1. PICK r \in Reads : sub \in {os_cpu(r), os_disk(r), os_memory(r), os_network(r)}
    BY <1>2, Zenon
  <2>2. PICK ok \in BOOLEAN, cond \in BOOLEAN : sub = Gathered(ok, When(cond, <<"f">>))
    BY <2>1, Zenon DEF os_cpu, os_disk, os_memory, os_network
  <2> QED
    BY <2>2, MembersOut, Zenon
<1>3. CASE \E c, m, l \in Reads : sub = os_proc(c, m, l)
  BY <1>3, ProcFits, Zenon DEF Listed, SectionOut, Braces, Ends
<1> QED
  BY <1>1, <1>2, <1>3, Zenon

(* A token after a token *)
LEMMA TokenPair ==
  ASSUME NEW a \in Token, NEW b \in Token
  PROVE  <<a>> \o <<b>> = <<a, b>>
<1>1. <<a>> \o <<b>> \in Seq(Token) /\ <<a, b>> \in Seq(Token)
  OBVIOUS
<1>2. Len(<<a>> \o <<b>>) = 2 /\ Len(<<a, b>>) = 2
  OBVIOUS
<1>3. \A i \in 1..2 : (<<a>> \o <<b>>)[i] = <<a, b>>[i]
  OBVIOUS
<1> QED
  BY <1>1, <1>2, <1>3, SeqEqual, Zenon

(* The queries of each section of mysql_gather *)
LEMMA MysqlSection ==
  ASSUME NEW i \in 1..5, NEW sub \in mysql_section(i)
  PROVE  \/ i = 1 /\ \E q, r \in Status : sub = mysql_crud(q, r)
         \/ i = 2 /\ \E q \in Status, rows \in BOOLEAN, g \in Garbage : sub = mysql_query(q, rows, g)
         \/ i = 3 /\ \E q, r \in Status, ibuf \in BOOLEAN : sub = mysql_innodb(q, r, ibuf)
         \/ i = 4 /\ \E q \in Status, rows \in BOOLEAN, g \in Garbage : sub = mysql_thread(q, rows, g)
         \/ i = 5 /\ sub = mysql_replica
BY DEF mysql_section

(* What mysql_gather's queries need for its commas: every status query of  *)
(* the gather is answered, and the bytes that mysql_query and mysql_thread *)
(* print past the rows they read leave their strings whole.                *)
ServerAnswers == "mysql" \in Modules => ~Partial /\ Garbage \subseteq {"f"}

(* Then a section of mysql_gather holds members, with commas between them. *)
LEMMA MysqlFits ==
  ASSUME ~Partial, Garbage \subseteq {"f"}, NEW i \in 1..5, NEW sub \in mysql_section(i)
  PROVE  SectionOut(sub)
<1> DEFINE one == <<"f">>
           two == one \o <<",", "f">>
           three == two \o <<",", "f">>
<1>1. Continues(<<>>, "{") /\ Continues(one, "f") /\ Continues(two, "f") /\ Continues(three, "f")
  BY NothingFits, MembersFit, MoreMembersFit, Zenon
<1>2. two \o <<>> = two /\ one \o <<>> = one
  <2>1. two \in Seq(Token) /\ one \in Seq(Token)
    BY <1>1, Zenon DEF Continues
  <2> HIDE DEF one, two
  <2> QED
    BY <2>1, NoToken, Zenon
<1>3. <<",">> \o <<"f">> = <<",", "f">>
  <2>1. \A a, b \in Token : <<a>> \o <<b>> = <<a, b>>
    BY TokenPair, Zenon
  <2> QED
    BY <2>1, Kinds, Zenon
<1>4. sub.out \in {<<>>, one, two, three}
  <2>1. Status = {TRUE} /\ \A g \in Garbage : g = "f"
    BY Zenon DEF Status
  <2>2. \/ i = 1 /\ \E q, r \in Status : sub = mysql_crud(q, r)
        \/ i = 2 /\ \E q \in Status, rows \in BOOLEAN, g \in Garbage : sub = mysql_query(q, rows, g)
        \/ i = 3 /\ \E q, r \in Status, ibuf \in BOOLEAN : sub = mysql_innodb(q, r, ibuf)
        \/ i = 4 /\ \E q \in Status, rows \in BOOLEAN, g \in Garbage : sub = mysql_thread(q, rows, g)
        \/ i = 5 /\ sub = mysql_replica
    BY MysqlSection, Zenon
  <2>3. \A x : When(TRUE, x) = x /\ When(FALSE, x) = <<>> /\ Sep(TRUE) = <<",">>
    BY Zenon DEF When, Sep
  <2>4. CASE \E q, r \in Status : sub = mysql_crud(q, r)
    <3>1. sub = mysql_crud(TRUE, TRUE)
      BY <2>1, <2>4, Zenon
    <3>2. sub.out = When(TRUE, <<"f">>) \o When(TRUE, Sep(TRUE) \o <<"f">>)
      BY <3>1, Zenon DEF mysql_crud, Gathered
    <3> QED
      BY <1>3, <2>3, <3>2, Zenon
  <2>5. CASE \E q \in Status, rows \in BOOLEAN, g \in Garbage : sub = mysql_query(q, rows, g)
    <3>1. PICK rows \in BOOLEAN : sub = mysql_query(TRUE, rows, "f")
      BY <2>1, <2>5, Zenon
    <3>2. sub.out = When(TRUE, <<"f">>) \o When(rows, <<",", "f">>)
      BY <3>1, Zenon DEF mysql_query, Gathered
    <3> QED
      BY <1>2, <2>3, <3>2, Zenon
  <2>6. CASE \E q, r \in Status, ibuf \in BOOLEAN : sub = mysql_innodb(q, r, ibuf)
    <3>1. PICK ibuf \in BOOLEAN : sub = mysql_innodb(TRUE, TRUE, ibuf)
      BY <2>1, <2>6, Zenon
    <3>2. sub.out = When(TRUE, <<"f">>) \o When(TRUE, <<",", "f">>) \o When(ibuf, <<",", "f">>)
      BY <3>1, Zenon DEF mysql_innodb, Gathered
    <3> QED
      BY <1>2, <2>3, <3>2, Zenon
  <2>7. CASE \E q \in Status, rows \in BOOLEAN, g \in Garbage : sub = mysql_thread(q, rows, g)
    <3>1. PICK rows \in BOOLEAN : sub = mysql_thread(TRUE, rows, "f")
      BY <2>1, <2>7, Zenon
    <3>2. sub.out = When(TRUE, <<"f">>) \o When(rows, Sep(TRUE) \o <<"f">>)
      BY <3>1, Zenon DEF mysql_thread, Gathered
    <3> QED
      BY <1>2, <1>3, <2>3, <3>2, Zenon
  <2>8. CASE sub = mysql_replica
    BY <2>8, Zenon DEF mysql_replica, NoData, Gathered
  <2> QED
    BY <2>2, <2>4, <2>5, <2>6, <2>7, <2>8, Zenon
<1> HIDE DEF one, two, three
<1> QED
  BY <1>1, <1>4, Zenon DEF SectionOut, Ends

-----------------------------------------------------------------------------
(* Where the text of a packet stands between two gathers *)
Between(t) == At(t, 2, IF state = "WROTE" THEN "}" ELSE "[")

Gathering == section # NoSection

(* During a gather the text up to the rollback point is where it was       *)
(* between the gathers, and the rest of it is within "values".             *)
JInv ==
  /\ module \in Modules /\ section \in 0..(Sections + 1)
  /\ Gathering => state \in {"BEGIN", "WROTE"}
  /\ killed \/
       /\ ~Gathering /\ state \in {"BEGIN", "WROTE"} => Between(payload)
       /\ Gathering => Between(rollback) /\ \E y \in Braces : At(payload, 4, y)
       /\ state = "READY" => IsJson(payload)

(* A packet that was begun has its header, one that was written a record,  *)
(* and so has the text to which a gather may go back.                      *)
HInv ==
  /\ payload \in Seq(Token) /\ rollback \in Seq(Token)
  /\ module \in Modules /\ section \in 0..(Sections + 1)
  /\ ~Gathering /\ state \in {"BEGIN", "WROTE"} => Len(payload) >= 5
  /\ ~Gathering /\ state = "WROTE" => Len(payload) > 5
  /\ Gathering => /\ state \in {"BEGIN", "WROTE"}
                  /\ Len(payload) > 5 /\ Len(rollback) >= 5
                  /\ state = "WROTE" => Len(rollback) > 5
  /\ SealedHasRecord

(* The sections are numbered from 1. *)
LEMMA SectionNumbers ==
  /\ NoSection \in 0..(Sections + 1)
  /\ 1 \in 0..(Sections + 1) /\ 1 # NoSection
  /\ Sections + 1 \in 0..(Sections + 1) /\ Sections + 1 # NoSection
  /\ \A i \in 1..Sections : i # NoSection /\ i + 1 \in 0..(Sections + 1) /\ i + 1 # NoSection
  /\ 1..Sections = 1..5
BY DEF NoSection, Sections

(* What a section may read fits in one, when the server answers. *)
LEMMA ReadingFits ==
  ASSUME ServerAnswers, module \in Modules, section \in 1..Sections, NEW sub \in Readings
  PROVE  SectionOut(sub)
<1>1. section \in 1..5
  BY SectionNumbers, Zenon
<1>2. CASE module = "os"
  <2>1. sub \in os_section(section)
    BY <1>2, Zenon DEF Readings
  <2> QED
    BY <1>1, <2>1, OsFits, Zenon
<1>3. CASE module # "os"
  <2>1. sub \in mysql_section(section) /\ module = "mysql"
    BY <1>3, PayloadAssumption, Zenon DEF Readings
  <2>2. ~Partial /\ Garbage \subseteq {"f"}
    BY <2>1, Zenon DEF ServerAnswers
  <2> QED
    BY <1>1, <2>1, <2>2, MysqlFits, Zenon
<1> QED
  BY <1>2, <1>3, Zenon

(* plugin_gather, up to the call of p->gather *)
LEMMA BeginJ ==
  ASSUME JInv, Begin
  PROVE  JInv'
<1>1. /\ state \in {"EMPTY", "BEGIN", "WROTE"} /\ section = NoSection
      /\ state' = IF state = "EMPTY" THEN "BEGIN" ELSE state
      /\ rollback' = Begun /\ payload' = Opened(RecordHead) /\ section' = 1
      /\ module' = module /\ killed' = killed
  BY Zenon DEF Begin
<1>2. state' \in {"BEGIN", "WROTE"} /\ (state' = "WROTE" <=> state = "WROTE")
  BY <1>1, Zenon
<1>3. ASSUME ~killed
      PROVE  Between(rollback)' /\ \E y \in Braces : At(payload', 4, y)
  <2>1. At(Begun, 2, IF state = "WROTE" THEN "}" ELSE "[")
    <3>1. CASE state = "EMPTY"
      BY <3>1, HeaderAt, Zenon DEF Begun
    <3>2. CASE state # "EMPTY"
      BY <1>1, <1>3, <3>2, Zenon DEF Begun, JInv, Gathering, Between
    <3> QED
      BY <3>1, <3>2, Zenon
  <2>2. At(RecordHead, 3, ",")
    <3>1. PICK cont \in BOOLEAN : cont = (state = "WROTE")
      BY Zenon
    <3> QED
      BY <2>1, <3>1, RecordHeadAt, Zenon DEF RecordHead
  <2>3. At(Opened(RecordHead), 4, "{")
    <3>1. 3 \in 3..5 /\ 3 + 1 = 4
      OBVIOUS
    <3> QED
      BY <2>2, <3>1, OpenedAt, Zenon DEF Nexts
  <2> QED
    BY <1>1, <1>2, <2>1, <2>3, Zenon DEF Between, Braces
<1> QED
  BY <1>1, <1>2, <1>3, SectionNumbers, Zenon DEF JInv, Gathering

(* packet_gather of one section *)
LEMMA ReadJ ==
  ASSUME ServerAnswers, JInv, Read
  PROVE  JInv'
<1>1. /\ section \in 1..Sections /\ section' = section + 1
      /\ UNCHANGED <<module, rollback, state, killed>>
  BY Zenon DEF Read
<1>2. PICK sub \in Readings : \/ payload' = Opened(payload) \o sub.out \o <<"}">>
                              \/ payload' = payload
  BY Zenon DEF Read
<1>3. Gathering /\ Gathering' /\ section' \in 0..(Sections + 1)
  BY <1>1, SectionNumbers, Zenon DEF Gathering
<1>4. ASSUME ~killed
      PROVE  \E y \in Braces : At(payload', 4, y)
  <2>1. PICK y \in Braces : At(payload, 4, y)
    BY <1>3, <1>4, Zenon DEF JInv
  <2>2. CASE payload' = payload
    BY <2>1, <2>2, Zenon
  <2>3. CASE payload' = Opened(payload) \o sub.out \o <<"}">>
    <3>1. At(Opened(payload), 5, "{")
      <4>1. 4 \in 3..5 /\ 4 + 1 = 5
        OBVIOUS
      <4>2. y \in Nexts
        BY Zenon DEF Braces, Nexts
      <4> QED
        BY <2>1, <4>1, <4>2, OpenedAt, Zenon
    <3>2. PICK z \in Ends : Continues(sub.out, z)
      BY <1>1, ReadingFits, Zenon DEF JInv, SectionOut
    <3>3. At(Opened(payload) \o sub.out, 5, z)
      BY <3>1, <3>2, Zenon DEF Continues
    <3>4. At(payload', 4, "}")
      BY <2>3, <3>2, <3>3, SectionClosed, Zenon
    <3> QED
      BY <3>4, Zenon DEF Braces
  <2> QED
    BY <1>2, <2>2, <2>3, Zenon
<1> QED
  BY <1>1, <1>3, <1>4, Zenon DEF JInv, Gathering, Between

(* plugin_gather, from the return of p->gather *)
LEMMA EndJ ==
  ASSUME JInv, NEW expired \in BOOLEAN, End(expired)
  PROVE  JInv'
<1>1. /\ section = Sections + 1 /\ section' = NoSection
      /\ module' = module /\ killed' = killed
      /\ state' = IF ~expired THEN StateWritten ELSE IF StateWritten = "WROTE" THEN "READY" ELSE "DONE"
      /\ payload' = Written \o When(expired /\ StateWritten = "WROTE", <<"]", "}">>)
  BY Zenon DEF End
<1>2. Gathering /\ ~Gathering' /\ section' \in 0..(Sections + 1)
  BY <1>1, SectionNumbers, Zenon DEF Gathering
<1>3. StateWritten \in {"BEGIN", "WROTE"}
  BY <1>2, Zenon DEF JInv, StateWritten
<1>4. ASSUME ~killed
      PROVE  /\ state' \in {"BEGIN", "WROTE"} => Between(payload)'
             /\ state' = "READY" => IsJson(payload')
  <2>1. At(Written, 2, IF StateWritten = "WROTE" THEN "}" ELSE "[")
    <3>1. CASE err = ENONE
      <4>1. PICK y \in Braces : At(payload, 4, y)
        BY <1>2, <1>4, Zenon DEF JInv
      <4>2. At(payload \o <<"}", "}">>, 2, "}")
        BY <4>1, RecordClosed, Zenon DEF Braces, Ends
      <4> QED
        BY <3>1, <4>2, Zenon DEF Written, StateWritten
    <3>2. CASE err # ENONE
      BY <1>2, <1>4, <3>2, Zenon DEF JInv, Between, Written, StateWritten
    <3> QED
      BY <3>1, <3>2, Zenon
  <2>2. Written \o <<>> = Written
    BY <2>1, Nonempty, NoToken, Zenon DEF At
  <2>3. CASE expired /\ StateWritten = "WROTE"
    <3>1. IsJson(Written \o <<"]", "}">>)
      BY <2>1, <2>3, Sealed, Zenon
    <3> QED
      BY <1>1, <2>3, <3>1, Zenon DEF When
  <2>4. CASE ~(expired /\ StateWritten = "WROTE")
    <3>1. payload' = Written
      BY <1>1, <2>2, <2>4, Zenon DEF When
    <3>2. CASE expired
      BY <1>1, <2>4, <3>2, Zenon
    <3>3. CASE ~expired
      BY <1>1, <1>3, <2>1, <3>1, <3>3, Zenon DEF Between
    <3> QED
      BY <3>2, <3>3, Zenon
  <2> QED
    BY <2>3, <2>4, Zenon
<1> QED
  BY <1>1, <1>2, <1>4, Zenon DEF JInv

(* The packet of plugin_gather is always where the next tokens fit. *)
LEMMA JInvStep ==
  ASSUME ServerAnswers, JInv, [Next]_vars
  PROVE  JInv'
<1>1. CASE Begin
  BY <1>1, BeginJ, Zenon
<1>2. CASE NoPing
  BY <1>2, SectionNumbers, Zenon DEF NoPing, JInv, Gathering, Between
<1>3. CASE Read
  BY <1>3, ReadJ, Zenon
<1>4. CASE Killed
  BY <1>4, SectionNumbers, Zenon DEF Killed, JInv, Gathering
<1>5. CASE Recycle
  BY <1>5, Zenon DEF Recycle, JInv, Gathering, gather
<1>6. CASE \E expired \in BOOLEAN : End(expired)
  BY <1>6, EndJ, Zenon
<1>7. CASE UNCHANGED vars
  BY <1>7, Zenon DEF vars, gather, JInv, Gathering, Between
<1> QED
  BY <1>1, <1>2, <1>3, <1>4, <1>5, <1>6, <1>7, Zenon DEF Next

(* Whatever commands fail or yield nothing and however many gathers a      *)
(* packet takes, its text is one that "]}" completes to JSON, and JSON     *)
(* once it is sealed, unless a gather was cut short: for every choice of   *)
(* modules, if the MySQL server answers.                                   *)
THEOREM PayloadIsJsonAlways ==
  ASSUME ServerAnswers
  PROVE  Spec => []PayloadIsJson
<1>1. Init => JInv
  BY SectionNumbers, Zenon DEF Init, JInv, Gathering
<1>2. JInv /\ [Next]_vars => JInv'
  BY JInvStep, Zenon
<1>3. JInv => PayloadIsJson
  <2> SUFFICES ASSUME JInv, ~killed, ~Gathering
               PROVE  PayloadIsJson
    BY Zenon DEF PayloadIsJson, Gathering
  <2>1. ASSUME state \in {"BEGIN", "WROTE"}
        PROVE  IsJson(payload \o <<"]", "}">>)
    BY <2>1, Sealed, Zenon DEF JInv, Between
  <2> QED
    BY <2>1, Zenon DEF JInv, PayloadIsJson
<1> QED
  BY <1>1, <1>2, <1>3, PTL DEF Spec

-----------------------------------------------------------------------------
(* What a section reads is tokens, whether the server answers or not. *)
LEMMA WhenTokens ==
  ASSUME NEW s \in Seq(Token), NEW cond
  PROVE  When(cond, s) \in Seq(Token)
BY ShortSeqs, Zenon DEF When

(* The sections of mysql_gather write tokens, whatever queries fail. *)
LEMMA MysqlTokens ==
  ASSUME NEW i \in 1..5, NEW sub \in mysql_section(i)
  PROVE  sub.out \in Seq(Token)
<1>1. /\ <<"f">> \in Seq(Token) /\ <<",", "f">> \in Seq(Token) /\ <<>> \in Seq(Token)
      /\ \A cond : Sep(cond) \in Seq(Token)
      /\ \A g \in Garbage : <<g>> \in Seq(Token) /\ <<",", g>> \in Seq(Token)
  <2>1. \A g \in Garbage : g \in Token
    BY PayloadAssumption, Zenon DEF Token
  <2> QED
    BY <2>1, ShortSeqs, Kinds, Zenon DEF Sep
<1>2. \A r, s \in Seq(Token) : r \o s \in Seq(Token)
  BY Concats, Zenon
<1>3. \A s \in Seq(Token), cond \in BOOLEAN : When(cond, s) \in Seq(Token)
  BY WhenTokens, Zenon
<1>4. CASE \E q, r \in Status : sub = mysql_crud(q, r)
  <2>1. PICK q, r \in BOOLEAN : sub = mysql_crud(q, r)
    BY <1>4, Zenon DEF Status
  <2>2. Sep(q) \o <<"f">> \in Seq(Token)
    BY <1>1, <1>2, Zenon
  <2>3. When(q, <<"f">>) \o When(r, Sep(q) \o <<"f">>) \in Seq(Token)
    BY <1>1, <1>2, <1>3, <2>2, Zenon
  <2> QED
    BY <2>1, <2>3, Zenon DEF mysql_crud, Gathered
<1>5. CASE \E q \in Status, rows \in BOOLEAN, g \in Garbage : sub = mysql_query(q, rows, g)
  <2>1. PICK q, rows \in BOOLEAN, g \in Garbage : sub = mysql_query(q, rows, g)
    BY <1>5, Zenon DEF Status
  <2>2. When(q, <<"f">>) \o When(rows, <<",", g>>) \in Seq(Token)
    BY <1>1, <1>2, <1>3, Zenon
  <2> QED
    BY <2>1, <2>2, Zenon DEF mysql_query, Gathered
<1>6. CASE \E q, r \in Status, ibuf \in BOOLEAN : sub = mysql_innodb(q, r, ibuf)
  <2>1. PICK q, r, ibuf \in BOOLEAN : sub = mysql_innodb(q, r, ibuf)
    BY <1>6, Zenon DEF Status
  <2>2. When(q, <<"f">>) \o When(r, <<",", "f">>) \o When(ibuf, <<",", "f">>) \in Seq(Token)
    BY <1>1, <1>2, <1>3, Zenon
  <2> QED
    BY <2>1, <2>2, Zenon DEF mysql_innodb, Gathered
<1>7. CASE \E q \in Status, rows \in BOOLEAN, g \in Garbage : sub = mysql_thread(q, rows, g)
  <2>1. PICK q, rows \in BOOLEAN, g \in Garbage : sub = mysql_thread(q, rows, g)
    BY <1>7, Zenon DEF Status
  <2>2. Sep(q) \o <<g>> \in Seq(Token)
    BY <1>1, <1>2, Zenon
  <2>3. When(q, <<"f">>) \o When(rows, Sep(q) \o <<g>>) \in Seq(Token)
    BY <1>1, <1>2, <1>3, <2>2, Zenon
  <2> QED
    BY <2>1, <2>3, Zenon DEF mysql_thread, Gathered
<1>8. CASE sub = mysql_replica
  BY <1>1, <1>8, Zenon DEF mysql_replica, NoData, Gathered
<1> QED
  BY <1>4, <1>5, <1>6, <1>7, <1>8, MysqlSection, Zenon

(* A section writes tokens. *)
LEMMA ReadingTokens ==
  ASSUME module \in Modules, section \in 1..Sections, NEW sub \in Readings
  PROVE  sub.out \in Seq(Token)
<1>1. section \in 1..5
  BY SectionNumbers, Zenon
<1>2. sub \in os_section(section) \/ sub \in mysql_section(section)
  BY Zenon DEF Readings
<1> QED
  BY <1>1, <1>2, OsFits, MysqlTokens, Zenon DEF SectionOut, Continues

(* Appending makes a text no shorter. *)
LEMMA Longer ==
  ASSUME NEW t \in Seq(Token), NEW r \in Seq(Token)
  PROVE  t \o r \in Seq(Token) /\ Len(t \o r) = Len(t) + Len(r) /\ Len(t) \in Nat /\ Len(r) \in Nat
OBVIOUS

(* Nor does appending twice. *)
LEMMA LongerTwice ==
  ASSUME NEW t \in Seq(Token), NEW r \in Seq(Token), NEW s \in Seq(Token)
  PROVE  t \o r \o s \in Seq(Token) /\ Len(t \o r \o s) >= Len(t) + Len(s)
<1>1. t \o r \in Seq(Token) /\ Len(t \o r) = Len(t) + Len(r) /\ Len(t) \in Nat /\ Len(r) \in Nat
  BY Longer, Zenon
<1>2. t \o r \o s \in Seq(Token) /\ Len(t \o r \o s) = Len(t \o r) + Len(s) /\ Len(s) \in Nat
  BY <1>1, Longer, Zenon
<1> QED
  BY <1>1, <1>2

(* The tokens that plugin_gather and packet_gather append *)
LEMMA Pieces ==
  /\ Header \in Seq(Token) /\ Len(Header) = 5
  /\ <<"}">> \in Seq(Token)
  /\ <<"k", "{">> \in Seq(Token) /\ Len(<<"k", "{">>) = 2
  /\ <<"}", "}">> \in Seq(Token) /\ Len(<<"}", "}">>) = 2
  /\ <<"]", "}">> \in Seq(Token) /\ Len(<<"]", "}">>) = 2
  /\ <<"{", "f", ",">> \in Seq(Token) /\ Len(<<"{", "f", ",">>) = 3
  /\ \A cond : Sep(cond) \in Seq(Token)
<1>1. /\ \A a, b \in Token : <<a, b>> \in Seq(Token) /\ Len(<<a, b>>) = 2
      /\ \A a, b, c \in Token : <<a, b, c>> \in Seq(Token) /\ Len(<<a, b, c>>) = 3
      /\ \A a, b, c, d, e : Len(<<a, b, c, d, e>>) = 5
  OBVIOUS
<1>2. Header \in Seq(Token) /\ Len(Header) = 5
  BY <1>1, HeaderAt, Nonempty, Zenon DEF Header, At
<1>3. \A cond : Sep(cond) \in Seq(Token)
  BY ShortSeqs, Kinds, Zenon DEF Sep
<1>4. "{" \in Token /\ "f" \in Token /\ "," \in Token
  BY Kinds, Zenon
<1>5. <<"{", "f", ",">> \in Seq(Token) /\ Len(<<"{", "f", ",">>) = 3
  BY <1>1, <1>4, Zenon
<1> QED
  BY <1>1, <1>2, <1>3, <1>5, ShortSeqs, Kinds, Zenon

(* packet_gather only appends. *)
LEMMA OpenedLonger ==
  ASSUME NEW t \in Seq(Token)
  PROVE  Opened(t) \in Seq(Token) /\ Len(Opened(t)) >= Len(t)
<1>1. PICK r, s \in Seq(Token) : Opened(t) = t \o r \o s
  BY Pieces, Zenon DEF Opened
<1> QED
  BY <1>1

(* plugin_gather, up to the call of p->gather: the header and the head of  *)
(* a record are there.                                                     *)
LEMMA BeginH ==
  ASSUME HInv, Begin
  PROVE  HInv'
<1>1. /\ state \in {"EMPTY", "BEGIN", "WROTE"} /\ ~Gathering
      /\ state' = IF state = "EMPTY" THEN "BEGIN" ELSE state
      /\ rollback' = Begun /\ payload' = Opened(RecordHead) /\ section' = 1
      /\ module' = module
  BY Zenon DEF Begin, Gathering
<1>2. Begun \in Seq(Token) /\ Len(Begun) >= 5 /\ (state = "WROTE" => Len(Begun) > 5)
  <2>1. CASE state = "EMPTY"
    <3>1. 5 >= 5
      OBVIOUS
    <3> QED
      BY <2>1, <3>1, Pieces, Zenon DEF Begun
  <2>2. CASE state # "EMPTY"
    BY <1>1, <2>2, Zenon DEF Begun, HInv
  <2> QED
    BY <2>1, <2>2, Zenon
<1>3. RecordHead \in Seq(Token) /\ Len(RecordHead) > 5
  <2>1. PICK r, s \in Seq(Token) : RecordHead = Begun \o r \o s /\ Len(s) = 3
    BY Pieces, Zenon DEF RecordHead
  <2>2. Begun \o r \o s \in Seq(Token) /\ Len(Begun \o r \o s) >= Len(Begun) + Len(s)
    BY <1>2, LongerTwice, Zenon
  <2>3. RecordHead \in Seq(Token) /\ Len(RecordHead) >= Len(Begun) + 3
    BY <2>1, <2>2, Zenon
  <2>4. Begun \in Seq(Token) /\ Len(Begun) >= 5
    BY <1>2, Zenon
  <2> QED
    BY <2>3, <2>4
<1>4. payload' \in Seq(Token) /\ Len(payload') > 5
  <2>1. payload' \in Seq(Token) /\ Len(payload') >= Len(RecordHead)
    BY <1>1, <1>3, OpenedLonger, Zenon
  <2> QED
    BY <1>3, <2>1
<1>5. Gathering' /\ section' \in 0..(Sections + 1)
  BY <1>1, SectionNumbers, Zenon DEF Gathering
<1> QED
  BY <1>1, <1>2, <1>4, <1>5, Zenon DEF HInv, SealedHasRecord

(* packet_gather of one section appends to the record. *)
LEMMA ReadH ==
  ASSUME HInv, Read
  PROVE  HInv'
<1>1. /\ section \in 1..Sections /\ section' = section + 1
      /\ UNCHANGED <<module, rollback, state>>
  BY Zenon DEF Read
<1>2. PICK sub \in Readings : \/ payload' = Opened(payload) \o sub.out \o <<"}">>
                              \/ payload' = payload
  BY Zenon DEF Read
<1>3. Gathering /\ Gathering' /\ section' \in 0..(Sections + 1)
  BY <1>1, SectionNumbers, Zenon DEF Gathering
<1>4. payload \in Seq(Token) /\ Len(payload) > 5
  BY <1>3, Zenon DEF HInv
<1>5. payload' \in Seq(Token) /\ Len(payload') > 5
  <2>1. sub.out \in Seq(Token)
    BY <1>1, ReadingTokens, Zenon DEF HInv
  <2>2. Opened(payload) \in Seq(Token) /\ Len(Opened(payload)) >= Len(payload)
    BY <1>4, OpenedLonger, Zenon
  <2>3. payload' = payload \/ \E r, s \in Seq(Token) : payload' = Opened(payload) \o r \o s
    BY <1>2, <2>1, Pieces, Zenon
  <2>4. ASSUME NEW r \in Seq(Token), NEW s \in Seq(Token), payload' = Opened(payload) \o r \o s
        PROVE  payload' \in Seq(Token) /\ Len(payload') > 5
    <3>1. payload' \in Seq(Token) /\ Len(payload') >= Len(Opened(payload)) + Len(s)
      BY <2>2, <2>4, LongerTwice, Zenon
    <3> QED
      BY <1>4, <2>2, <3>1
  <2> QED
    BY <1>4, <2>3, <2>4, Zenon
<1> QED
  BY <1>1, <1>3, <1>5, Zenon DEF HInv, SealedHasRecord

(* plugin_gather, from the return of p->gather: a packet is sealed only if *)
(* this gather or one before it left a record.                             *)
LEMMA EndH ==
  ASSUME HInv, NEW expired \in BOOLEAN, End(expired)
  PROVE  HInv'
<1>1. /\ section = Sections + 1 /\ section' = NoSection
      /\ module' = module /\ rollback' = rollback
      /\ state' = IF ~expired THEN StateWritten ELSE IF StateWritten = "WROTE" THEN "READY" ELSE "DONE"
      /\ payload' = Written \o When(expired /\ StateWritten = "WROTE", <<"]", "}">>)
  BY Zenon DEF End
<1>2. Gathering /\ ~Gathering' /\ section' \in 0..(Sections + 1)
  BY <1>1, SectionNumbers, Zenon DEF Gathering
<1>3. StateWritten \in {"BEGIN", "WROTE"}
  BY <1>2, Zenon DEF HInv, StateWritten
<1>4. Written \in Seq(Token) /\ Len(Written) >= 5 /\ (StateWritten = "WROTE" => Len(Written) > 5)
  <2>1. CASE err = ENONE
    <3>1. PICK s \in Seq(Token) : Written = payload \o s
      BY <2>1, Pieces, Zenon DEF Written
    <3>2. payload \in Seq(Token) /\ Len(payload) > 5
      BY <1>2, Zenon DEF HInv
    <3> QED
      BY <3>1, <3>2
  <2>2. CASE err # ENONE
    BY <1>2, <2>2, Zenon DEF HInv, Written, StateWritten
  <2> QED
    BY <2>1, <2>2, Zenon
<1>5. CASE expired /\ StateWritten = "WROTE"
  <2>1. PICK s \in Seq(Token) : payload' = Written \o s /\ Len(s) = 2
    BY <1>1, <1>5, Pieces, Zenon DEF When
  <2>2. payload' \in Seq(Token) /\ Len(payload') > 5 + 2
    <3>1. Len(Written) > 5
      BY <1>4, <1>5, Zenon
    <3>2. payload' \in Seq(Token) /\ Len(payload') = Len(Written) + 2 /\ Len(Written) \in Nat
      BY <1>4, <2>1, Longer, Zenon
    <3> QED
      BY <3>1, <3>2
  <2>3. state' = "READY"
    BY <1>1, <1>5, Zenon
  <2> QED
    BY <1>1, <1>2, <2>2, <2>3, Pieces, Zenon DEF HInv, SealedHasRecord
<1>6. CASE ~(expired /\ StateWritten = "WROTE")
  <2>1. payload' = Written
    BY <1>1, <1>4, <1>6, NoToken, Zenon DEF When
  <2>2. state' # "READY" /\ (state' = "WROTE" => StateWritten = "WROTE")
    BY <1>1, <1>3, <1>6, Zenon
  <2> QED
    BY <1>1, <1>2, <1>4, <2>1, <2>2, Zenon DEF HInv, SealedHasRecord
<1> QED
  BY <1>5, <1>6, Zenon

(* A gather that is cut short leaves its packet as long as it was. *)
LEMMA KilledH ==
  ASSUME HInv, Killed
  PROVE  HInv'
<1>1. /\ section \in 1..Sections /\ section' = NoSection /\ payload' \in {payload, Opened(payload)}
      /\ UNCHANGED <<module, rollback, state>>
  BY Zenon DEF Killed
<1>2. Gathering /\ ~Gathering' /\ section' \in 0..(Sections + 1)
  BY <1>1, SectionNumbers, Zenon DEF Gathering
<1>3. payload \in Seq(Token) /\ Len(payload) > 5 /\ rollback \in Seq(Token) /\ state \in {"BEGIN", "WROTE"}
  BY <1>2, Zenon DEF HInv
<1>4. payload' \in Seq(Token) /\ Len(payload') >= Len(payload)
  <2>1. Len(payload) >= Len(payload)
    BY <1>3
  <2>2. Opened(payload) \in Seq(Token) /\ Len(Opened(payload)) >= Len(payload)
    BY <1>3, OpenedLonger, Zenon
  <2> QED
    BY <1>1, <1>3, <2>1, <2>2, Zenon
<1>5. Len(payload') >= 5 /\ Len(payload') > 5
  BY <1>3, <1>4
<1>6. module' \in Modules /\ state' # "READY"
  BY <1>1, <1>3, Zenon DEF HInv
<1> QED
  BY <1>1, <1>2, <1>3, <1>4, <1>5, <1>6, Zenon DEF HInv, SealedHasRecord

(* A packet that goes to the sender has a record, whatever fails, is cut   *)
(* short or is taken back: one without is dropped.                         *)
THEOREM SealedHasRecordAlways == Spec => []SealedHasRecord
<1>1. Init => HInv
  BY SectionNumbers, ShortSeqs, Zenon DEF Init, HInv, Gathering, SealedHasRecord
<1>2. HInv /\ [Next]_vars => HInv'
  <2> SUFFICES ASSUME HInv, [Next]_vars
               PROVE  HInv'
    BY Zenon
  <2>1. CASE Begin
    BY <2>1, BeginH, Zenon
  <2>2. CASE NoPing
    BY <2>2, SectionNumbers, Zenon DEF NoPing, HInv, Gathering, SealedHasRecord
  <2>3. CASE Read
    BY <2>3, ReadH, Zenon
  <2>4. CASE Killed
    BY <2>4, KilledH, Zenon
  <2>5. CASE Recycle
    BY <2>5, ShortSeqs, Zenon DEF Recycle, HInv, Gathering, gather, SealedHasRecord
  <2>6. CASE \E expired \in BOOLEAN : End(expired)
    BY <2>6, EndH, Zenon
  <2>7. CASE UNCHANGED vars
    BY <2>7, Zenon DEF vars, gather, HInv, Gathering, SealedHasRecord
  <2> QED
    BY <2>1, <2>2, <2>3, <2>4, <2>5, <2>6, <2>7, Zenon DEF Next
<1>3. HInv => SealedHasRecord
  BY Zenon DEF HInv
<1> QED
  BY <1>1, <1>2, <1>3, PTL DEF Spec
==============================================================================
