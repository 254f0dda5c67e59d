------------------------------ MODULE ConfFile -------------------------------
(***************************************************************************)
(* What plugin.conf means.  The lines with '>' divide a file into blocks,  *)
(* blank lines and comments do not count, and a block is one of            *)
(*   '<'type  {'-'ON}  '>'                                                 *)
(*   '<'type  {'-'ON}  '!'name  '-'argument  {'-'argument}  '>'            *)
(*   '<'type  {'-'ON}  '-'OFF  anything  '>'                               *)
(*   '<'unknown type  anything  '>'                                        *)
(* where the last one may be cut short.  A block is known by the set of    *)
(* its lines, by number.                                                   *)
(***************************************************************************)
EXTENDS Sparser

(* The block of c that line n is in: the lines from the last '>' on *)
Block(c, n) ==
  {k \in 1..n : c[k] \notin {"blank", "ioerror"} /\ \A m \in k..n : c[m] \notin Closes}

(* Does block b begin with line h? *)
Begins(b, h) == h \in b /\ \A k \in b : h <= k

(* '<'type {'-'ON} *)
Bare(c, b) == \E h \in b : Begins(b, h) /\ c[h] \in Types /\ \A k \in b : k = h \/ c[k] = "on"

(* '<'type {'-'ON} '!'name {'-'argument} *)
Named(c, b) ==
  \E h, n \in b :
    /\ Begins(b, h) /\ c[h] \in Types /\ c[n] = "bang"
    /\ \A k \in b : k = h \/ k = n \/ (k < n /\ c[k] = "on") \/ (n < k /\ c[k] \in Dashes)

(* '<'unknown type anything, or '<'type {'-'ON} '-'OFF anything *)
Off(c, b) ==
  \E h, o \in b :
    /\ Begins(b, h)
    /\ \/ c[h] = "alien"
       \/ c[h] \in Types /\ c[o] = "off" /\ \A k \in b : k = h \/ o <= k \/ c[k] = "on"

(* The lines with an argument *)
Args(c, b) == {k \in b : \E n \in b : n < k /\ c[n] = "bang"}

Whole(c, b) == Off(c, b) \/ Bare(c, b) \/ (Named(c, b) /\ Args(c, b) # {})
Begun(c, b) == b = {} \/ Off(c, b) \/ Bare(c, b) \/ Named(c, b)

(* Is there a plugin to load? *)
Loading(c, b) ==
  /\ ~Off(c, b) /\ Whole(c, b)
  /\ \/ \E h \in b : Begins(b, h) /\ c[h] = "os"
     \/ \E k \in b : Args(c, b) = {k} /\ c[k] = "target"

(* The lines with '>' at which a plugin is loaded *)
Loaded(c) == {e \in 1..Len(c) : c[e] = "close" /\ Loading(c, Block(c, e - 1))}

(* Does c follow the grammar, as far as it goes? *)
Follows(c) ==
  /\ \A e \in 1..Len(c) : c[e] \in Closes => Whole(c, Block(c, e - 1))
  /\ Begun(c, Block(c, Len(c)))

(* Do the arrays hold what c asks for? *)
Holds(c) ==
  /\ Cardinality(Loaded(c)) <= MaxPlugins
  /\ \A e \in 1..(Len(c) + 1) :
       LET b == Block(c, e - 1)
       IN  (e = Len(c) + 1 \/ c[e] \in Closes) => Off(c, b) \/ Cardinality(Args(c, b)) <= MaxArgs

Rank(K, k) == Cardinality({m \in K : m <= k})

(* s are the arguments in lines K, in their order. *)
ArgsAre(c, K, s) == Len(s) = Cardinality(K) /\ \A k \in K : s[Rank(K, k)] = c[k]

(* p is the plugin of block b. *)
PluginIs(c, b, p) ==
  (\E h \in b : Begins(b, h) /\ p.type = c[h]) /\ ArgsAre(c, Args(c, b), p.args)

(* s are the plugins of the blocks that end in lines E, in their order. *)
PluginsAre(c, E, s) ==
  Len(s) = Cardinality(E) /\ \A e \in E : PluginIs(c, Block(c, e - 1), s[Rank(E, e)])

(* sparse: when it returns, it has loaded what the blocks of the file ask  *)
(* for, in their order, each with the arguments of its own block.  It      *)
(* fails exactly on a file that cannot be opened or does not follow the    *)
(* grammar and on a read error inside of a block that it skips, and leaves *)
(* its arrays exactly if they are too small.                               *)
ConfMeaning ==
  result # "reading" =>
    LET broken == conf # <<>> /\ conf[Len(conf)] = "ioerror" /\ Off(conf, Block(conf, Len(conf)))
        missed == IF result = "overrun" THEN {Len(conf)} ELSE {}
    IN  /\ result = "ok" <=> Follows(conf) /\ Holds(conf) /\ ~broken
        /\ result = "overrun" <=> Follows(conf) /\ ~Holds(conf)
        /\ PluginsAre(conf, Loaded(conf) \ missed, plugins)
==============================================================================
