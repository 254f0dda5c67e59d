------------------------------- MODULE Sparser -------------------------------
(***************************************************************************)
(* sparse (sparser.c), which reads plugin.conf line by line and loads a    *)
(* plugin for every block that is switched on.  A line is known by its     *)
(* first character and by what the code tells apart in the word behind it: *)
(*   "blank"               a comment or an empty line                      *)
(*   "os", "mysql"         '<' and a plugin type whose library is there    *)
(*   "alien"               '<' and a type that cannot be loaded            *)
(*   "on", "off"           '-' and a switch                                *)
(*   "target"              '-' and the address of a database               *)
(*                         ('-' alone finds an old word and is one of the  *)
(*                         three)                                          *)
(*   "bang"                '!' and a name, which is not looked at          *)
(*   "close"               '>'                                             *)
(*   "nomem"               '>' at which plugin_init fails                  *)
(*   "word"                anything else                                   *)
(*   "ioerror"             no line: fgets fails                            *)
(*   "nofile"              no line: fopen fails                            *)
(* A line of more than BFSZ-1 characters is read as several lines.         *)
(***************************************************************************)
EXTENDS Naturals, Sequences, FiniteSets

CONSTANTS
  MaxLines,    (* bound on the lines of the file                           *)
  MaxArgs,     (* size of argv (10)                                        *)
  MaxPlugins   (* size of plugins, MAX_PLUGINS in agent.c (5)              *)

ASSUME SparserAssumption ==
  MaxLines \in Nat /\ MaxArgs \in Nat \ {0} /\ MaxPlugins \in Nat \ {0}

VARIABLES
  conf,        (* the lines read so far                                    *)
  status,      (* status                                                   *)
  skipping,    (* in skip_until(conf, '>')                                 *)
  type,        (* type, and with it load                                   *)
  argv,        (* argv[0 .. argc-1]                                        *)
  plugins,     (* plugins[0 .. n-1]: type and arguments                    *)
  result       (* "reading", or how sparse ended: "ok" returns n, "error"  *)
               (* returns -1, "overrun" has written past an array          *)

block == <<status, skipping, type, argv>>
vars  == <<conf, block, plugins, result>>

Types  == {"os", "mysql"}
Dashes == {"on", "off", "target"}
Closes == {"close", "nomem"}
Lines  == Types \cup Dashes \cup Closes \cup {"blank", "alien", "bang", "word"}

Init ==
  /\ conf = <<>> /\ plugins = <<>> /\ result = "reading"
  /\ status = "NONE" /\ skipping = FALSE /\ type = "os" /\ argv = <<>>

-----------------------------------------------------------------------------
Fgets(l) ==
  /\ result = "reading" /\ Len(conf) < MaxLines
  /\ conf' = Append(conf, l)

(* fclose(conf); return -1 *)
Fail == result' = "error" /\ UNCHANGED <<block, plugins>>

Enter(s) == status' = s /\ UNCHANGED <<skipping, type, argv, plugins, result>>

(* skip_until: every line up to the next '>', whatever block that closes *)
Skip(l) ==
  /\ skipping
  /\ skipping' = (l \notin Closes)
  /\ UNCHANGED <<status, type, argv, plugins, result>>

Blank(l) == l = "blank" /\ UNCHANGED <<block, plugins, result>>

(* Mutant: the arguments of the block before are kept. *)
OpenKeep(l) ==
  /\ l \in Types \cup {"alien"}
  /\ IF status # "NONE" THEN Fail
     ELSE /\ skipping' = (l = "alien")
          /\ status' = IF l = "alien" THEN "NONE" ELSE "PLUG"
          /\ type' = IF l = "alien" THEN type ELSE l
          /\ UNCHANGED <<argv, plugins, result>>

(* '<': a type that cannot be loaded is skipped *)
Open(l) ==
  /\ l \in Types \cup {"alien"}
  /\ IF status # "NONE" THEN Fail
     ELSE /\ argv' = <<>>
          /\ skipping' = (l = "alien")
          /\ status' = IF l = "alien" THEN "NONE" ELSE "PLUG"
          /\ type' = IF l = "alien" THEN type ELSE l
          /\ UNCHANGED <<plugins, result>>

(* '-' after '<': a switch *)
Switch(l) ==
  /\ l \in Dashes /\ status = "PLUG"
  /\ CASE l = "off" -> skipping' = TRUE /\ status' = "NONE" /\ UNCHANGED <<type, argv, plugins, result>>
       [] l = "on"  -> UNCHANGED <<block, plugins, result>>
       [] OTHER     -> Fail

(* Mutant: argc is incremented before it is used. *)
ArgumentPre(l) ==
  /\ l \in Dashes /\ status \in {"NAME", "VAL"}
  /\ IF Len(argv) + 1 = MaxArgs THEN result' = "overrun" /\ UNCHANGED <<block, plugins>>
     ELSE /\ argv' = Append(argv, l)
          /\ status' = "VAL"
          /\ UNCHANGED <<skipping, type, plugins, result>>

(* '-' after '!': an argument; nothing keeps argc below 10 *)
Argument(l) ==
  /\ l \in Dashes /\ status \in {"NAME", "VAL"}
  /\ IF Len(argv) = MaxArgs THEN result' = "overrun" /\ UNCHANGED <<block, plugins>>
     ELSE /\ argv' = Append(argv, l)
          /\ status' = "VAL"
          /\ UNCHANGED <<skipping, type, plugins, result>>

Stray(l) == l \in Dashes /\ status = "NONE" /\ Fail

Bang(l) ==
  /\ l = "bang"
  /\ IF status = "PLUG" THEN Enter("NAME") ELSE Fail

(* load_os_module never fails; load_mysql_module wants one argument *)
Loads(t, args) == t = "os" \/ args = <<"target">>

(* '>': the plugin is kept if it could be loaded; nothing keeps n below    *)
(* MAX_PLUGINS                                                             *)
Close(l) ==
  /\ l \in Closes
  /\ IF status \notin {"VAL", "PLUG"} THEN Fail
     ELSE IF l = "nomem" \/ ~Loads(type, argv) THEN Enter("NONE")
     ELSE IF Len(plugins) = MaxPlugins THEN result' = "overrun" /\ UNCHANGED <<block, plugins>>
     ELSE /\ status' = "NONE"
          /\ plugins' = Append(plugins, [type |-> type, args |-> argv])
          /\ UNCHANGED <<skipping, type, argv, result>>

Word(l) == l = "word" /\ Fail

Line(l) ==
  /\ Fgets(l)
  /\ \/ Skip(l)
     \/ /\ ~skipping
        /\ \/ Blank(l) \/ Open(l) \/ Bang(l) \/ Close(l) \/ Word(l)
           \/ Switch(l) \/ Argument(l) \/ Stray(l)

(* The end of the file: a block without '>' is forgotten. *)
Eof ==
  /\ result = "reading"
  /\ result' = "ok"
  /\ UNCHANGED <<conf, block, plugins>>

(* fgets fails: an error for skip_until, the end of the file for sparse *)
ReadError ==
  /\ Fgets("ioerror")
  /\ result' = IF skipping THEN "error" ELSE "ok"
  /\ UNCHANGED <<block, plugins>>

(* fopen fails: no line is read and nothing is left to close *)
NoFile == conf = <<>> /\ Fgets("nofile") /\ Fail

Next == (\E l \in Lines : Line(l)) \/ Eof \/ ReadError \/ NoFile

Spec == Init /\ [][Next]_vars

-----------------------------------------------------------------------------
(* How many lines from the i-th on are among L? *)
Count(i, L) == Cardinality({k \in i..Len(conf) : conf[k] \in L})

(* sparse: the arrays are left only by a file that asks for it, with more  *)
(* than MAX_PLUGINS lines with '>' or more than 10 lines with '-' since    *)
(* the last one that opens or closes a block.                              *)
OverrunNeedsMany ==
  result = "overrun" =>
    \/ Count(1, {"close"}) > MaxPlugins
    \/ \E i \in 1..Len(conf) :
         /\ \A k \in i..Len(conf) : conf[k] \notin Types \cup {"alien"} \cup Closes
         /\ Count(i, Dashes) > MaxArgs
=============================================================================
