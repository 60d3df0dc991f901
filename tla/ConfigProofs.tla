---------------------------- MODULE ConfigProofs ----------------------------
(***************************************************************************)
(* For every configuration file, keyboard and press: the last line that    *)
(* binds a command is the one that counts, pressing what is bound is seen  *)
(* by the program and runs the command, and what the program takes from    *)
(* the applications runs something.                                        *)
(***************************************************************************)
EXTENDS Config, TailQueueProofs

-----------------------------------------------------------------------------
(* The invariant *)

Kinds == {"bind-key", "bind-mouse"}

\* The queue that a line of the kind changes, its keys, and what is in it at the start.
Queue(kind) == IF kind = "bind-key" THEN config.keybindings ELSE config.mousebindings

KeysOf(kind) == IF kind = "bind-key" THEN Keysyms ELSE Buttons

Given(kind) == IF kind = "bind-key" THEN {} ELSE Range(Defaults.mousebindings)

\* No command has two bindings.
Single(q) == \A i, j \in DOMAIN q : q[i].name = q[j].name => i = j

\* The lines up to n that bind, and whether one after i names the command.
LinesTo(n, kind) == {i \in 1 .. n : BoundBy(i, kind) # NULL}

Again(i, n, name, kind) == \E j \in LinesTo(n, kind) : j > i /\ BoundBy(j, kind).name = name

\* What n lines make of the queue.
Last(n, kind) ==
  {b \in Given(kind) : ~Again(0, n, b.name, kind)}
    \cup {BoundBy(i, kind) : i \in {k \in LinesTo(n, kind) :
                                      ~Again(k, n, BoundBy(k, kind).name, kind)}}

Parts == {"keybindings", "mousebindings", "commands", "ignored", "settings"}

Bonds(kind) ==
  /\ Queue(kind) \in Seq(Bindings)
  /\ \A i \in DOMAIN Queue(kind) : Queue(kind)[i].button \in KeysOf(kind)
  /\ Single(Queue(kind))
  /\ errors = 0 => Range(Queue(kind)) = Last(line - 1, kind)

Inv ==
  /\ file \in Files /\ line \in 1 .. Len(file) + 1 /\ errors \in {0, 1}
  /\ DOMAIN config = Parts
  /\ \A kind \in Kinds : Bonds(kind)
  /\ grabs # {} => ~Reading /\ grabs = GrabsOf(config.keybindings)

-----------------------------------------------------------------------------
(* Bindings *)

\* A binding asks for modifiers and nothing else.
LEMMA Masks == ASSUME NEW bind PROVE config_bind_mask(bind) \subseteq Modifiers
  BY DEF config_bind_mask, Mask, Modifiers

\* A command that is bound again has the new binding alone.
LEMMA BoundAgain ==
  ASSUME NEW q \in Seq(Bindings), Single(q), NEW command \in Commands,
         NEW button \in Keysyms \cup Buttons, NEW modifier \in SUBSET Modifiers
  PROVE  LET new == [name |-> command, button |-> button, modifier |-> modifier]
             r   == Bound(q, command, button, modifier)
         IN  /\ r \in Seq(Bindings) /\ Single(r)
             /\ \A i \in DOMAIN r : r[i] = new \/ \E j \in DOMAIN q : r[i] = q[j]
             /\ Range(r) = {b \in Range(q) : b.name # command} \cup {new}
  <1> DEFINE new == [name |-> command, button |-> button, modifier |-> modifier]
             r   == Bound(q, command, button, modifier)
  <1>1. new \in Bindings /\ new.name = command
    BY DEF Bindings
  <1>2. r = IF \E i \in DOMAIN q : q[i].name = command
            THEN [i \in DOMAIN q |-> IF q[i].name = command THEN new ELSE q[i]]
            ELSE Append(q, new)
    BY DEF Bound, TAILQ_INSERT_TAIL
  <1>3. /\ DOMAIN q = 1 .. Len(q) /\ Len(q) \in Nat
        /\ \A i \in DOMAIN q : q[i] \in Bindings
    OBVIOUS
  <1> HIDE DEF new, r
  <1>4. CASE \E i \in DOMAIN q : q[i].name = command
    <2>1. PICK k \in DOMAIN q : q[k].name = command
      BY <1>4
    <2>2. r = [i \in 1 .. Len(q) |-> IF q[i].name = command THEN new ELSE q[i]]
      BY <1>2, <1>3, <1>4
    <2>3. DOMAIN r = DOMAIN q
      BY <1>3, <2>2
    <2>4. \A i \in DOMAIN q : r[i] = IF q[i].name = command THEN new ELSE q[i]
      BY <1>3, <2>2
    <2>5. r \in Seq(Bindings)
      BY <1>1, <1>3, <2>2
    <2>6. \A i \in DOMAIN q : r[i].name = q[i].name
      BY <1>1, <2>4
    <2>7. Single(r)
      BY <2>3, <2>6 DEF Single
    <2>8. Range(r) = {b \in Range(q) : b.name # command} \cup {new}
      <3>1. ASSUME NEW b \in Range(r) PROVE b \in {e \in Range(q) : e.name # command} \cup {new}
        BY <2>3, <2>4, <3>1 DEF Range
      <3>2. new \in Range(r)
        BY <2>1, <2>3, <2>4 DEF Range
      <3>3. ASSUME NEW b \in Range(q), b.name # command PROVE b \in Range(r)
        BY <2>3, <2>4, <3>3 DEF Range
      <3> QED BY <3>1, <3>2, <3>3
    <2> QED BY <2>3, <2>4, <2>5, <2>7, <2>8 DEF new, r
  <1>5. CASE ~\E i \in DOMAIN q : q[i].name = command
    <2>1. r = Append(q, new)
      BY <1>2, <1>5
    <2>2. r \in Seq(Bindings) /\ Range(r) = Range(q) \cup {new}
      BY <1>1, <2>1, InsertTail DEF TAILQ_INSERT_TAIL
    <2>3. /\ DOMAIN r = 1 .. Len(q) + 1 /\ r[Len(q) + 1] = new
          /\ \A i \in 1 .. Len(q) : r[i] = q[i]
      BY <1>1, <1>3, <2>1
    <2>4. Single(r)
      <3> SUFFICES ASSUME NEW i \in DOMAIN r, NEW j \in DOMAIN r, r[i].name = r[j].name
                   PROVE  i = j
        BY DEF Single
      <3>1. i \in 1 .. Len(q) \/ i = Len(q) + 1
        BY <1>3, <2>3
      <3>2. j \in 1 .. Len(q) \/ j = Len(q) + 1
        BY <1>3, <2>3
      <3> QED BY <1>1, <1>3, <1>5, <2>3, <3>1, <3>2 DEF Single
    <2>5. Range(q) = {b \in Range(q) : b.name # command}
      BY <1>5 DEF Range
    <2>6. \A i \in DOMAIN r : r[i] = new \/ \E j \in DOMAIN q : r[i] = q[j]
      BY <1>3, <2>3
    <2> QED BY <2>2, <2>4, <2>5, <2>6 DEF new, r
  <1> QED BY <1>4, <1>5

\* One more line that binds.
LEMMA OneMore ==
  ASSUME NEW n \in Nat, NEW kind \in Kinds, BoundBy(n + 1, kind) # NULL
  PROVE  LET new == BoundBy(n + 1, kind)
         IN  Last(n + 1, kind) = {b \in Last(n, kind) : b.name # new.name} \cup {new}
  <1> DEFINE new == BoundBy(n + 1, kind)
             By(i) == BoundBy(i, kind)
             Lines(m) == LinesTo(m, kind)
             Later(i, m, name) == Again(i, m, name, kind)
  <1>1. Lines(n + 1) = Lines(n) \cup {n + 1}
    BY DEF LinesTo
  <1>2. \A i \in Lines(n) : i \in 1 .. n
    BY DEF LinesTo
  <1>3. \A i \in 0 .. n : \A name : Later(i, n + 1, name) <=> Later(i, n, name) \/ name = new.name
    BY <1>1 DEF Again
  <1>4. \A name : ~Later(n + 1, n + 1, name)
    BY <1>1, <1>2 DEF Again
  <1>5. Last(n + 1, kind) = {b \in Given(kind) : ~Later(0, n + 1, b.name)}
          \cup {By(i) : i \in {k \in Lines(n + 1) : ~Later(k, n + 1, By(k).name)}}
    BY DEF Last
  <1>6. Last(n, kind) = {b \in Given(kind) : ~Later(0, n, b.name)}
          \cup {By(i) : i \in {k \in Lines(n) : ~Later(k, n, By(k).name)}}
    BY DEF Last
  <1>7. new = By(n + 1)
    OBVIOUS
  <1> HIDE DEF By, Lines, Later, new
  <1>8. ASSUME NEW b \in Last(n + 1, kind)
        PROVE  b = new \/ (b \in Last(n, kind) /\ b.name # new.name)
    <2>1. CASE b \in Given(kind) /\ ~Later(0, n + 1, b.name)
      BY <1>3, <1>6, <2>1
    <2>2. ASSUME NEW i \in Lines(n + 1), ~Later(i, n + 1, By(i).name), b = By(i)
          PROVE  b = new \/ (b \in Last(n, kind) /\ b.name # new.name)
      <3>1. CASE i = n + 1
        BY <1>7, <2>2, <3>1
      <3>2. CASE i \in Lines(n)
        <4>1. ~Later(i, n, By(i).name) /\ By(i).name # new.name
          BY <1>2, <1>3, <2>2, <3>2
        <4> QED BY <1>6, <2>2, <3>2, <4>1
      <3> QED BY <1>1, <3>1, <3>2
    <2> QED BY <1>5, <2>1, <2>2
  <1>9. new \in Last(n + 1, kind)
    BY <1>1, <1>4, <1>5, <1>7
  <1>10. ASSUME NEW b \in Last(n, kind), b.name # new.name PROVE b \in Last(n + 1, kind)
    <2>1. CASE b \in Given(kind) /\ ~Later(0, n, b.name)
      BY <1>3, <1>5, <1>10, <2>1
    <2>2. ASSUME NEW i \in Lines(n), ~Later(i, n, By(i).name), b = By(i)
          PROVE  b \in Last(n + 1, kind)
      <3>1. ~Later(i, n + 1, By(i).name) /\ i \in Lines(n + 1)
        BY <1>1, <1>2, <1>3, <1>10, <2>2
      <3> QED BY <1>5, <2>2, <3>1
    <2> QED BY <1>6, <2>1, <2>2
  <1> QED BY <1>8, <1>9, <1>10 DEF new

\* One more line that does not.
LEMMA NoMore ==
  ASSUME NEW n \in Nat, NEW kind, BoundBy(n + 1, kind) = NULL
  PROVE  Last(n + 1, kind) = Last(n, kind)
  <1>1. LinesTo(n + 1, kind) = LinesTo(n, kind)
    BY DEF LinesTo
  <1> QED BY <1>1 DEF Last, Again

-----------------------------------------------------------------------------
(* Lines *)

\* What statements begin with.
LEMMA FixedBegin ==
  ASSUME NEW e \in Fixed
  PROVE  e[1] \notin {"STRING", "bind-key", "bind-mouse"}
  BY DEF Fixed

\* The words that begin a line of any length.
LEMMA OpenBegin ==
  ASSUME NEW e \in Open
  PROVE  e[1] \in {"bind-key", "bind-mouse", "command"}
  BY DEF Open

\* A statement is a part of the line, and no word that is no keyword begins one.
LEMMA Statements ==
  ASSUME NEW S, NEW tokens \in Seq(S), Statement(tokens) # 0
  PROVE  LET n == Statement(tokens)
         IN  /\ n \in DOMAIN tokens
             /\ Prefix(tokens, n)[1] = tokens[1]
             /\ tokens[1] # "STRING"
             /\ tokens[1] \in Kinds => n >= 3
  <1> DEFINE fixed == {n \in DOMAIN tokens : Prefix(tokens, n) \in Fixed}
             open  == {n \in DOMAIN tokens : /\ n >= 3
                                             /\ Prefix(tokens, 2) \in Open
                                             /\ \A i \in 3 .. n : tokens[i] = "STRING"}
             all   == fixed \cup open
             n     == Statement(tokens)
  <1>1. DOMAIN tokens = 1 .. Len(tokens) /\ Len(tokens) \in Nat
    OBVIOUS
  <1>2. n = IF all = {} THEN 0 ELSE CHOOSE k \in all : \A m \in all : m <= k
    BY DEF Statement
  <1>3. all \subseteq 1 .. Len(tokens)
    BY <1>1
  <1>4. ASSUME NEW m \in DOMAIN tokens PROVE Prefix(tokens, m)[1] = tokens[1]
    BY <1>1 DEF Prefix
  <1>5. ASSUME NEW m \in fixed PROVE tokens[1] \notin {"STRING", "bind-key", "bind-mouse"}
    BY <1>4, FixedBegin
  <1>6. ASSUME NEW m \in open
        PROVE  tokens[1] \in {"bind-key", "bind-mouse", "command"} /\ m >= 3
    <2>1. Prefix(tokens, 2)[1] \in {"bind-key", "bind-mouse", "command"} /\ m >= 3
      BY OpenBegin
    <2>2. 2 \in DOMAIN tokens
      BY <1>1, <2>1
    <2> QED BY <1>4, <2>1, <2>2
  <1> HIDE DEF fixed, open
  <1>7. n \in all
    <2>1. all # {}
      BY <1>2
    <2>2. \E k \in all : \A m \in all : m <= k
      BY <1>1, <1>3, <2>1, Largest
    <2> QED BY <1>2, <2>1, <2>2
  <1> HIDE DEF n
  <1>8. n \in DOMAIN tokens
    BY <1>1, <1>3, <1>7
  <1>9. tokens[1] # "STRING"
    BY <1>5, <1>6, <1>7
  <1>10. tokens[1] \in Kinds => n >= 3
    BY <1>5, <1>6, <1>7 DEF Kinds
  <1> QED BY <1>4, <1>8, <1>9, <1>10 DEF n

\* A word is a keyword or none.
LEMMA Lexed ==
  ASSUME NEW lexeme \in Lexemes
  PROVE  /\ \A kind \in Kinds : yylex(lexeme) = kind => lexeme = Word(kind)
         /\ \A kind \in Kinds : lexeme = Word(kind) => yylex(lexeme) \in {kind, "STRING"}
  <1>1. lexeme = [kind |-> lexeme.kind, text |-> lexeme.text] /\ lexeme.text \in STRING
        /\ lexeme.kind \in {"word", "quoted", "number"}
    BY DEF Lexemes
  <1>2. lookup(lexeme.text) \in {lexeme.text, "STRING"}
    BY DEF lookup
  <1>3. ASSUME NEW kind \in Kinds, yylex(lexeme) = kind PROVE lexeme = Word(kind)
    <2>1. lexeme.kind = "word" /\ lexeme.text = kind
      BY <1>1, <1>2, <1>3 DEF yylex, Kinds
    <2> QED BY <1>1, <2>1 DEF Word
  <1>4. ASSUME NEW kind \in Kinds, lexeme = Word(kind) PROVE yylex(lexeme) \in {kind, "STRING"}
    BY <1>2, <1>4 DEF yylex, Word
  <1> QED BY <1>3, <1>4

\* A line that binds changes its queue, any other none.
LEMMA LineRead ==
  ASSUME Inv, yyparse, NEW kind \in Kinds
  PROVE  /\ DOMAIN config' = Parts
         /\ \/ Queue(kind)' = Queue(kind) /\ (errors' = 0 => BoundBy(line, kind) = NULL)
            \/ \E command \in Commands, button \in KeysOf(kind), modifier \in SUBSET Modifiers :
                 /\ Queue(kind)' = Bound(Queue(kind), command, button, modifier)
                 /\ errors' = 0 => BoundBy(line, kind) =
                      [name |-> command, button |-> button, modifier |-> modifier]
  <1> DEFINE lexemes == file[line]
             tokens == [i \in DOMAIN lexemes |-> yylex(lexemes[i])]
             n      == Statement(tokens)
             prefix == Prefix(tokens, n)
             texts  == [i \in 1 .. n |-> lexemes[i].text]
             words  == SubSeq(texts, 3, n)
             good   == n > 0 /\ Accepted(texts, prefix)
  <1>1. /\ config' = IF good THEN Done(config, texts, prefix) ELSE config
        /\ errors' = IF lexemes = << >> \/ (good /\ n = Len(tokens)) THEN 0 ELSE 1
    BY DEF yyparse
  <1>2. lexemes \in Seq(Lexemes)
    <2>1. file \in Seq(Seq(Lexemes)) /\ line \in DOMAIN file
      BY ConfigAssumption DEF Inv, yyparse, Reading
    <2> QED BY <2>1
  <1>3. DOMAIN lexemes = 1 .. Len(lexemes) /\ Len(lexemes) \in Nat
    BY <1>2
  <1> HIDE DEF lexemes
  <1>4. \A i \in DOMAIN lexemes : lexemes[i] \in Lexemes
    BY <1>2
  <1> DEFINE S == {tokens[i] : i \in DOMAIN lexemes}
  <1>5. tokens \in Seq(S) /\ Len(tokens) = Len(lexemes)
    <2>1. \A i \in DOMAIN lexemes : tokens[i] \in S
      OBVIOUS
    <2>2. DOMAIN tokens = 1 .. Len(lexemes)
      BY <1>3
    <2> HIDE DEF tokens, S
    <2>3. tokens = [i \in 1 .. Len(lexemes) |-> tokens[i]]
      BY <2>2 DEF tokens
    <2> QED BY <1>3, <2>1, <2>3
  <1>6. \A i \in DOMAIN lexemes : tokens[i] = yylex(lexemes[i])
    OBVIOUS
  <1>7. n # 0 => /\ n \in DOMAIN lexemes /\ prefix[1] = tokens[1] /\ tokens[1] # "STRING"
                 /\ tokens[1] \in Kinds => n >= 3
    <2>1. DOMAIN tokens = DOMAIN lexemes
      OBVIOUS
    <2> HIDE DEF tokens, S
    <2> QED BY <1>5, <2>1, Statements
  <1> HIDE DEF tokens, n, prefix, S
  <1>8. DOMAIN config = Parts
    BY DEF Inv
  <1>9. BoundBy(line, kind) =
          IF /\ Len(lexemes) = 3 /\ lexemes[1] = Word(kind)
             /\ Notation[lexemes[2].text].key \in KeysOf(kind) /\ lexemes[3].text \in Commands
          THEN [name |-> lexemes[3].text, button |-> Notation[lexemes[2].text].key,
                modifier |-> config_bind_mask(lexemes[2].text)]
          ELSE NULL
    BY DEF BoundBy, KeysOf, lexemes
  <1>10. CASE ~good
    <2>1. config' = config
      BY <1>1, <1>10
    <2>2. ASSUME errors' = 0 PROVE BoundBy(line, kind) = NULL
      <3>1. lexemes = << >>
        BY <1>1, <1>10, <2>2
      <3> QED BY <1>9, <3>1
    <2> QED BY <1>8, <2>1, <2>2 DEF Queue
  <1>11. CASE good /\ tokens[1] # kind
    <2>1. n # 0 /\ prefix[1] # kind /\ prefix[1] = tokens[1] /\ n \in DOMAIN lexemes
      BY <1>7, <1>11
    <2>2. BoundBy(line, kind) = NULL
      <3> SUFFICES ASSUME lexemes[1] = Word(kind) PROVE FALSE
        BY <1>9
      <3>1. 1 \in DOMAIN lexemes
        BY <1>3, <2>1
      <3>2. tokens[1] \in {kind, "STRING"}
        BY <1>4, <1>6, <3>1, Lexed
      <3> QED BY <1>7, <1>11, <2>1, <3>2
    <2>3. config' = Done(config, texts, prefix)
      BY <1>1, <1>11
    <2> HIDE DEF texts
    <2>4. DOMAIN config' = Parts /\ Queue(kind)' = Queue(kind)
      BY <1>8, <2>1, <2>3
         DEF Done, config_bind, config_bind_command, config_ignore, Parts, Kinds, Queue
    <2> QED BY <2>2, <2>4
  <1>12. CASE good /\ tokens[1] = kind
    <2>1. n \in DOMAIN lexemes /\ n >= 3 /\ prefix[1] = kind /\ n \in Nat
      BY <1>3, <1>7, <1>12
    <2>2. /\ texts \in Seq(STRING) /\ Len(texts) = n
          /\ texts[2] = lexemes[2].text /\ texts[3] = lexemes[3].text
      <3>1. \A i \in 1 .. n : lexemes[i].text \in STRING
        BY <1>3, <1>4, <2>1 DEF Lexemes
      <3> QED BY <2>1, <3>1
    <2> HIDE DEF texts
    <2>3. Binds(KeysOf(kind), texts[2], words)
      BY <1>12, <2>1, <2>2 DEF Accepted, Kinds, KeysOf
    <2>4. n = 3 /\ words[1] = texts[3]
      <3>1. Len(words) = 1
        BY <2>3 DEF Binds
      <3>2. Len(words) = n - 2 /\ words[1] = texts[3]
        BY <2>1, <2>2
      <3> QED BY <2>1, <3>1, <3>2
    <2> DEFINE command  == texts[3]
               button   == Notation[texts[2]].key
               modifier == config_bind_mask(texts[2])
    <2>5. command \in Commands /\ button \in KeysOf(kind) /\ modifier \in SUBSET Modifiers
      BY <2>3, <2>4, Masks DEF Binds
    <2>6. config' = Done(config, texts, prefix)
      BY <1>1, <1>12
    <2>7. config' = config_bind(config, IF kind = "bind-key" THEN "keybindings" ELSE "mousebindings",
                                texts[2], words)
      BY <2>1, <2>2, <2>6 DEF Done, Kinds
    <2> HIDE DEF words
    <2>8. DOMAIN config' = Parts /\ Queue(kind)' = Bound(Queue(kind), command, button, modifier)
      BY <1>8, <2>4, <2>7 DEF config_bind, Parts, Kinds, Queue
    <2>9. ASSUME errors' = 0
          PROVE  BoundBy(line, kind) = [name |-> command, button |-> button, modifier |-> modifier]
      <3>1. Len(lexemes) = 3
        BY <1>1, <1>3, <1>5, <1>12, <2>1, <2>4, <2>9
      <3>2. lexemes[1] = Word(kind)
        BY <1>3, <1>4, <1>6, <1>12, <2>1, Lexed
      <3> QED BY <1>9, <2>2, <2>5, <3>1, <3>2
    <2> HIDE DEF command, button, modifier
    <2> QED BY <2>5, <2>8, <2>9
  <1> QED BY <1>10, <1>11, <1>12

-----------------------------------------------------------------------------
(* The steps *)

\* Before the first line there are no bindings.
LEMMA InitInv == Init => Inv
  <1> SUFFICES ASSUME Init PROVE Inv
    OBVIOUS
  <1>1. file \in Files /\ line = 1 /\ errors = 0 /\ config = Defaults /\ grabs = {}
    BY DEF Init
  <1>2. DOMAIN config = Parts
    BY <1>1 DEF Defaults, Parts
  <1>3. Len(file) \in Nat
    BY <1>1, ConfigAssumption
  <1>4. ASSUME NEW kind \in Kinds PROVE Bonds(kind)
    <2> DEFINE move   == [name |-> "window-move", button |-> "1", modifier |-> {"Mod1"}]
               resize == [name |-> "window-resize", button |-> "3", modifier |-> {"Mod1"}]
    <2>1. Queue(kind) = IF kind = "bind-key" THEN << >> ELSE <<move, resize>>
      BY <1>1 DEF Queue, Defaults
    <2>2. /\ move \in Bindings /\ resize \in Bindings /\ move.name # resize.name
          /\ move.button \in Buttons /\ resize.button \in Buttons
      BY DEF Bindings, Commands, Buttons, Modifiers
    <2>3. Given(kind) = Range(Queue(kind))
      BY <1>1 DEF Given, Queue, Defaults, Range
    <2> HIDE DEF move, resize
    <2>4. CASE kind = "bind-key"
      <3>1. Queue(kind) = << >> /\ KeysOf(kind) = Keysyms
        BY <2>1, <2>4 DEF KeysOf
      <3>2. Queue(kind) \in Seq(Bindings) /\ DOMAIN Queue(kind) = {}
        BY <3>1
      <3>3. Range(Queue(kind)) = {}
        BY <3>2 DEF Range
      <3>4. Last(0, kind) = {}
        BY <2>3, <3>3 DEF Last, LinesTo
      <3> QED BY <1>1, <3>2, <3>3, <3>4 DEF Bonds, Single
    <2>5. CASE kind = "bind-mouse"
      <3>1. Queue(kind) = <<move, resize>> /\ KeysOf(kind) = Buttons
        BY <2>1, <2>5 DEF KeysOf
      <3>2. Queue(kind) \in Seq(Bindings) /\ DOMAIN Queue(kind) = {1, 2}
        BY <2>2, <3>1
      <3>3. Single(Queue(kind)) /\ \A i \in DOMAIN Queue(kind) : Queue(kind)[i].button \in Buttons
        BY <2>2, <3>1, <3>2 DEF Single
      <3>4. Last(0, kind) = Given(kind)
        BY DEF Last, LinesTo, Again
      <3> QED BY <1>1, <2>3, <3>1, <3>2, <3>3, <3>4 DEF Bonds
    <2> QED BY <2>4, <2>5 DEF Kinds
  <1> QED BY <1>1, <1>2, <1>3, <1>4 DEF Inv

\* The next line is read.
LEMMA ReadInv == ASSUME Inv, yyparse PROVE Inv'
  <1>1. /\ file' = file /\ grabs' = grabs /\ line' = line + 1 /\ line \in 1 .. Len(file)
        /\ errors = 0 /\ errors' \in {0, 1} /\ Len(file) \in Nat
    BY ConfigAssumption DEF yyparse, Reading, Inv
  <1>2. grabs' = {}
    BY <1>1 DEF Inv, yyparse
  <1>3. \A i, kind : BoundBy(i, kind)' = BoundBy(i, kind)
    BY <1>1 DEF BoundBy
  <1>4. ASSUME NEW kind \in Kinds PROVE Bonds(kind)'
    <2> DEFINE q == Queue(kind)
               r == Queue(kind)'
    <2>1. /\ q \in Seq(Bindings) /\ Single(q)
          /\ \A i \in DOMAIN q : q[i].button \in KeysOf(kind)
          /\ Range(q) = Last(line - 1, kind)
      BY <1>1 DEF Inv, Bonds
    <2>2. \A n : Last(n, kind)' = Last(n, kind)
      BY <1>3 DEF Last, LinesTo, Again, Given
    <2>3. line - 1 \in Nat /\ (line - 1) + 1 = line /\ line' - 1 = line
      BY <1>1
    <2>4. CASE r = q /\ (errors' = 0 => BoundBy(line, kind) = NULL)
      <3>1. errors' = 0 => Last(line, kind) = Last(line - 1, kind)
        BY <2>3, <2>4, NoMore
      <3> HIDE DEF q, r
      <3>2. errors' = 0 => Range(r) = Last(line, kind)
        BY <2>1, <2>4, <3>1
      <3>3. /\ r \in Seq(Bindings) /\ Single(r)
            /\ \A i \in DOMAIN r : r[i].button \in KeysOf(kind)
        BY <2>1, <2>4
      <3> QED BY <2>2, <2>3, <3>2, <3>3 DEF Bonds, r, Single, KeysOf
    <2>5. ASSUME NEW command \in Commands, NEW button \in KeysOf(kind),
                 NEW modifier \in SUBSET Modifiers,
                 r = Bound(q, command, button, modifier),
                 errors' = 0 => BoundBy(line, kind) =
                   [name |-> command, button |-> button, modifier |-> modifier]
          PROVE  Bonds(kind)'
      <3> DEFINE new == [name |-> command, button |-> button, modifier |-> modifier]
      <3>1. button \in Keysyms \cup Buttons /\ new.button = button /\ new.name = command
        BY DEF KeysOf
      <3>2. new # NULL
        BY <3>1, ConfigAssumption DEF Bindings
      <3>3. errors' = 0 => BoundBy(line, kind) = new
        BY <2>5
      <3> HIDE DEF q, r
      <3>4. /\ r \in Seq(Bindings) /\ Single(r)
            /\ \A i \in DOMAIN r : r[i] = new \/ \E j \in DOMAIN q : r[i] = q[j]
            /\ Range(r) = {b \in Range(q) : b.name # command} \cup {new}
        BY <2>1, <2>5, <3>1, BoundAgain
      <3> HIDE DEF new
      <3>5. \A i \in DOMAIN r : r[i].button \in KeysOf(kind)
        BY <2>1, <3>1, <3>4
      <3>6. ASSUME errors' = 0 PROVE Range(r) = Last(line, kind)
        <4>1. BoundBy((line - 1) + 1, kind) = new
          BY <2>3, <3>3, <3>6
        <4>2. Last((line - 1) + 1, kind) = {b \in Last(line - 1, kind) : b.name # new.name} \cup {new}
          BY <2>3, <3>2, <4>1, OneMore
        <4> QED BY <2>1, <2>3, <3>1, <3>4, <4>2
      <3> QED BY <2>2, <2>3, <3>4, <3>5, <3>6 DEF Bonds, r, Single, KeysOf
    <2> HIDE DEF q, r
    <2> QED BY <2>4, <2>5, LineRead DEF q, r
  <1>5. DOMAIN config' = Parts
    BY LineRead DEF Kinds
  <1> QED BY <1>1, <1>2, <1>4, <1>5 DEF Inv

\* Reading, grabbing and pressing all keep the invariant.
LEMMA NextInv == ASSUME Inv, [Next]_vars PROVE Inv'
  <1>1. ASSUME UNCHANGED <<file, line, errors, config>>,
               grabs' \in {grabs, GrabsOf(config.keybindings)}, grabs' # grabs => ~Reading
        PROVE  Inv'
    <2>1. \A kind \in Kinds : Bonds(kind)'
      BY <1>1 DEF Inv, Bonds, Queue, Last, LinesTo, Again, BoundBy
    <2>2. Reading' = Reading /\ GrabsOf(config.keybindings)' = GrabsOf(config.keybindings)
      BY <1>1 DEF Reading, GrabsOf
    <2> QED BY <1>1, <2>1, <2>2 DEF Inv
  <1>2. CASE state_bind
    BY <1>1, <1>2 DEF state_bind
  <1>3. ASSUME NEW press, event_handle_key_press(press) PROVE Inv'
    BY <1>1, <1>3 DEF event_handle_key_press
  <1>4. ASSUME NEW button, NEW state, event_handle_button_press(button, state) PROVE Inv'
    BY <1>1, <1>4 DEF event_handle_button_press
  <1>5. CASE UNCHANGED vars
    BY <1>1, <1>5 DEF vars
  <1> QED BY <1>2, <1>3, <1>4, <1>5, ReadInv DEF Next

\* So it always holds.
LEMMA SpecInv == Spec => []Inv
  BY InitInv, NextInv, PTL DEF Spec

-----------------------------------------------------------------------------
(* Presses *)

\* The first key that has a keysym.
LEMMA KeyFound ==
  ASSUME NEW keysym
  PROVE  LET Column(i) == {code \in DOMAIN Keyboard : Keyboard[code][i] = keysym}
             code == XKeysymToKeycode(keysym)
         IN  IF Column(1) # {} THEN code \in Column(1)
             ELSE IF Column(2) # {} THEN code \in Column(2) ELSE code = 0
  <1> DEFINE Column(i) == {code \in DOMAIN Keyboard : Keyboard[code][i] = keysym}
             codes == IF Column(1) # {} THEN Column(1) ELSE Column(2)
  <1>1. codes \subseteq Nat
    BY ConfigAssumption
  <1>2. XKeysymToKeycode(keysym) =
          IF codes = {} THEN 0 ELSE CHOOSE code \in codes : \A other \in codes : code <= other
    BY DEF XKeysymToKeycode
  <1> HIDE DEF Column
  <1>3. codes # {} => \E code \in codes : \A other \in codes : code <= other
    BY <1>1, Smallest
  <1> HIDE DEF codes
  <1>4. codes # {} => XKeysymToKeycode(keysym) \in codes
    BY <1>2, <1>3
  <1> QED BY <1>2, <1>4 DEF codes, Column

\* The names of what a walk picks.
LEMMA Named ==
  ASSUME NEW q \in Seq(Bindings), NEW at \in SUBSET DOMAIN q, NEW i \in at
  PROVE  q[i].name \in Range(Names(Picked(q, at))) /\ Names(Picked(q, at)) # << >>
  <1> DEFINE p == Picked(q, at)
             k == Rank(at, i)
  <1>1. k \in DOMAIN p /\ p[k] = q[i]
    BY PickedAll
  <1> HIDE DEF p, k
  <1>2. DOMAIN Names(p) = DOMAIN p /\ Names(p)[k] = q[i].name
    BY <1>1 DEF Names
  <1>3. Names(p) # << >>
    BY <1>1, <1>2
  <1> QED BY <1>1, <1>2, <1>3 DEF Range, p

\* A press of the keys of a binding runs it, if it can be run.
LEMMA PressFinds ==
  ASSUME Inv, NEW b \in Range(config.keybindings), Plain(b), Runs(b)
  PROVE  LET names == PressRuns(PressOf(b)) IN b.name \in Range(names) /\ names # << >>
  <1> DEFINE q       == config.keybindings
             code    == XKeysymToKeycode(b.button)
             keysym  == Keyboard[code][1]
             skeysym == Keyboard[code][2]
             state   == b.modifier \ Locks
             Shifted(e) == e.button # keysym /\ e.button = skeysym
             Matches(e) == /\ state = e.modifier \cup (IF Shifted(e) THEN {"Shift"} ELSE {})
                           /\ e.button = (IF Shifted(e) THEN skeysym ELSE keysym)
                           /\ Runs(e)
             at == {i \in DOMAIN q : Matches(q[i])}
  <1>1. q \in Seq(Bindings)
    BY DEF Inv, Bonds, Queue, Kinds
  <1>2. PICK i \in DOMAIN q : q[i] = b
    BY DEF Range
  <1>3. b \in Bindings
    BY <1>1, <1>2
  <1>4. state = b.modifier
    BY <1>3 DEF Bindings, Modifiers, Locks
  <1>5. PressRuns(PressOf(b)) = Names(Picked(q, at))
    BY DEF PressRuns, PressOf
  <1>6. \/ keysym = b.button
        \/ keysym # b.button /\ skeysym = b.button /\ "Shift" \in b.modifier
    BY KeyFound DEF Plain
  <1>7. Matches(b)
    BY <1>4, <1>6
  <1> HIDE DEF Matches, q
  <1>8. i \in at
    BY <1>2, <1>7
  <1> HIDE DEF at
  <1>9. at \in SUBSET DOMAIN q
    BY DEF at
  <1> QED BY <1>1, <1>2, <1>5, <1>8, <1>9, Named

-----------------------------------------------------------------------------
(* The theorems *)

\* LastLineWins: config_bind_key and config_bind_mouse keep one binding of each command,
\* that of the last line of the file that was read and names it.
THEOREM LastLineAlwaysWins == Spec => []LastLineWins
  <1>1. ASSUME Inv PROVE LastLineWins
    <2> SUFFICES ASSUME NEW kind \in Kinds
                 PROVE  /\ Single(Queue(kind))
                        /\ errors = 0 => Range(Queue(kind)) = Last(line - 1, kind)
      BY DEF LastLineWins, Kinds, Queue, Single, Last, LinesTo, Again, Given
    <2> QED BY <1>1 DEF Inv, Bonds
  <1> QED BY SpecInv, <1>1, PTL

\* BoundKeysWork: state_bind grabs the keys by which event_handle_key_press then finds
\* the binding, whatever the keyboard has with Shift.
THEOREM BoundKeysAlwaysWork == Spec => []BoundKeysWork
  <1>1. ASSUME Inv PROVE BoundKeysWork
    <2> SUFFICES ASSUME grabs # {}, NEW b \in Range(config.keybindings), Plain(b)
                 PROVE  /\ Delivered(PressOf(b))
                        /\ Runs(b) => b.name \in Range(PressRuns(PressOf(b)))
      BY DEF BoundKeysWork
    <2>1. <<XKeysymToKeycode(b.button), b.modifier>> \in grabs
      BY <1>1 DEF Inv, GrabsOf
    <2>2. Delivered(PressOf(b))
      BY <2>1 DEF Delivered, PressOf
    <2> QED BY <1>1, <2>2, PressFinds
  <1> QED BY SpecInv, <1>1, PTL

\* OnlyBoundKeysTaken: where each keysym that is bound is on the keyboard, no grab of
\* state_bind swallows a press that event_handle_key_press then drops.
THEOREM OnlyBoundKeysEverTaken == Spec => []OnlyBoundKeysTaken
  <1>1. ASSUME Inv PROVE OnlyBoundKeysTaken
    <2> SUFFICES ASSUME client, \A b \in Range(config.keybindings) : Plain(b),
                        NEW press \in Presses, Delivered(press)
                 PROVE  PressRuns(press) # << >>
      BY DEF OnlyBoundKeysTaken
    <2>1. PICK b \in Range(config.keybindings) :
            /\ <<XKeysymToKeycode(b.button), b.modifier>>
                 \in {<<press.code, press.state>>, <<AnyKey, press.state>>}
      BY <1>1 DEF Delivered, Inv, GrabsOf
    <2>2. XKeysymToKeycode(b.button) \in DOMAIN Keyboard
      BY KeyFound DEF Plain
    <2>3. XKeysymToKeycode(b.button) # AnyKey
      BY <2>2, ConfigAssumption DEF AnyKey
    <2>4. press.code = XKeysymToKeycode(b.button) /\ press.state = b.modifier
      BY <2>1, <2>3
    <2>5. PressRuns(press) = PressRuns(PressOf(b))
      BY <2>4 DEF PressRuns, PressOf
    <2> QED BY <1>1, <2>5, PressFinds DEF Runs
  <1> QED BY SpecInv, <1>1, PTL

\* GrabsMatchBindings: what state_bind grabs and what event_handle_key_press looks for agree
\* for every file and every keyboard, although one goes by keycodes and one by keysyms.
THEOREM GrabsAlwaysMatch == Spec => []GrabsMatchBindings
  <1>1. BoundKeysWork /\ OnlyBoundKeysTaken => GrabsMatchBindings
    BY DEF GrabsMatchBindings
  <1> QED BY <1>1, BoundKeysAlwaysWork, OnlyBoundKeysEverTaken, PTL

\* What a press runs are commands.
LEMMA NamedCommands ==
  ASSUME NEW q \in Seq(Bindings), NEW at \in SUBSET DOMAIN q
  PROVE  Range(Names(Picked(q, at))) \subseteq Commands
  <1> DEFINE p == Picked(q, at)
  <1>1. p \in Seq(Bindings)
    BY PickedType
  <1> HIDE DEF p
  <1>2. ASSUME NEW k \in DOMAIN p PROVE p[k].name \in Commands
    <2>1. p[k] \in Bindings
      BY <1>1
    <2> HIDE DEF p
    <2>2. ASSUME NEW b \in Bindings PROVE b.name \in Commands
      BY DEF Bindings
    <2> QED BY <2>1, <2>2
  <1>3. Range(Names(p)) \subseteq Commands
    BY <1>2 DEF Names, Range
  <1> QED BY <1>3 DEF p

\* TypeOK: the queues hold bindings of commands to keys and to buttons, only keys of the
\* keyboard are grabbed, and what runs are commands.
THEOREM ConfigTypes == Spec => []TypeOK
  <1> DEFINE Typed == client \in BOOLEAN /\ Range(ran) \subseteq Commands
  <1>1. Init => Typed
    BY DEF Init, Range
  <1>2. ASSUME Inv, Typed, [Next]_vars PROVE Typed'
    <2>1. ASSUME UNCHANGED <<client, ran>> PROVE Typed'
      BY <1>2, <2>1
    <2>2. config.keybindings \in Seq(Bindings) /\ config.mousebindings \in Seq(Bindings)
      BY <1>2 DEF Inv, Bonds, Queue, Kinds
    <2>3. ASSUME NEW press PROVE Range(PressRuns(press)) \subseteq Commands
      BY <2>2, NamedCommands DEF PressRuns
    <2>4. ASSUME NEW press, event_handle_key_press(press) PROVE Typed'
      BY <2>3, <2>4 DEF event_handle_key_press
    <2>5. ASSUME NEW button, NEW state, event_handle_button_press(button, state) PROVE Typed'
      <3> DEFINE q == config.mousebindings
                 at == {i \in DOMAIN q : /\ q[i].button = button
                                         /\ q[i].modifier = state \ Locks /\ Runs(q[i])}
      <3>1. ran' = Names(Picked(q, at)) /\ client' \in BOOLEAN
        BY <2>5 DEF event_handle_button_press
      <3>2. at \in SUBSET DOMAIN q
        OBVIOUS
      <3> HIDE DEF at, q
      <3>3. Range(Names(Picked(q, at))) \subseteq Commands
        BY <2>2, <3>2, NamedCommands DEF q
      <3> QED BY <3>1, <3>3
    <2> HIDE DEF Typed
    <2> QED BY <1>2, <2>1, <2>4, <2>5 DEF Next, vars, yyparse, state_bind
  <1>3. Inv /\ Typed => TypeOK
    <2> SUFFICES ASSUME Inv, Typed PROVE TypeOK
      OBVIOUS
    <2>1. ASSUME NEW kind \in Kinds, NEW b \in Range(Queue(kind))
          PROVE  b.name \in Commands /\ b.button \in KeysOf(kind) /\ b.modifier \in SUBSET Modifiers
      <3>1. PICK i \in DOMAIN Queue(kind) : b = Queue(kind)[i]
        BY DEF Range
      <3>2. b \in Bindings /\ b.button \in KeysOf(kind)
        BY <3>1 DEF Inv, Bonds
      <3> QED BY <3>2 DEF Bindings
    <2>2. /\ \A b \in Range(config.keybindings) :
               b.name \in Commands /\ b.button \in Keysyms /\ b.modifier \subseteq Modifiers
          /\ \A b \in Range(config.mousebindings) : b.name \in Commands /\ b.button \in Buttons
      BY <2>1 DEF Kinds, Queue, KeysOf
    <2>3. \A b \in Range(config.keybindings) :
            XKeysymToKeycode(b.button) \in {AnyKey} \cup DOMAIN Keyboard
      BY KeyFound DEF AnyKey
    <2>4. grabs \subseteq ({AnyKey} \cup DOMAIN Keyboard) \X SUBSET Modifiers
      BY <2>2, <2>3 DEF Inv, GrabsOf
    <2> QED BY <2>2, <2>4 DEF TypeOK, Inv
  <1> QED BY SpecInv, <1>1, <1>2, <1>3, PTL DEF Spec

=============================================================================
