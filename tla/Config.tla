------------------------------- MODULE Config -------------------------------
(***************************************************************************)
(* The configuration file and the keys: the lexer's lookup of keywords, the *)
(* grammar and its actions (config.y), the grabs made from the bindings     *)
(* (state.c) and what the handlers of keys and buttons run (event.c).       *)
(*                                                                         *)
(* A line of the file is a sequence of lexemes.  A word becomes the token   *)
(* of a keyword if lookup finds it, else STRING; a quoted text is a STRING, *)
(* digits are a NUMBER.  The grammar has no rule for errors, so the first  *)
(* one ends the reading of the file.                                        *)
(***************************************************************************)
EXTENDS TailQueue

CONSTANTS
  Files,       \* the files that may be there
  Notation,    \* of a bind: the letters before its first dash and what stands after it
  Keysyms,     \* the names that XStringToKeysym knows
  Keyboard,    \* of a keycode: the keysyms without and with Shift
  Presses      \* key presses: a keycode and the modifiers that are down

\* The entry of a queue of bindings that a line makes; what it calls is its name.
Context(command) ==
  CASE command \in {"group-cycle", "menu-command", "menu-exec"} -> "SCREEN"
    [] command \in {"terminal", "quit", "restart"}              -> "GLOBAL"
    [] OTHER                                                   -> "CLIENT"

Directions == {"up", "up-third", "down", "down-third"}

\* The tags of name_to_func.
Commands ==
  {"group-cycle", "menu-command", "menu-exec", "menu-windows", "terminal", "quit", "restart",
   "window-center", "window-close", "window-cycle", "window-fullscreen", "window-hide",
   "window-maximize", "window-rcycle", "window-move", "window-resize", "window-restore",
   "window-move-to-screen-above", "window-move-to-screen-below",
   "window-move-to-screen-left", "window-move-to-screen-right"}
    \cup {"window-tile-" \o part : part \in
            Directions \cup {"left", "left-third", "right", "right-third"}
              \cup {v \o "-" \o h : v \in Directions,
                                    h \in {"left", "left-third", "right", "right-third"}}}

ColorNames ==
  {"border-active", "border-inactive", "border-mark", "border-urgent", "menu-background",
   "menu-foreground", "menu-prompt", "menu-selection-background",
   "menu-selection-foreground", "menu-separator"}
FontNames  == {"menu-input", "menu-item", "menu-item-detail"}
LabelNames ==
  {"applications", "run", "windows", "window-active", "window-inactive", "window-hidden"}

Settings ==
  {<<"color", n>> : n \in ColorNames} \cup {<<"font", n>> : n \in FontNames}
    \cup {<<"label", n>> : n \in LabelNames}
    \cup {<<n>> : n \in {"border-width", "transition-duration", "window-placement", "wm-name"}}

\* A lexeme: a word, a quoted text or digits, and what it says.
Lexemes == [kind : {"word", "quoted", "number"}, text : STRING]

Modifiers == {"Shift", "Control", "Mod1", "Mod4", "Mod5"}
Locks     == {"Lock", "Mod2"}

Buttons == {"1", "2", "3", "4", "5"}

\* binding_t.
Bindings == [name : Commands, button : Keysyms \cup Buttons, modifier : SUBSET Modifiers]

\* No key has the keycode 0.
ASSUME ConfigAssumption ==
  /\ Files \subseteq Seq(Seq(Lexemes))
  /\ DOMAIN Keyboard \subseteq Nat \ {0}
  /\ NULL \notin Bindings

VARIABLES
  file,       \* the lines of the file
  line,       \* the next one to read
  errors,     \* file->errors
  config,     \* config_t; a setting that no line gives is DEFAULT
  grabs,      \* pairs of a keycode and modifiers grabbed on the root window
  client,     \* is there an active client, is the last press on one?
  ran         \* the commands that the last press ran, in order

vars == <<file, line, errors, config, grabs, client, ran>>

DEFAULT == "DEFAULT"
AnyKey  == 0

-----------------------------------------------------------------------------
(* Words and lines *)

\* The table of lookup, as it stands there.
Keywords ==
  <<"applications", "bind-key", "bind-mouse", "border-active", "border-inactive",
    "border-mark", "border-urgent", "border-width", "cascade", "color", "command", "font",
    "ignore", "label", "menu-background", "menu-foreground", "menu-input", "menu-item",
    "menu-item-detail", "menu-prompt", "menu-selection-background",
    "menu-selection-foreground", "menu-separator", "no", "pointer", "run",
    "transition-duration", "window-active", "window-inactive", "window-hidden",
    "window-placement", "windows", "wm-name", "yes">>

\* The order of strcmp differs from that of the table in one place.
Order(w) ==
  CASE w = "window-hidden"   -> 29
    [] w = "window-inactive" -> 30
    [] OTHER                 -> CHOOSE i \in DOMAIN Keywords : Keywords[i] = w

\* bsearch halves the part of the table between lo and hi.
bsearch(w) ==
  LET n == Len(Keywords)
      found[lo \in 0 .. n, hi \in 0 .. n] ==
        LET mid == (lo + hi) \div 2
        IN  IF lo >= hi THEN FALSE
            ELSE IF w = Keywords[mid + 1] THEN TRUE
            ELSE IF Order(w) < Order(Keywords[mid + 1]) THEN found[lo, mid] ELSE found[mid + 1, hi]
  IN  w \in Range(Keywords) /\ found[0, n]

lookup(w) == IF bsearch(w) THEN w ELSE "STRING"

Word(w)   == [kind |-> "word", text |-> w]
Quoted(t) == [kind |-> "quoted", text |-> t]
Number(n) == [kind |-> "number", text |-> n]

yylex(lexeme) ==
  CASE lexeme.kind = "word"   -> lookup(lexeme.text)
    [] lexeme.kind = "quoted" -> "STRING"
    [] lexeme.kind = "number" -> "NUMBER"

\* The lines of a fixed length that the grammar knows.
Fixed ==
  {<<"color", n, "STRING">> : n \in ColorNames} \cup {<<"color", "border-width", "NUMBER">>}
    \cup {<<"font", n, "STRING">> : n \in FontNames}
    \cup {<<"label", n, "STRING">> : n \in LabelNames}
    \cup {<<"border-width", "NUMBER">>, <<"ignore", "STRING">>, <<"wm-name", "STRING">>,
          <<"transition-duration", "NUMBER">>, <<"window-placement", "cascade">>,
          <<"window-placement", "pointer">>}

\* Those that end in any number of STRINGs, but at least one.
Open == {<<w, "STRING">> : w \in {"bind-key", "bind-mouse", "command"}}

Prefix(s, n) == SubSeq(s, 1, n)

\* The lexemes that make up a statement at the beginning of a line, 0 if none do.  The
\* parser reduces a statement before it looks whether the line ends there.
Statement(tokens) ==
  LET fixed == {n \in DOMAIN tokens : Prefix(tokens, n) \in Fixed}
      open  == {n \in DOMAIN tokens : /\ n >= 3
                                      /\ Prefix(tokens, 2) \in Open
                                      /\ \A i \in 3 .. n : tokens[i] = "STRING"}
      all   == fixed \cup open
  IN  IF all = {} THEN 0 ELSE CHOOSE n \in all : \A m \in all : m <= n

-----------------------------------------------------------------------------
(* What a statement does *)

\* bind_mods: letters that it does not know mean nothing.
Mask(letter) ==
  CASE letter = "S" -> {"Shift"} [] letter = "C" -> {"Control"} [] letter = "M" -> {"Mod1"}
    [] letter = "4" -> {"Mod4"}  [] letter = "5" -> {"Mod5"}    [] OTHER -> {}

config_bind_mask(bind) == UNION {Mask(letter) : letter \in Notation[bind].letters}

\* Appends a second binding when the command has one.
Bound_Wrong(q, command, button, modifier) ==
  TAILQ_INSERT_TAIL(q, [name |-> command, button |-> button, modifier |-> modifier])

\* A command that has a binding keeps its place in the queue.
Bound(q, command, button, modifier) ==
  LET new == [name |-> command, button |-> button, modifier |-> modifier]
  IN  IF \E i \in DOMAIN q : q[i].name = command
      THEN [i \in DOMAIN q |-> IF q[i].name = command THEN new ELSE q[i]]
      ELSE TAILQ_INSERT_TAIL(q, new)

\* config_bind_key and config_bind_mouse refuse what is no key or button, or no command.
\* A command of several words is none.
Binds(keys, bind, words) ==
  Notation[bind].key \in keys /\ Len(words) = 1 /\ words[1] \in Commands

config_bind(cfg, queue, bind, words) ==
  [cfg EXCEPT ![queue] = Bound(@, words[1], Notation[bind].key, config_bind_mask(bind))]

config_bind_command(cfg, name, path) ==
  LET Other(command) == command.name # name
  IN  [cfg EXCEPT !.commands =
         TAILQ_INSERT_TAIL(SelectSeq(@, Other), [name |-> name, path |-> path])]

config_ignore(cfg, class) ==
  [cfg EXCEPT !.ignored = IF class \in Range(@) THEN @ ELSE TAILQ_INSERT_TAIL(@, class)]

\* The setting that a line gives; color border-width is border-width.
Target(tokens) ==
  CASE tokens[1] \in {"color", "font", "label"} /\ tokens[2] # "border-width"
         -> <<tokens[1], tokens[2]>>
    [] tokens[1] = "color" /\ tokens[2] = "border-width" -> <<"border-width">>
    [] OTHER -> <<tokens[1]>>

\* The action of the statement, which may be an error itself.
Accepted(texts, tokens) ==
  CASE tokens[1] = "bind-key"   -> Binds(Keysyms, texts[2], SubSeq(texts, 3, Len(texts)))
    [] tokens[1] = "bind-mouse" -> Binds(Buttons, texts[2], SubSeq(texts, 3, Len(texts)))
    [] OTHER                    -> TRUE

Done(cfg, texts, tokens) ==
  LET words == SubSeq(texts, 3, Len(texts))
  IN  CASE tokens[1] = "bind-key"   -> config_bind(cfg, "keybindings", texts[2], words)
        [] tokens[1] = "bind-mouse" -> config_bind(cfg, "mousebindings", texts[2], words)
        [] tokens[1] = "command"    -> config_bind_command(cfg, texts[2], words)
        [] tokens[1] = "ignore"     -> config_ignore(cfg, texts[2])
        [] OTHER -> [cfg EXCEPT !.settings[Target(tokens)] = texts[Len(texts)]]

-----------------------------------------------------------------------------
(* config_init and state_bind *)

Defaults ==
  [keybindings |-> << >>,
   mousebindings |-> <<[name |-> "window-move", button |-> "1", modifier |-> {"Mod1"}],
                       [name |-> "window-resize", button |-> "3", modifier |-> {"Mod1"}]>>,
   commands |-> <<[name |-> "terminal", path |-> <<"xterm">>]>>,
   ignored |-> << >>,
   settings |-> [s \in Settings |-> DEFAULT]]

Init ==
  /\ file \in Files
  /\ line = 1
  /\ errors = 0
  /\ config = Defaults
  /\ grabs = {}
  /\ client \in BOOLEAN
  /\ ran = << >>

Reading == line <= Len(file) /\ errors = 0

yyparse ==
  /\ Reading
  /\ LET lexemes == file[line]
         tokens == [i \in DOMAIN lexemes |-> yylex(lexemes[i])]
         n      == Statement(tokens)
         texts  == [i \in 1 .. n |-> lexemes[i].text]
         good   == n > 0 /\ Accepted(texts, Prefix(tokens, n))
     IN  /\ config' = IF good THEN Done(config, texts, Prefix(tokens, n)) ELSE config
         /\ errors' = IF lexemes = << >> \/ (good /\ n = Len(tokens)) THEN 0 ELSE 1
  /\ line' = line + 1
  /\ UNCHANGED <<file, grabs, client, ran>>

\* The first keycode that has the keysym, unshifted ones first; 0 if the keyboard has no
\* such key, which a grab takes for every key.
XKeysymToKeycode(keysym) ==
  LET Column(i) == {code \in DOMAIN Keyboard : Keyboard[code][i] = keysym}
      codes == IF Column(1) # {} THEN Column(1) ELSE Column(2)
  IN  IF codes = {} THEN 0 ELSE CHOOSE code \in codes : \A other \in codes : code <= other

\* AnyModifier: leaves the modifiers to the handler.
GrabsOf_Wrong(bindings) ==
  {<<XKeysymToKeycode(b.button), m>> : b \in Range(bindings), m \in SUBSET Modifiers}

GrabsOf(bindings) ==
  {<<XKeysymToKeycode(b.button), b.modifier>> : b \in Range(bindings)}

state_bind ==
  /\ ~Reading
  /\ grabs = {}
  /\ config.keybindings # << >>
  /\ grabs' = GrabsOf(config.keybindings)
  /\ UNCHANGED <<file, line, errors, config, client, ran>>

\* The server tells the program of a press only if it grabbed just this combination.
Delivered(press) ==
  {<<press.code, press.state>>, <<AnyKey, press.state>>} \cap grabs # {}

-----------------------------------------------------------------------------
(* The handlers *)

Runs(b) == Context(b.name) = "CLIENT" => client

Names(bindings) == [i \in DOMAIN bindings |-> bindings[i].name]

\* Looks at the keysym without Shift only.
PressRuns_Wrong(press) ==
  LET Matches(b) == /\ press.state \ Locks = b.modifier
                    /\ b.button = Keyboard[press.code][1]
                    /\ Runs(b)
      q == config.keybindings
  IN  Names(Picked(q, {i \in DOMAIN q : Matches(q[i])}))

\* A keysym that the key has only with Shift wants Shift beside the modifiers bound.
PressRuns(press) ==
  LET state   == press.state \ Locks
      keysym  == Keyboard[press.code][1]
      skeysym == Keyboard[press.code][2]
      Shifted(b) == b.button # keysym /\ b.button = skeysym
      Matches(b) == /\ state = b.modifier \cup (IF Shifted(b) THEN {"Shift"} ELSE {})
                    /\ b.button = (IF Shifted(b) THEN skeysym ELSE keysym)
                    /\ Runs(b)
      q == config.keybindings
  IN  Names(Picked(q, {i \in DOMAIN q : Matches(q[i])}))

\* Between presses a client may become active, or cease to be.
event_handle_key_press(press) ==
  /\ Delivered(press)
  /\ ran' = PressRuns(press)
  /\ client' \in BOOLEAN
  /\ UNCHANGED <<file, line, errors, config, grabs>>

\* All buttons are grabbed, with all modifiers, when the keys are.
event_handle_button_press(button, state) ==
  LET Matches(b) == b.button = button /\ b.modifier = state \ Locks /\ Runs(b)
      q == config.mousebindings
  IN  /\ ~Reading
      /\ config.keybindings # << >> => grabs # {}
      /\ ran' = Names(Picked(q, {i \in DOMAIN q : Matches(q[i])}))
      /\ client' \in BOOLEAN
      /\ UNCHANGED <<file, line, errors, config, grabs>>

Next ==
  \/ yyparse
  \/ state_bind
  \/ \E press \in Presses :
       \/ event_handle_key_press(press)
       \/ \E button \in {"1", "3"} : event_handle_button_press(button, press.state)

Spec == Init /\ [][Next]_vars

-----------------------------------------------------------------------------
(* Properties *)

TypeOK ==
  /\ file \in Files /\ line \in 1 .. Len(file) + 1 /\ errors \in {0, 1}
  /\ client \in BOOLEAN
  /\ \A b \in Range(config.keybindings) :
       b.name \in Commands /\ b.button \in Keysyms /\ b.modifier \subseteq Modifiers
  /\ \A b \in Range(config.mousebindings) : b.name \in Commands /\ b.button \in Buttons
  /\ grabs \subseteq ({AnyKey} \cup DOMAIN Keyboard) \X SUBSET Modifiers
  /\ Range(ran) \subseteq Commands

\* What line i of the file is about, when it is a correct bind line of that kind.
BoundBy(i, kind) ==
  LET l == file[i]
      keys == IF kind = "bind-key" THEN Keysyms ELSE Buttons
  IN  IF /\ Len(l) = 3 /\ l[1] = Word(kind)
         /\ Notation[l[2].text].key \in keys /\ l[3].text \in Commands
      THEN [name |-> l[3].text, button |-> Notation[l[2].text].key,
            modifier |-> config_bind_mask(l[2].text)]
      ELSE NULL

\* In whatever order the file binds and binds again: each command has one binding, that
\* of the last line that was read and names it, the defaults counting as lines before
\* the first.
LastLineWins ==
  \A kind \in {"bind-key", "bind-mouse"} :
    LET q == IF kind = "bind-key" THEN config.keybindings ELSE config.mousebindings
        d == IF kind = "bind-key" THEN {} ELSE Range(Defaults.mousebindings)
        lines == {i \in 1 .. line - 1 : BoundBy(i, kind) # NULL}
        Later(i, name) == \E j \in lines : j > i /\ BoundBy(j, kind).name = name
    IN  /\ \A i, j \in DOMAIN q : q[i].name = q[j].name => i = j
        /\ errors = 0 =>
             Range(q) = {b \in d : ~Later(0, b.name)}
                          \cup {BoundBy(i, kind) : i \in {k \in lines : ~Later(k, BoundBy(k, kind).name)}}

\* The keys of a binding, when its keysym can be had with just the modifiers it names.
Plain(b) ==
  \E code \in DOMAIN Keyboard :
    \/ Keyboard[code][1] = b.button
    \/ Keyboard[code][2] = b.button /\ "Shift" \in b.modifier

PressOf(b) == [code |-> XKeysymToKeycode(b.button), state |-> b.modifier]

\* What was grabbed and what is looked for on a press are computed apart, through keycodes
\* and through keysyms: pressing the keys of a binding is seen, and runs its command.
BoundKeysWork ==
  grabs # {} =>
    \A b \in Range(config.keybindings) :
      Plain(b) => /\ Delivered(PressOf(b))
                  /\ Runs(b) => b.name \in Range(PressRuns(PressOf(b)))

\* Nothing else is taken from the applications: a press that the program gets runs
\* something while a client is active, as long as each keysym that is bound is on the
\* keyboard and can be had with the modifiers named.
OnlyBoundKeysTaken ==
  (client /\ \A b \in Range(config.keybindings) : Plain(b)) =>
    \A press \in Presses : Delivered(press) => PressRuns(press) # << >>

\* Together: grabs and matches agree, press by press and binding by binding.
GrabsMatchBindings == BoundKeysWork /\ OnlyBoundKeysTaken

\* A press runs one command, when no two lines bind the same keysym with the same
\* modifiers.
OneCommandAPress ==
  (\A b, c \in Range(config.keybindings) :
     (b.button = c.button /\ b.modifier = c.modifier) => b = c) => Len(ran) <= 1

\* A line that is spelled as the grammar has it is read without an error.
Spelled(lexeme) ==
  CASE lexeme.kind = "word" -> IF lexeme.text \in Range(Keywords) THEN lexeme.text ELSE "STRING"
    [] OTHER -> yylex(lexeme)

GrammarIsReachable ==
  (\A i \in 1 .. line - 1 : [k \in DOMAIN file[i] |-> Spelled(file[i][k])] \in Fixed) => errors = 0

\* The example configuration is read to its end.
ExampleIsRead == errors = 0
=============================================================================
