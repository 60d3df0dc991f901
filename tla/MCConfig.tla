------------------------------ MODULE MCConfig ------------------------------
(* Files, keyboards and presses for Config. *)
EXTENDS Config, TLC

LettersOf == ("M" :> {"M"} @@ "MS" :> {"M", "S"} @@ "CMS" :> {"C", "M", "S"}
                @@ "CM4" :> {"C", "M", "4"} @@ "XM" :> {"X", "M"})

Keys == {"q", "r", "Tab", "m", "less", "comma", "space", "a", "h", "l", "j", "k", "u", "i", "n", "c",
         "Return", "BackSpace", "t", "w", "F20"}

Pairs == (DOMAIN LettersOf) \X (Keys \cup {"NoSuchKey"} \cup Buttons \cup {"9"})

MCNotation ==
  LET Name(p) == p[1] \o "-" \o p[2]
      PairOf(name) == CHOOSE p \in Pairs : Name(p) = name
  IN  [name \in {Name(p) : p \in Pairs} |->
         [letters |-> LettersOf[PairOf(name)[1]], key |-> PairOf(name)[2]]]

\* Some keys of a US keyboard, where the comma needs Shift to become less, and of one
\* that has a key of its own for less.
US  == (24 :> <<"q", "Q">> @@ 58 :> <<"m", "M">> @@ 59 :> <<"comma", "less">>)
ISO == (24 :> <<"q", "Q">> @@ 58 :> <<"m", "M">> @@ 59 :> <<"comma", "semicolon">>
          @@ 94 :> <<"less", "greater">>)

MCPresses ==
  [code : {24, 59}, state : {{}, {"Mod1"}, {"Shift", "Mod1"}, {"Mod1", "Mod2"}}]

BindKey(bind, command)   == <<Word("bind-key"), Word(bind), Word(command)>>
BindMouse(bind, command) == <<Word("bind-mouse"), Word(bind), Word(command)>>
Command(name, path)      == <<Word("command"), Word(name), Quoted(path)>>

\* Lines that bind, bind again, bind what is not there, and some that are wrong.
Lines ==
  {BindKey("M-q", "window-close"), BindKey("M-q", "window-hide"), BindKey("MS-q", "window-close"),
   BindKey("XM-q", "terminal"), BindKey("M-less", "window-cycle"),
   BindKey("MS-less", "window-rcycle"), BindKey("M-F20", "quit"),
   BindKey("M-NoSuchKey", "terminal"), BindKey("M-comma", "no-command"),
   BindMouse("M-1", "window-hide"), BindMouse("M-3", "window-move"),
   BindMouse("M-9", "window-move"), Command("editor", "vi"),
   <<Word("command"), Word("editor"), Word("vi"), Word("file")>>,
   <<Word("ignore"), Word("Polybar")>>, << >>,
   <<Word("color"), Word("border-width"), Number("3")>>,
   <<Word("wm-name"), Word("wm"), Word("wm")>>}

MCFiles == [1 .. 3 -> Lines]

\* A file with one label, and the bind lines of the example configuration.
HiddenLabel == {<< <<Word("label"), Word("window-hidden"), Quoted("h")>> >>}

ExampleBinds ==
  <<BindKey("CMS-q", "quit"), BindKey("CMS-r", "restart"), BindKey("M-Tab", "group-cycle"),
    BindKey("M-q", "window-close"), BindKey("M-m", "window-hide"),
    BindKey("M-less", "window-cycle"), BindKey("MS-less", "window-rcycle"),
    BindKey("M-space", "menu-exec"), BindKey("MS-a", "menu-command"),
    BindKey("MS-h", "window-tile-left"), BindKey("CMS-h", "window-tile-left-third"),
    BindKey("MS-l", "window-tile-right"), BindKey("CMS-l", "window-tile-right-third"),
    BindKey("MS-j", "window-tile-down"), BindKey("CMS-j", "window-tile-down-third"),
    BindKey("MS-k", "window-tile-up"), BindKey("CMS-k", "window-tile-up-third"),
    BindKey("MS-u", "window-tile-up-left"), BindKey("CMS-u", "window-tile-up-left-third"),
    BindKey("MS-i", "window-tile-up-right"), BindKey("CMS-i", "window-tile-up-right-third"),
    BindKey("MS-n", "window-tile-down-left"), BindKey("CMS-n", "window-tile-down-left-third"),
    BindKey("MS-m", "window-tile-down-right"), BindKey("CMS-m", "window-tile-down-right-third"),
    BindKey("MS-c", "window-center"), BindKey("MS-Return", "window-maximize"),
    BindKey("CM4-h", "window-move-to-screen-left"),
    BindKey("CM4-l", "window-move-to-screen-right"),
    BindKey("CM4-j", "window-move-to-screen-below"),
    BindKey("CM4-k", "window-move-to-screen-above"), BindKey("MS-BackSpace", "window-restore"),
    BindKey("M-t", "terminal"), BindKey("MS-w", "windows"),
    BindMouse("M-1", "window-move"), BindMouse("M-3", "window-resize")>>

Example == {ExampleBinds}
=============================================================================
