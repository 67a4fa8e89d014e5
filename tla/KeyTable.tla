------------------------------ MODULE KeyTable ------------------------------
(***************************************************************************)
(* The canonical key table of src/keys.rs and the chords that              *)
(* src/prefix.rs parses with it.  A logical key is named by its canonical  *)
(* spelling; a chord is a logical key with the modifiers held; the text of *)
(* a chord is the sequence of its trimmed, lower-case tokens between the   *)
(* plus signs.                                                             *)
(***************************************************************************)
EXTENDS Integers, Sequences

Modifier == {"ctrl", "alt", "shift", "win"}

MkChord(mods, key) == [mods |-> mods, key |-> key]

NoChord == [mods |-> {}, key |-> "none"]   \* parse_key_chord: Err
NoKey == "none"                            \* parse_key_name: None
NoVirtualKey == 0                          \* KeyDef::vk: None

-----------------------------------------------------------------------------
\* A row of the table: the logical key, the names it is written with besides
\* its canonical one, and its virtual key.
Row(canonical, alias, code) ==
  [canonical |-> canonical, names |-> {canonical} \cup alias, vk |-> code]

Letter == <<"a", "b", "c", "d", "e", "f", "g", "h", "i", "j", "k", "l", "m",
            "n", "o", "p", "q", "r", "s", "t", "u", "v", "w", "x", "y", "z">>
Digit == <<"0", "1", "2", "3", "4", "5", "6", "7", "8", "9">>
Function == <<"f1", "f2", "f3", "f4", "f5", "f6", "f7", "f8", "f9", "f10",
              "f11", "f12">>
Arrow == <<"left", "up", "right", "down">>

VK_ESCAPE == 27

Punctuation ==
  {Row("comma", {}, 188), Row("period", {"dot"}, 190), Row("semicolon", {}, 186),
   Row("slash", {}, 191), Row("backslash", {}, 220), Row("minus", {}, 189),
   Row("equals", {}, 187), Row("quote", {}, 222), Row("backtick", {}, 192),
   Row("left-bracket", {"left_bracket"}, 219), Row("right-bracket", {"right_bracket"}, 221)}

\* The character each of them also answers to ("grave" stands for the back quote,
\* which no TLA+ string holds).
SINGLE_CHAR_PUNCT ==
  LET Char(char, key) == [char |-> char, key |-> key]
  IN {Char(",", "comma"), Char(".", "period"), Char(";", "semicolon"), Char("/", "slash"),
      Char("\\", "backslash"), Char("-", "minus"), Char("=", "equals"), Char("'", "quote"),
      Char("grave", "backtick"), Char("[", "left-bracket"), Char("]", "right-bracket")}

\* Escape is recognized and never injected.
KEY_DEFS ==
  {Row(Arrow[i], {}, 36 + i) : i \in DOMAIN Arrow}
  \cup {Row("escape", {"esc"}, NoVirtualKey), Row("tab", {}, 9), Row("space", {}, 32)}
  \cup {Row(Function[i], {}, 111 + i) : i \in DOMAIN Function}
  \cup Punctuation
  \cup {Row(Digit[i], {}, 47 + i) : i \in DOMAIN Digit}
  \cup {Row(Letter[i], {}, 64 + i) : i \in DOMAIN Letter}

LogicalKey == {r.canonical : r \in KEY_DEFS}

\* The assertions the table compiles with.
TableIsConsistent ==
  /\ \A r, s \in KEY_DEFS :
       r # s => /\ r.canonical # s.canonical
                /\ r.names \cap s.names = {}
                /\ r.vk # s.vk
  /\ {r.canonical : r \in {s \in KEY_DEFS : s.vk = NoVirtualKey}} = {"escape"}

ASSUME TableAssumption == TableIsConsistent

\* Spellings of a function key that its number parses from besides its name.
LooseFunction ==
  {<<"f01", "f1">>, <<"f04", "f4">>, <<"f012", "f12">>}

ParseKeyName(value) ==
  LET named == {r.canonical : r \in {s \in KEY_DEFS : value \in s.names}}
      loose == {f[2] : f \in {g \in LooseFunction : g[1] = value}}
      spelt == {c.key : c \in {d \in SINGLE_CHAR_PUNCT : d.char = value}}
      found == named \cup loose \cup spelt
  IN IF found = {} THEN NoKey ELSE CHOOSE k \in found : TRUE

-----------------------------------------------------------------------------
\* The two maps between virtual keys and logical keys.

LogicalKeyForVk(code) ==
  IF code = VK_ESCAPE THEN "escape"
  ELSE LET rows == {r \in KEY_DEFS : r.vk = code /\ code # NoVirtualKey}
       IN IF rows = {} THEN NoKey ELSE (CHOOSE r \in rows : TRUE).canonical

VirtualKeyForLogicalKey(key) ==
  LET rows == {r \in KEY_DEFS : r.canonical = key}
  IN IF rows = {} THEN NoVirtualKey ELSE (CHOOSE r \in rows : TRUE).vk

-----------------------------------------------------------------------------
\* The modifier a token names; "control" is a second name of ctrl.
TokenModifier(token) ==
  CASE token \in {"ctrl", "control"} -> "ctrl"
    [] token \in {"alt", "shift"}    -> token
    [] OTHER                         -> "none"

ModifierTokens(tokens) ==
  {i \in DOMAIN tokens : TokenModifier(tokens[i]) # "none"}

\* parse_key_chord: no empty token, no Windows modifier, no modifier twice and
\* exactly one key, which the table knows.
ParseChord(tokens) ==
  LET mods == ModifierTokens(tokens)
      keys == DOMAIN tokens \ mods
      key(i) == ParseKeyName(tokens[i])
  IN IF /\ \A i \in DOMAIN tokens : tokens[i] \notin {"", "win", "windows", "super"}
        /\ \A i, j \in mods : TokenModifier(tokens[i]) = TokenModifier(tokens[j]) => i = j
        /\ \E i \in keys : keys = {i} /\ key(i) # NoKey
     THEN MkChord({TokenModifier(tokens[i]) : i \in mods}, key(CHOOSE i \in keys : TRUE))
     ELSE NoChord

\* is_reserved_system_chord: chords of Windows and of Windows Terminal itself.
IsReservedSystemChord(c) ==
  \/ "win" \in c.mods
  \/ c.key \in {"tab", "escape"} /\ c.mods \cap {"alt", "ctrl"} # {}
  \/ c.key = "f4" /\ "alt" \in c.mods
  \/ c.key \in {"t", "w"} /\ {"ctrl", "shift"} \subseteq c.mods

default_prefix_chord == MkChord({"ctrl"}, "b")

=============================================================================
