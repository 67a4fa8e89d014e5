---------------------------- MODULE ShellProfile ----------------------------
(***************************************************************************)
(* The managed block in one PowerShell profile: install, uninstall and the *)
(* sweep of a historical block, src/integration/shell.rs, over the file    *)
(* writes of src/integration/transaction.rs.  The user edits, deletes and  *)
(* creates the profile at any moment.                                      *)
(*                                                                         *)
(* A text is a sequence of tokens.  A CRLF is two of them, a block is its  *)
(* markers and its body, and the body carries the newlines inside it.      *)
(* What the user writes is "x"; encodings are left out.  A step that fails *)
(* and a kill of the process leave the same file behind and are one        *)
(* action.                                                                 *)
(***************************************************************************)
EXTENDS Naturals, Sequences, SequencesExt

CONSTANTS
  None,       \* the profile does not exist
  MaxText,    \* bound: tokens the user's own profile starts with
  MaxEdits,   \* bound: edits by the user
  MaxFaults   \* bound: steps that fail

Lf   == <<"lf">>
CrLf == <<"cr", "lf">>

Begin(brand) == IF brand = "winter" THEN "begin" ELSE "oldbegin"
Finish(brand) == IF brand = "winter" THEN "end" ELSE "oldend"

Token == {"x", "cr", "lf", "begin", "end", "bodyLf", "bodyCrLf", "edited",
          "oldbegin", "oldend", "oldbody"}

VARIABLES
  disk,      \* what the profile holds
  hosted,    \* its folder exists, or its shell is installed
  command,   \* the last command: install, uninstall or sweep
  at,        \* progress of the command
  snap,      \* what the command read
  backup,    \* the last backup taken
  report,    \* the status of the last command
  edits, faults,  \* bounded counters
  mine,      \* history: how much of what the user last left is outside the blocks
  late,      \* history: the last edit fell between the last check and the move
  touched,   \* history: the user edited since the command read the profile
  original   \* history: the text the block was added to, while nothing else changed

process == <<command, at, snap, backup, report>>
history == <<mine, late, touched, original>>
vars == <<disk, hosted, process, edits, faults, history>>

-----------------------------------------------------------------------------
(* The block *)

Occurs(pattern, text) ==
  \E i \in 1..Len(text) : i + Len(pattern) - 1 <= Len(text)
                          /\ SubSeq(text, i, i + Len(pattern) - 1) = pattern

\* detect_newline; a body that was written with CRLF contains some.
Newline(text) == IF Occurs(CrLf, text) \/ "bodyCrLf" \in Range(text) THEN CrLf ELSE Lf

ManagedBlock(newline) == <<"begin", IF newline = CrLf THEN "bodyCrLf" ELSE "bodyLf", "end">>

Nth(numbers, k) == CHOOSE i \in numbers : Cardinality({j \in numbers : j <= i}) = k

\* normalized_eq: a CR in front of an LF does not count.
Counted(text) == {i \in DOMAIN text : ~(text[i] = "cr" /\ i < Len(text) /\ text[i + 1] = "lf")}

\* Newlines inside a body are part of its token.
Plain(token) == IF token = "bodyCrLf" THEN "bodyLf" ELSE token

Normalized(text) ==
  [k \in 1..Cardinality(Counted(text)) |-> Plain(text[Nth(Counted(text), k)])]

Places(token, text) == {i \in DOMAIN text : text[i] = token}

\* Mutant of Located: the first pair of markers is the block.
FirstPair(text, brand) ==
  \E b \in Places(Begin(brand), text), e \in Places(Finish(brand), text) :
     b < e /\ \A i \in Places(Begin(brand), text) : b <= i

\* block_state: one begin marker and one end marker, in this order.
Located(text, brand) ==
  \E b, e \in DOMAIN text :
     b < e /\ Places(Begin(brand), text) = {b} /\ Places(Finish(brand), text) = {e}

BlockState(text, brand) ==
  IF Located(text, brand) THEN "Present"
  ELSE IF {Begin(brand), Finish(brand)} \cap Range(text) = {} THEN "Absent"
  ELSE "Malformed"

Start(text, brand) == CHOOSE b \in Places(Begin(brand), text) :
                         \A i \in Places(Begin(brand), text) : b <= i
Stop(text, brand) == CHOOSE e \in Places(Finish(brand), text) : e > Start(text, brand)
Before(text, brand) == SubSeq(text, 1, Start(text, brand) - 1)
Block(text, brand)  == SubSeq(text, Start(text, brand), Stop(text, brand))
Behind(text, brand) == SubSeq(text, Stop(text, brand) + 1, Len(text))

Intact(text) == Normalized(Block(text, "winter")) = Normalized(ManagedBlock(Newline(text)))

-----------------------------------------------------------------------------
(* What a command makes of the text *)

Added(text) ==
  IF text = None THEN ManagedBlock(CrLf) \o CrLf
  ELSE text \o (IF text = <<>> THEN <<>> ELSE Newline(text))
            \o ManagedBlock(Newline(text)) \o Newline(text)

Refreshed(text) ==
  Before(text, "winter") \o ManagedBlock(Newline(text)) \o Behind(text, "winter")

WithoutSuffix(text, suffix) ==
  IF Len(text) >= Len(suffix) /\ SubSeq(text, Len(text) - Len(suffix) + 1, Len(text)) = suffix
  THEN SubSeq(text, 1, Len(text) - Len(suffix)) ELSE text

\* Mutant of Cut: the newlines around the block stay.
CutBlock(text, brand) == Before(text, brand) \o Behind(text, brand)

\* The newline install put in front of the block goes with it, and the one
\* behind it when nothing else is there.
Cut(text, brand) ==
  WithoutSuffix(Before(text, brand), Newline(text))
     \o (IF Behind(text, brand) = Newline(text) THEN <<>> ELSE Behind(text, brand))

Brand(what) == IF what = "sweep" THEN "old" ELSE "winter"

\* Mutant of Verdict: an edited block is removed like any other.
VerdictForced(what, text) ==
  LET block == BlockState(text, Brand(what)) IN
  IF text = None
  THEN IF what # "install" THEN "Missing" ELSE IF hosted THEN "Create" ELSE "Skipped"
  ELSE IF block = "Malformed" THEN "Conflict"
  ELSE IF what = "install" THEN "Update"
  ELSE IF block = "Absent" THEN "Missing"
  ELSE "Removed"

\* The status a command reports if nothing goes wrong any more.
Verdict(what, text) ==
  LET block == BlockState(text, Brand(what)) IN
  IF text = None
  THEN IF what # "install" THEN "Missing" ELSE IF hosted THEN "Create" ELSE "Skipped"
  ELSE IF block = "Malformed" THEN "Conflict"
  ELSE IF block = "Absent" THEN IF what = "install" THEN "Update" ELSE "Missing"
  ELSE IF what = "install" THEN IF Intact(text) THEN "Unchanged" ELSE "Update"
  ELSE IF what = "uninstall" /\ ~Intact(text) THEN "Preserved"
  ELSE "Removed"

Replacement ==
  IF command # "install" THEN Cut(snap, Brand(command))
  ELSE IF snap # None /\ BlockState(snap, "winter") = "Present" THEN Refreshed(snap)
  ELSE Added(snap)

-----------------------------------------------------------------------------
(* A command *)

Ended(status) ==
  /\ at' = "idle" /\ report' = status /\ snap' = None /\ backup' = None

Read(what) ==
  /\ at = "idle"
  /\ command' = what /\ touched' = FALSE
  /\ IF Verdict(what, disk) \in {"Create", "Update", "Removed"}
     THEN at' = "read" /\ report' = "none" /\ snap' = disk /\ UNCHANGED backup
     ELSE Ended(Verdict(what, disk))
  /\ UNCHANGED <<disk, hosted, edits, faults, mine, late, original>>

\* A profile that is created has nothing to back up.
BackUp ==
  /\ at = "read"
  /\ at' = "backed"
  /\ backup' = IF snap = None THEN backup ELSE snap
  /\ UNCHANGED <<disk, hosted, command, snap, report, edits, faults, history>>

\* Mutant of Swappable: nothing is compared.
Assumed == TRUE

\* assert_compare_and_swap
Swappable == disk = snap

\* atomic_replace compares before it stages the new text and once more after.
Check ==
  /\ at \in {"backed", "staged"}
  /\ IF Swappable
     THEN /\ at' = IF at = "backed" THEN "staged" ELSE "checked"
          /\ UNCHANGED <<snap, backup, report>>
     ELSE Ended("Conflict")
  /\ UNCHANGED <<disk, hosted, command, edits, faults, history>>

Move ==
  /\ at = "checked"
  /\ disk' = Replacement /\ at' = "moved"
  /\ original' = IF command = "install" /\ (snap = None \/ BlockState(snap, "winter") = "Absent")
                 THEN <<snap>> ELSE <<>>
  /\ touched' = FALSE
  /\ UNCHANGED <<hosted, command, snap, backup, report, edits, faults, mine, late>>

Verify ==
  /\ at = "moved"
  /\ Ended(IF disk = Replacement THEN Verdict(command, snap) ELSE "Conflict")
  /\ UNCHANGED <<disk, hosted, command, edits, faults, history>>

Fail ==
  /\ at # "idle" /\ faults < MaxFaults
  /\ faults' = faults + 1
  /\ Ended("Skipped")
  /\ UNCHANGED <<disk, hosted, command, edits, history>>

-----------------------------------------------------------------------------
(* The user *)

Inside(text, brand) ==
  IF Located(text, brand) THEN Start(text, brand)..Stop(text, brand) ELSE {}

\* How much of a text is the user's: what stands in a block is Winter's, whoever
\* wrote it.
Written(text) ==
  IF text = None THEN None
  ELSE Cardinality(Places("x", text) \ (Inside(text, "winter") \cup Inside(text, "old")))

Leaves(text) ==
  /\ edits < MaxEdits /\ text # disk
  /\ disk' = text /\ edits' = edits + 1
  /\ mine' = Written(text)
  /\ late' = (at = "checked")
  /\ touched' = TRUE /\ original' = <<>>
  /\ UNCHANGED <<hosted, process, faults>>

UnixNewlines(text) == Normalized(text)

Edit ==
  IF disk = None THEN hosted /\ Leaves(<<"x">>)
  ELSE \/ \E i \in 1..(Len(disk) + 1) : Leaves(InsertAt(disk, i, "x"))
       \/ Leaves(None)
       \/ Leaves(UnixNewlines(disk))
       \/ Leaves(disk \o ManagedBlock(Newline(disk)))
       \/ \E i \in DOMAIN disk :
            \/ disk[i] \in {"bodyLf", "bodyCrLf"} /\ Leaves([disk EXCEPT ![i] = "edited"])
            \/ disk[i] \in {"begin", "end"} /\ Leaves(RemoveAt(disk, i))

-----------------------------------------------------------------------------
OwnTexts == UNION {[1..n -> {"x", "cr", "lf"}] : n \in 0..MaxText}
OldBlock == <<"oldbegin", "oldbody", "oldend">>

\* A machine without Winter, where an earlier version may have left its block.
Init ==
  /\ disk \in {None} \cup OwnTexts \cup {t \o Lf \o OldBlock \o Lf : t \in OwnTexts}
  /\ hosted \in BOOLEAN /\ (disk # None => hosted)
  /\ command = "none" /\ at = "idle" /\ snap = None /\ backup = None /\ report = "none"
  /\ edits = 0 /\ faults = 0
  /\ mine = Written(disk) /\ late = FALSE /\ touched = FALSE /\ original = <<>>

Next ==
  \/ \E what \in {"install", "uninstall", "sweep"} : Read(what)
  \/ BackUp \/ Check \/ Move \/ Verify \/ Fail
  \/ Edit

Spec == Init /\ [][Next]_vars

-----------------------------------------------------------------------------
(* Properties *)

\* Every variable has its type; a command that is going to write has read a
\* text it can edit.
TypeOK ==
  /\ disk \in Seq(Token) \cup {None} /\ snap \in Seq(Token) \cup {None}
  /\ backup \in Seq(Token) \cup {None}
  /\ {hosted, late, touched} \subseteq BOOLEAN
  /\ command \in {"none", "install", "uninstall", "sweep"}
  /\ at \in {"idle", "read", "backed", "staged", "checked", "moved"}
  /\ report \in {"none", "Create", "Update", "Unchanged", "Missing", "Preserved", "Removed",
                 "Conflict", "Skipped"}
  /\ edits \in 0..MaxEdits /\ faults \in 0..MaxFaults
  /\ Len(original) <= 1 /\ Range(original) \subseteq Seq(Token) \cup {None}
  /\ at # "idle" => /\ snap = None \/ BlockState(snap, Brand(command)) # "Malformed"
                    /\ Replacement \in Seq(Token)

\* Whatever commands run, fail or are killed, the profile holds what the user
\* last left in it outside the blocks, unless that edit fell into the window
\* between the second comparison and the move that transaction.rs documents.
UserTextSurvives ==
  \/ late
  \/ Written(disk) = mine
  \/ mine = None /\ Written(disk) = 0

\* Removing a block from a profile nobody touched since it was added leaves the
\* text as it was, and an empty profile where there was none.  The one text
\* this does not hold for ends in a lone CR and has no CRLF: the LF install
\* appends completes one.
Reversible ==
  [][\A text \in Range(original) :
       command = "uninstall" /\ at = "checked" /\ at' = "moved" =>
          IF text = None THEN disk' = <<>> ELSE
               \/ disk' = text
               \/ Last(text) = "cr" /\ ~Occurs(CrLf, text)]_vars

\* uninstall never removes a block the user edited, and install replaces one
\* only after a backup of the text it is in; the sweep leaves it alone.
EditedBlocksSurvive ==
  [][at = "checked" /\ at' = "moved" /\ ~late /\ disk # None
       /\ Located(disk, "winter") /\ ~Intact(disk) =>
          \/ Located(disk', "winter") /\ Block(disk', "winter") = Block(disk, "winter")
          \/ command = "install" /\ backup = disk]_vars

\* What a report claims holds of the profile until the user touches it: a block
\* that is there is there once, and one that was removed left no marker behind.
ReportIsTrue ==
  at = "idle" /\ ~touched =>
     /\ report \in {"Create", "Update", "Unchanged"} =>
           BlockState(disk, "winter") = "Present" /\ Intact(disk)
     /\ report = "Removed" => BlockState(disk, Brand(command)) = "Absent"

=============================================================================
