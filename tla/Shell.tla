-------------------------------- MODULE Shell --------------------------------
(***************************************************************************)
(* demo/ch3/Project1/simple-shell.c: a shell with a history of             *)
(* MAX_COMMANDS commands that runs commands in the foreground and, after   *)
(* "&", in the background.                                                 *)
(*                                                                         *)
(* inputBuffer is modelled cell by cell, because what an earlier line left *)
(* behind a shorter one matters.  A cell holds a character; "exit" and     *)
(* "history" are one cell each.  Between two reads the shell does nothing  *)
(* that other processes see, so that one line is one action.               *)
(***************************************************************************)
EXTENDS Integers, SequencesExt

CONSTANTS
    Lines,         \* what one read may give: a line up to its NL, or
                   \* MAX_LINE characters of a longer one
    Garbage,       \* what main() may find in inputBuffer, not initialized
    MAX_LINE, MAX_COMMANDS,
    Pid,           \* process ids, for as many children as may exist at once
    LineBound,     \* bound: commands typed
    NUL, NL, Unset, None

ASSUME ShellAssumption ==
    /\ MAX_LINE \in Nat \ {0, 1} /\ MAX_COMMANDS \in Nat \ {0}
    /\ LineBound \in Nat
    /\ \A g \in Garbage : Len(g) = MAX_LINE /\ g \in Seq(Range(g))
    /\ \A l \in Lines : Len(l) \in 1 .. MAX_LINE
    /\ \A l \in Lines : l[Len(l)] = NL \/ Len(l) = MAX_LINE
    /\ \A l \in Lines : l \in Seq(Range(l)) /\ NUL \notin Range(l)
    /\ NL # NUL /\ {NL, NUL} \cap {" ", "&"} = {}
    /\ None \notin Pid

\* The terminal gives read() one line at a time.
ASSUME TerminalAssumption ==
    \A l \in Lines : \A i \in DOMAIN l : l[i] = NL => i = Len(l)

VARIABLES
    phase,          \* "read", "fork", "wait", "exited" or "undefined"
    eof,            \* the end of the input
    inputBuffer,
    args, background,
    history, display_history, command_count,
    child,          \* what fork returned last
    proc,           \* proc[p]: "free", "running" or "zombie"
    \* The history of the run:
    log,            \* the commands, as the user means them
    restored,       \* the last command came from the history
    behind          \* children started in the background

setupVars == <<inputBuffer, args, background, history, display_history,
               command_count, log, restored>>
children  == <<child, proc, behind>>
shellVars == <<phase, eof, setupVars, children>>

Slot == 0 .. MAX_COMMANDS - 1

ShellTypeOK ==
    /\ phase \in {"read", "fork", "wait", "exited", "undefined"}
    /\ Len(inputBuffer) = MAX_LINE
    /\ DOMAIN history = Slot /\ DOMAIN display_history = Slot
    /\ \A s \in Slot : Len(history[s]) < MAX_LINE
    /\ command_count = Len(log)
    /\ proc \in [Pid -> {"free", "running", "zombie"}]
    /\ child \in Pid \cup {None} /\ behind \subseteq Pid

ShellInit ==
    /\ phase = "read" /\ eof = FALSE
    /\ inputBuffer \in Garbage
    /\ args = Unset /\ background = FALSE
    /\ history = [s \in Slot |-> <<>>]
    /\ display_history = [s \in Slot |-> <<>>]
    /\ command_count = 0
    /\ child = None /\ proc = [p \in Pid |-> "free"]
    /\ log = <<>> /\ restored = FALSE /\ behind = {}

(***************************************************************************)
(* Strings                                                                 *)
(***************************************************************************)

\* The cells before the first one that holds c, all of them if none does.
Before(s, c) ==
    IF \E i \in DOMAIN s : s[i] = c
    THEN SubSeq(s, 1, SelectInSeq(s, LAMBDA x : x = c) - 1)
    ELSE s

CString(cells)    == Before(cells, NUL)
Put(cells, s)     == s \o SubSeq(cells, Len(s) + 1, Len(cells))
strcpy(cells, s)  == Put(cells, Append(CString(s), NUL))

(***************************************************************************)
(* The loop of setup() over the line: blanks and the newline are replaced  *)
(* by NULs, and args gets the beginnings of the words.  A newline does not *)
(* end the word; only what an older line left behind one shows it.         *)
(***************************************************************************)
ParseCell(p, i) ==
    LET begun == IF p.start = 0 THEN i ELSE p.start
        added == IF p.start = 0 THEN p.words ELSE Append(p.words, p.start)
    IN CASE p.cells[i] = " " -> [p EXCEPT !.cells[i] = NUL, !.start = 0,
                                          !.words = added]
         [] p.cells[i] = NL  -> [p EXCEPT !.cells[i] = NUL, !.words = added]
         [] p.cells[i] = "&" ->
               IF i = 1
               THEN [p EXCEPT !.background = TRUE, !.start = 1,
                              !.outside = TRUE]
               ELSE [p EXCEPT !.background = TRUE, !.start = begun,
                              !.cells[i - 1] = NUL]
         [] OTHER            -> [p EXCEPT !.start = begun]

Parse(cells, length) ==
    LET run[i \in 0 .. length] ==
            IF i = 0 THEN [cells |-> cells, start |-> 0, words |-> <<>>,
                           background |-> FALSE, outside |-> FALSE]
                     ELSE ParseCell(run[i - 1], i)
    IN run[length]

Word(cells, start) == CString(SubSeq(cells, start, Len(cells)))

\* args when the line is parsed: the last word makes way for the NULL if it
\* is a background command.
Arguments(p) ==
    LET words == [i \in DOMAIN p.words |-> Word(p.cells, p.words[i])]
    IN IF p.background THEN Front(words) ELSE words

(***************************************************************************)
(* The history                                                             *)
(***************************************************************************)

\* Mistake: the count is increased before it is used as the index.
AddToNextSlot(cells) ==
    /\ command_count' = command_count + 1
    /\ history' = [history EXCEPT
                      ![command_count' % MAX_COMMANDS] = CString(cells)]
    /\ display_history' =
          [display_history EXCEPT ![command_count % MAX_COMMANDS] =
              Before(CString(cells), NL)]

addtohistory(cells) ==
    /\ history' = [history EXCEPT
                      ![command_count % MAX_COMMANDS] = CString(cells)]
    /\ display_history' =
          [display_history EXCEPT ![command_count % MAX_COMMANDS] =
              Before(CString(cells), NL)]
    /\ command_count' = command_count + 1

\* What the parser writes outside the line and its args: a NUL before the
\* first cell, a NULL before the first word, or more words than args holds.
WritesOutside(p) == \/ p.outside
                    \/ p.background /\ p.words = <<>>
                    \/ Len(p.words) > MAX_LINE \div 2

\* setup() from the call of addtohistory on, and the tests of main(), when
\* the buffer holds a C string.  The parser changes cells of the array, never
\* its length.
Execute(cells, length, meant) ==
    LET p == Parse(cells, length)
    IN /\ NUL \in Range(cells)
       /\ addtohistory(cells)
       /\ log' = Append(log, meant)
       /\ inputBuffer' = [i \in DOMAIN cells |-> p.cells[i]]
       /\ background' = p.background
       /\ \/ /\ WritesOutside(p)
             /\ phase' = "undefined"
             /\ UNCHANGED args
          \/ /\ ~WritesOutside(p)
             /\ phase' = CASE p.cells[1] = "exit"    -> "exited"
                          [] p.cells[1] = "history" -> "read"
                          [] OTHER                  -> "fork"
             /\ args' = Arguments(p)
    /\ UNCHANGED <<eof, children>>

Numeral    == <<"0", "1", "2", "3", "4", "5", "6", "7", "8", "9">>
isdigit(c) == c \in Range(Numeral)
Digit(c)   == CHOOSE v \in 0 .. 9 : Numeral[v + 1] = c

\* The digits up to the first other character.
atoi(s) == FoldLeft(LAMBDA n, c : 10 * n + Digit(c), 0,
                    SubSeq(s, 1, SelectInSeq(s, LAMBDA c : ~isdigit(c)) - 1))

UsesHistory(line) == line[1] = "!" /\ (line[2] = "!" \/ isdigit(line[2]))

CanType(line) ==
    /\ phase = "read" /\ ~eof /\ command_count < LineBound
    /\ line \in Lines

\* An empty line is swallowed.
EmptyLine(line) ==
    /\ CanType(line) /\ line[1] = NL
    /\ inputBuffer' = Put(inputBuffer, line)
    /\ UNCHANGED <<phase, eof, args, background, history, display_history,
                   command_count, log, restored, children>>

\* A command as typed.  If neither the line nor what was in the buffer leaves
\* a NUL in it, the strcpy of addtohistory runs past the end of both arrays.
Command(line) ==
    /\ CanType(line) /\ line[1] # NL
    /\ (line[1] = "!" => command_count > 0 /\ ~UsesHistory(line))
    /\ \/ /\ Execute(Put(inputBuffer, line), Len(line), Before(line, NL))
          /\ restored' = FALSE
       \/ /\ NUL \notin Range(Put(inputBuffer, line))
          /\ phase' = "undefined"
          /\ UNCHANGED <<eof, setupVars, children>>

\* "No history": setup() returns as if args were set.
NoHistory(line) ==
    /\ CanType(line) /\ line[1] = "!" /\ command_count = 0
    /\ inputBuffer' = Put(inputBuffer, line)
    /\ args' = Unset /\ background' = FALSE
    /\ phase' = "fork"
    /\ UNCHANGED <<eof, history, display_history, command_count, log,
                   restored, children>>

Restore(line, n, meant) ==
    /\ Execute(strcpy(Put(inputBuffer, line), history[n]),
               Len(history[n]) + 1, meant)
    /\ restored' = TRUE

\* Mistake: the slot that the next command will get.
RepeatOldest(line) ==
    /\ CanType(line) /\ UsesHistory(line) /\ line[2] = "!"
    /\ command_count > 0
    /\ Restore(line, command_count % MAX_COMMANDS, log[command_count])

\* "!!"
RepeatLast(line) ==
    /\ CanType(line) /\ UsesHistory(line) /\ line[2] = "!"
    /\ command_count > 0
    /\ Restore(line, (command_count - 1) % MAX_COMMANDS, log[command_count])

\* What "!n" means: the number that "history" shows beside the command.
Meant(n) ==
    LET same == {m \in DOMAIN log : (m - 1) % MAX_COMMANDS = n}
    IN IF same = {} THEN <<>> ELSE log[CHOOSE m \in same :
                                          \A o \in same : o <= m]

\* The number after the "!", if atoi finds its end in the buffer.
HasNumber(line) == \E i \in DOMAIN line : i > 1 /\ ~isdigit(line[i])

\* "!n": nobody asks whether there is such a command.
RepeatNth(line) ==
    LET n == atoi(Tail(line))
    IN /\ CanType(line) /\ UsesHistory(line) /\ line[2] # "!"
       /\ command_count > 0
       /\ \/ HasNumber(line) /\ n \in Slot /\ Restore(line, n, Meant(n))
          \/ /\ ~(HasNumber(line) /\ n \in Slot)
             /\ phase' = "undefined"
             /\ UNCHANGED <<eof, setupVars, children>>

(***************************************************************************)
(* The end of the input.  The test for empty lines comes first, and looks  *)
(* at what the buffer held before.                                         *)
(***************************************************************************)
EndInput == /\ phase = "read" /\ ~eof /\ eof' = TRUE
            /\ UNCHANGED <<phase, setupVars, children>>

\* Mistake: the loop swallows every line that is already a C string.
ReadEofLater ==
    /\ phase = "read" /\ eof /\ inputBuffer[2] # NUL
    /\ phase' = "exited"
    /\ UNCHANGED <<eof, setupVars, children>>

ReadEof ==
    /\ phase = "read" /\ eof /\ inputBuffer[1] # NL
    /\ phase' = "exited"
    /\ UNCHANGED <<eof, setupVars, children>>

(***************************************************************************)
(* Children                                                                *)
(***************************************************************************)

Fork ==
    /\ phase = "fork"
    /\ \E p \in {q \in Pid : proc[q] = "free"} :
          /\ child' = p
          /\ proc' = [proc EXCEPT ![p] = "running"]
          /\ behind' = IF background THEN behind \cup {p} ELSE behind
    /\ phase' = IF background THEN "read" ELSE "wait"
    /\ UNCHANGED <<eof, setupVars>>

ForkFails ==
    /\ phase = "fork" /\ phase' = "read" /\ child' = None
    /\ UNCHANGED <<eof, setupVars, proc, behind>>

\* The command ends, or could not be executed.
ChildEnds(p) ==
    /\ proc[p] = "running"
    /\ proc' = [proc EXCEPT ![p] = "zombie"]
    /\ UNCHANGED <<phase, eof, setupVars, child, behind>>

\* Mistake: any child will do.
WaitForAny ==
    /\ phase = "wait"
    /\ \E p \in {q \in Pid : proc[q] = "zombie"} :
          /\ proc' = [proc EXCEPT ![p] = "free"]
          /\ behind' = behind \ {p}
    /\ phase' = "read"
    /\ UNCHANGED <<eof, setupVars, child>>

\* One wait(NULL); the loop ends with the child in the foreground.
Wait ==
    /\ phase = "wait"
    /\ \E p \in {q \in Pid : proc[q] = "zombie"} :
          /\ proc' = [proc EXCEPT ![p] = "free"]
          /\ behind' = behind \ {p}
          /\ phase' = IF p = child THEN "read" ELSE "wait"
    /\ UNCHANGED <<eof, setupVars, child>>

(***************************************************************************)
(* The system                                                              *)
(***************************************************************************)

setup == \/ \E line \in Lines : \/ EmptyLine(line) \/ Command(line)
                                \/ NoHistory(line) \/ RepeatLast(line)
                                \/ RepeatNth(line)
         \/ ReadEof

Over  == phase \in {"exited", "undefined"}
Stopped == Over /\ UNCHANGED shellVars

\* The line typed last leaves the user nothing but to end the input; after
\* an empty line the shell then reads the end for ever.
ReadsForEver == /\ phase = "read" /\ eof /\ inputBuffer[1] = NL
                /\ UNCHANGED shellVars

ShellNext ==
    \/ setup \/ EndInput \/ Fork \/ ForkFails \/ Wait
    \/ (\E p \in Pid : ~Over /\ ChildEnds(p)) \/ Stopped \/ ReadsForEver

ShellSpec == ShellInit /\ [][ShellNext]_shellVars

\* The shell runs, and so do the commands, which end.
Fairness ==
    /\ WF_shellVars(ReadEof) /\ WF_shellVars(Fork \/ ForkFails)
    /\ WF_shellVars(Wait)
    /\ \A p \in Pid : WF_shellVars(~Over /\ ChildEnds(p))

ShellFairSpec == ShellSpec /\ Fairness

(***************************************************************************)
(* Correctness                                                             *)
(***************************************************************************)

\* The ring shows the last MAX_COMMANDS commands, each where "!n" finds it.
HistoryIsLog ==
    \A n \in DOMAIN log : n + MAX_COMMANDS > Len(log) =>
        /\ display_history[(n - 1) % MAX_COMMANDS] = log[n]
        /\ Before(history[(n - 1) % MAX_COMMANDS], NL) = log[n]

\* What a command means, read off the command itself.
WellFormed(c) == \A i \in DOMAIN c :
                     c[i] = "&" => i > 1 /\ i = Len(c) /\ c[i - 1] = " "
InBackground(c) == c # <<>> /\ Last(c) = "&"
FirstOfWord(c) == {i \in DOMAIN c : /\ c[i] \notin {" ", "&"}
                                    /\ i = 1 \/ c[i - 1] = " "}
AreWordsOf(words, c) ==
    \E at \in [DOMAIN words -> DOMAIN c] :
        /\ \A j, k \in DOMAIN words : j < k => at[j] < at[k]
        /\ Range(at) = FirstOfWord(c)
        /\ \A k \in DOMAIN words :
              words[k] = Before(SubSeq(c, at[k], Len(c)), " ")

\* addtohistory copies what older lines left behind the newline as well.  When
\* the command is repeated, a blank or a newline there adds a word to it, and
\* an "&" sends it to the background.
Spoiled == LET h == history[(command_count - 1) % MAX_COMMANDS]
           IN \E i, j \in DOMAIN h :
                 i < j /\ h[i] = NL /\ h[j] \in {" ", NL, "&"}

\* The child is given the words of the command that the history shows, and
\* the command runs where it says: a typed one, whatever older lines left in
\* the buffer, and a repeated one, if what they left does not spoil it.
RunsWhatItShows ==
    phase = "fork" /\ args # Unset /\ WellFormed(log[command_count]) =>
        \/ restored /\ Spoiled
        \/ /\ AreWordsOf(args, log[command_count])
           /\ background = InBackground(log[command_count])

\* At the prompt only children in the background are left, and while the
\* shell waits for a child that child has not been waited for.
ForegroundIsOver ==
    LET present == {p \in Pid : proc[p] # "free"}
    IN /\ phase = "read" => present \subseteq behind
       /\ phase = "wait" => /\ child \in present
                            /\ present \subseteq behind \cup {child}

\* The end of the input ends the shell, children or not, unless it comes
\* right after an empty line.
EndsWithInput == eof ~> (Over \/ inputBuffer[1] = NL)
=============================================================================
