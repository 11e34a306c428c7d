----------------------------- MODULE CommandQuote -----------------------------
(***************************************************************************)
(* How src/src/commands.c turns the raw bytes of a path into a command     *)
(* line for popen(): wc_command_quote_argument and wc_command_build,       *)
(* against what a POSIX shell reads from such a line.                      *)
(*                                                                         *)
(* A byte is one of the kinds a shell treats differently.                  *)
(***************************************************************************)
EXTENDS Integers, SequencesExt

CONSTANTS
  SIZE_MAX,  \* the largest size_t
  MaxPath    \* the longest path of a request, UINT16_MAX less its header

(* A size_t counts a command line made of quotes, the longest there is for *)
(* a path of a request: four bytes for each, two quotes, the program, a    *)
(* blank, the suffix and the NUL.                                          *)
ASSUME SizeAssumption ==
  MaxPath \in Nat /\ SIZE_MAX \in Nat /\ SIZE_MAX >= 4 * MaxPath + 7

Char ==
  {"quote", "backslash", "blank", "dollar", "redirect", "slash", "letter", "NUL"}

(* The arguments that wc_command_quote_argument refuses with EINVAL. *)
Invalid(argument) == argument = <<>> \/ Contains(argument, "NUL")

(* Mutant: the length is only checked against the size itself. *)
TooLong_bare(argument) == Len(argument) > SIZE_MAX

TooLong(argument) == Len(argument) > (SIZE_MAX - 3) \div 4

(* Mutant: room for an escape of two bytes. *)
Allocated_double(argument) == (Len(argument) * 2 + 3) % (SIZE_MAX + 1)

(* The bytes given to malloc(), a size_t. *)
Allocated(argument) == (Len(argument) * 4 + 3) % (SIZE_MAX + 1)

(* Mutant: a backslash inside the quotes, where it quotes nothing. *)
Escaped_backslash(c) == IF c = "quote" THEN <<"backslash", "quote">> ELSE <<c>>

(* A quote closes the quoted string, is written outside it, and opens it   *)
(* again; every other byte stands for itself.                              *)
Escaped(c) ==
  IF c = "quote" THEN <<"quote", "backslash", "quote", "quote">> ELSE <<c>>

(* The string wc_command_quote_argument returns, without its NUL: after i  *)
(* turns of its loop it has written upto[i].                               *)
Quoted(argument) ==
  LET upto[i \in 0..Len(argument)] ==
        IF i = 0 THEN <<"quote">> ELSE upto[i - 1] \o Escaped(argument[i])
  IN  upto[Len(argument)] \o <<"quote">>

(* "ls -1 --" or "cat --", and " 2>/dev/null", in as many bytes as matter. *)
Program == <<"letter">>
Suffix == <<"blank", "redirect">>

(* Mutant: the blank between program and argument is not counted. *)
CommandLength_short(argument) ==
  (Len(Program) + Len(Quoted(argument)) + Len(Suffix) + 1) % (SIZE_MAX + 1)

(* command_length, a size_t, the terminating NUL of the suffix included.   *)
(* No check precedes the sum: a quoted argument that just fits in memory   *)
(* can make it wrap around.                                                *)
CommandLength(argument) ==
  (Len(Program) + 1 + Len(Quoted(argument)) + Len(Suffix) + 1) % (SIZE_MAX + 1)

(* The line snprintf() leaves in a buffer of CommandLength bytes: all of   *)
(* it, or what there is room for.  Of a buffer of no bytes, which is left  *)
(* as malloc() made it, nothing is known.                                  *)
CommandLine(argument) ==
  LET text == Program \o <<"blank">> \o Quoted(argument) \o Suffix
  IN  SubSeq(text, 1, CommandLength(argument) - 1)

------------------------------------------------------------------------------
(* The shell (external): a reader of words, one byte after the other.      *)
(* "mode" is what quotes the next byte, "open" whether a word has begun,   *)
(* "active" whether a byte with a meaning to the shell stood unquoted.     *)

Shell0 == [words |-> <<>>, word |-> <<>>, open |-> FALSE, mode |-> "none",
           redirects |-> 0, active |-> FALSE]

InWord(sh, c) ==
  [sh EXCEPT !.word = Append(@, c), !.open = TRUE,
             !.mode = IF @ = "backslash" THEN "none" ELSE @]

EndOfWord(sh) ==
  [sh EXCEPT !.words = IF sh.open THEN Append(@, sh.word) ELSE @,
             !.word = <<>>, !.open = FALSE]

ShellReads(sh, c) ==
  CASE sh.mode = "quote"     -> IF c = "quote" THEN [sh EXCEPT !.mode = "none"]
                                ELSE InWord(sh, c)
    [] sh.mode = "backslash" -> InWord(sh, c)
    [] OTHER ->
         CASE c \in {"quote", "backslash"} -> [sh EXCEPT !.mode = c, !.open = TRUE]
           [] c = "blank"    -> EndOfWord(sh)
           [] c = "redirect" -> [EndOfWord(sh) EXCEPT !.redirects = @ + 1]
           [] c = "dollar"   -> [sh EXCEPT !.active = TRUE]
           [] OTHER          -> InWord(sh, c)

(* What the shell makes of a whole line. *)
ShellReadsLine(line) ==
  LET after[i \in 0..Len(line)] ==
        IF i = 0 THEN Shell0 ELSE ShellReads(after[i - 1], line[i])
  IN  EndOfWord(after[Len(line)])
==============================================================================
