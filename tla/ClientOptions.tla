----------------------------- MODULE ClientOptions ----------------------------
(***************************************************************************)
(* The command line of the client: the option loop at the start of main()  *)
(* in src/src/main_client.c and the checks of the command after it, the    *)
(* lines they are meant to take and the usage text.                        *)
(*                                                                         *)
(* A word is one of the kinds the code tells apart.                        *)
(***************************************************************************)
EXTENDS Integers, Sequences, FiniteSetsExt

Port == {"9090", "8080"}         \* words that wc_client_parse_port accepts
Level == {"info", "debug"}       \* words that wc_client_parse_log_level accepts
Command == {"LS", "PWD", "CAT"}  \* words that wc_client_parse_command accepts
Option == {"--socket", "--host", "--port", "--log-level"}

(* "8080" is no log level, "debug" no port, and neither is a command.      *)
Word == Option \cup {"8080", "debug", "PWD", "LS"}

(* The variables of the loop, as main() initialises them.  "status" is the *)
(* exit status, 0 as long as the program goes on.                          *)
Defaults ==
  [argument_index |-> 1, socket_option_seen |-> FALSE, use_tcp |-> FALSE,
   socket_path |-> "default", tcp_host |-> "default", tcp_port |-> "9090",
   log_level |-> "info", status |-> 0]

(* Mutant: --socket is taken after an option of TCP. *)
MayTake_mixed(o, option) ==
  \/ option \in {"--socket", "--log-level"}
  \/ option \in {"--host", "--port"} /\ ~o.socket_option_seen

(* The conditions on what came before. *)
MayTake(o, option) ==
  CASE option = "--socket"             -> ~o.use_tcp
    [] option \in {"--host", "--port"} -> ~o.socket_option_seen
    [] option = "--log-level"          -> TRUE
    [] OTHER                           -> FALSE

(* Mutant: an option keeps the first value it was given. *)
Taken_first(o, option, value) ==
  CASE option = "--socket" ->
         [o EXCEPT !.socket_path = IF o.socket_option_seen THEN @ ELSE value,
                   !.socket_option_seen = TRUE]
    [] option = "--host" -> [o EXCEPT !.tcp_host = value, !.use_tcp = TRUE]
    [] option = "--port" -> [o EXCEPT !.tcp_port = value, !.use_tcp = TRUE]
    [] OTHER             -> o

(* The body of the branch of an option. *)
Taken(o, option, value) ==
  CASE option = "--socket" ->
         [o EXCEPT !.socket_path = value, !.socket_option_seen = TRUE]
    [] option = "--host" ->
         [o EXCEPT !.tcp_host = value, !.use_tcp = TRUE]
    [] option = "--port" ->
         IF value \in Port THEN [o EXCEPT !.tcp_port = value, !.use_tcp = TRUE]
         ELSE [o EXCEPT !.status = 2]
    [] option = "--log-level" ->
         IF value \in Level THEN [o EXCEPT !.log_level = value]
         ELSE [o EXCEPT !.status = 2]

HasValue(args, o) == o.argument_index + 1 <= Len(args)

(* The loop goes round once more. *)
TakesOption(args, o) ==
  o.status = 0 /\ HasValue(args, o) /\ MayTake(o, args[o.argument_index])

(* One iteration.  A usage error returns at once. *)
Iterate(args, o) ==
  [Taken(o, args[o.argument_index], args[o.argument_index + 1]) EXCEPT !.argument_index = @ + 2]

(* Mutant: words after the argument of LS or CAT are ignored. *)
WordsOfCommand_more(o, name, count) ==
  IF name = "PWD" THEN o.argument_index = count ELSE o.argument_index + 1 <= count

(* PWD has no argument, LS and CAT have one. *)
WordsOfCommand(o, name, count) ==
  IF name = "PWD" THEN o.argument_index = count ELSE o.argument_index + 1 = count

(* After the loop: a command with its argument, if any, must be left. *)
HasCommand(args, o) ==
  /\ o.status = 0 /\ o.argument_index <= Len(args)
  /\ args[o.argument_index] \in Command
  /\ WordsOfCommand(o, args[o.argument_index], Len(args))

------------------------------------------------------------------------------
(* The lines the code means to take: n pairs of an option and its value,   *)
(* of one transport, then a command with as many arguments as it takes.    *)
Options(args, n) == {args[2 * i - 1] : i \in 1..n}

WellFormed(args, n) ==
  /\ 2 * n < Len(args) /\ args[2 * n + 1] \in Command
  /\ Len(args) = 2 * n + (IF args[2 * n + 1] = "PWD" THEN 1 ELSE 2)
  /\ Options(args, n) \subseteq Option
  /\ \A i \in 1..n :
       /\ args[2 * i - 1] = "--port" => args[2 * i] \in Port
       /\ args[2 * i - 1] = "--log-level" => args[2 * i] \in Level
  /\ "--socket" \in Options(args, n) => Options(args, n) \cap {"--host", "--port"} = {}

(* The usage text, wc_client_print_usage, which offers less: each option   *)
(* once, and --port only beside --host.  Options come in any order.        *)
OfUsage(args, n) ==
  /\ WellFormed(args, n)
  /\ \A i, j \in 1..n : args[2 * i - 1] = args[2 * j - 1] => i = j
  /\ "--port" \in Options(args, n) => "--host" \in Options(args, n)

(* The value of an option in the first n pairs: the last one given.        *)
Used(args, n, option, default) ==
  LET given == {i \in 1..n : args[2 * i - 1] = option}
  IN  IF given = {} THEN default ELSE args[2 * Max(given)]
==============================================================================
