------------------------------ MODULE CommandRun ------------------------------
(***************************************************************************)
(* One call of wc_command_ls, wc_command_pwd or wc_command_cat             *)
(* (src/src/commands.c), from the checks of the argument to the return,    *)
(* with the child process popen() starts and the pipe between them.  Every *)
(* allocation and system call of the code may fail.                        *)
(***************************************************************************)
EXTENDS CommandQuote

CONSTANTS
  MaxArgument,      \* bound on the length of an argument
  max_result_size,  \* the caller's limit
  ReadSize,         \* WC_COMMAND_READ_SIZE
  PipeSize,         \* bytes the pipe holds
  MaxOutput,        \* bound on what the child writes
  MaxFaults         \* calls that fail

ASSUME RunAssumption ==
  /\ max_result_size \in Nat /\ ReadSize \in Nat \ {0} /\ PipeSize \in Nat \ {0}
  /\ MaxArgument \in Nat /\ MaxOutput \in Nat /\ MaxFaults \in Nat
  \* more than the code can take in before it gives up
  /\ MaxOutput > max_result_size + ReadSize + PipeSize

VARIABLES
  pc,        \* where the call is
  command,   \* "ls", "pwd" or "cat"
  argument,  \* forgotten once popen() has the line made of it
  heap,      \* the allocations that are not freed
  readEnd,   \* the stream popen() returned is open
  chunk,     \* what fread() has gathered
  output,    \* the wc_buffer
  errno,     \* failure_errno, "none" while command_failed is 0
  result,    \* what *result holds: the bytes, or "NULL"
  faults,
  child,     \* the child: "none", "running", "exited", "failed", "reaped"
  pipe,      \* bytes in the pipe
  wrote      \* history: all the child has written

call == <<pc, command, argument, heap, readEnd, chunk, output, errno, result, faults>>
process == <<child, pipe, wrote>>
vars == <<call, process>>

Output == {"text", "newline"}

Fault == faults < MaxFaults /\ faults' = faults + 1
NoFault == UNCHANGED faults

(* A return of -1: *result stays as it was set on entry. *)
Return(e) == pc' = "returned" /\ errno' = e /\ UNCHANGED result

------------------------------------------------------------------------------
(* Building the line.                                                      *)

(* wc_command_cat takes absolute paths only. *)
Refused == command = "cat" /\ ~IsPrefix(<<"slash">>, argument)

Start ==
  /\ pc = "start" /\ result' = "NULL"
  /\ \/ Refused /\ pc' = "returned" /\ errno' = "EINVAL"
     \/ command = "pwd" /\ pc' = "popen" /\ UNCHANGED errno
     \/ ~Refused /\ command /= "pwd" /\ pc' = "quote" /\ UNCHANGED errno
  /\ UNCHANGED <<command, argument, heap, readEnd, chunk, output, faults, process>>

(* wc_command_quote_argument. *)
Quote ==
  /\ pc = "quote"
  /\ \/ Invalid(argument) /\ Return("EINVAL") /\ UNCHANGED heap /\ NoFault
     \/ ~Invalid(argument) /\ TooLong(argument) /\ Return("EOVERFLOW")
          /\ UNCHANGED heap /\ NoFault
     \/ ~Invalid(argument) /\ ~TooLong(argument) /\ Return("ENOMEM")
          /\ UNCHANGED heap /\ Fault
     \/ ~Invalid(argument) /\ ~TooLong(argument) /\ pc' = "build"
          /\ heap' = heap \cup {"quoted"} /\ UNCHANGED <<errno, result>> /\ NoFault
  /\ UNCHANGED <<command, argument, readEnd, chunk, output, process>>

(* Mutant: the quoted argument is not freed when the line has no memory. *)
HeapWithoutLine_leak == heap

HeapWithoutLine == heap \ {"quoted"}

(* The rest of wc_command_build. *)
Build ==
  /\ pc = "build"
  /\ \/ heap' = HeapWithoutLine /\ Return("ENOMEM") /\ Fault
     \/ heap' = (heap \cup {"command"}) \ {"quoted"} /\ pc' = "popen"
          /\ UNCHANGED <<errno, result>> /\ NoFault
  /\ UNCHANGED <<command, argument, readEnd, chunk, output, process>>

------------------------------------------------------------------------------
(* wc_command_run.                                                         *)

(* wc_buffer_init cannot fail: its buffer is a local. *)
Popen ==
  /\ pc = "popen"
  /\ \/ heap' = heap \ {"command"} /\ Return("popen") /\ UNCHANGED <<readEnd, child>> /\ Fault
     \/ readEnd' = TRUE /\ child' = "running" /\ pc' = "read"
          /\ UNCHANGED <<heap, errno, result>> /\ NoFault
  /\ argument' = <<>>
  /\ UNCHANGED <<command, chunk, output, pipe, wrote>>

(* fread() gathers bytes until it has a whole chunk. *)
Gather ==
  /\ pc = "read" /\ pipe /= <<>> /\ Len(chunk) < ReadSize
  /\ chunk' = Append(chunk, Head(pipe)) /\ pipe' = Tail(pipe)
  /\ UNCHANGED <<pc, command, argument, heap, readEnd, output, errno, result, faults,
                 child, wrote>>

EndOfFile == pipe = <<>> /\ child \in {"exited", "failed"}

(* Mutant: the limit is not checked. *)
Oversize_never == FALSE

(* wc_buffer_append finds no room. *)
Oversize == Len(chunk) > max_result_size - Len(output)

(* Mutant: the last, short chunk is dropped. *)
Kept_short == IF Len(chunk) < ReadSize THEN output ELSE output \o chunk

Kept == output \o chunk

(* fread() has returned: with a whole chunk, at the end of the stream or   *)
(* with an error, of which only the last two leave the chunk short.        *)
Take ==
  /\ pc = "read" /\ chunk' = <<>>
  /\ \/ /\ Len(chunk) = ReadSize \/ EndOfFile
        /\ \/ /\ Oversize /\ errno' = "EMSGSIZE" /\ pc' = "pclose"
              /\ UNCHANGED <<output, heap>> /\ NoFault
           \/ /\ ~Oversize /\ chunk /= <<>> /\ errno' = "ENOMEM" /\ pc' = "pclose"
              /\ UNCHANGED <<output, heap>> /\ Fault
           \/ /\ ~Oversize /\ output' = Kept
              /\ heap' = IF output' = <<>> THEN heap ELSE heap \cup {"output"}
              /\ pc' = IF Len(chunk) < ReadSize THEN "pclose" ELSE "read"
              /\ UNCHANGED errno /\ NoFault
     \/ /\ Len(chunk) < ReadSize /\ Fault /\ pc' = "pclose"
        /\ \/ Oversize /\ errno' = "EMSGSIZE" /\ UNCHANGED <<output, heap>>
           \/ /\ ~Oversize /\ errno' = "EIO" /\ output' = output \o chunk
              /\ heap' = IF output' = <<>> THEN heap ELSE heap \cup {"output"}
  /\ UNCHANGED <<command, argument, readEnd, result, process>>

(* Mutant: the child is waited for while the stream is still open. *)
StreamWhileWaiting_open == readEnd

StreamWhileWaiting == FALSE

(* pclose() closes the stream first, and with it all the pipe still holds. *)
CloseStream ==
  /\ pc = "pclose" /\ pc' = "wait" /\ readEnd' = StreamWhileWaiting
  /\ UNCHANGED <<command, argument, heap, chunk, output, errno, result, faults, process>>

(* Mutant: the status of the child overrides the first error. *)
Failure_last(status) == IF status = 0 THEN errno ELSE "EIO"

(* failure_errno once the status of the child is known. *)
Failure(status) == IF errno = "none" /\ status /= 0 THEN "EIO" ELSE errno

(* wc_command_pwd drops one newline at the end. *)
Trimmed ==
  IF command = "pwd" /\ output /= <<>> /\ Last(output) = "newline" THEN Front(output)
  ELSE output

(* Mutant: the buffer of a failed command is not destroyed. *)
HeapAfterFailure_leak == heap \ {"command"}

HeapAfterFailure == heap \ {"command", "output"}

(* The rest of pclose(), of wc_command_run and of its caller. *)
Finish(status) ==
  /\ pc = "wait" /\ child \in {"exited", "failed"} /\ child' = "reaped"
  /\ pc' = "returned" /\ errno' = Failure(status)
  /\ result' = IF errno' = "none" THEN Trimmed ELSE result
  /\ heap' = IF errno' = "none" THEN heap \ {"command"} ELSE HeapAfterFailure
  /\ UNCHANGED <<command, argument, readEnd, chunk, output, pipe, wrote>>

(* waitpid() gives the status of the child, or fails. *)
Wait ==
  \/ NoFault /\ Finish(IF child = "exited" THEN 0 ELSE 1)
  \/ Fault /\ Finish(-1)

Call == Start \/ Quote \/ Build \/ Popen \/ Gather \/ Take \/ CloseStream \/ Wait

------------------------------------------------------------------------------
(* The child (external): the shell and the program it runs.                *)

ChildWrites(b) ==
  /\ child = "running" /\ readEnd /\ Len(pipe) < PipeSize /\ Len(wrote) < MaxOutput
  /\ pipe' = Append(pipe, b) /\ wrote' = Append(wrote, b)
  /\ UNCHANGED <<call, child>>

(* With a status of 0, or another status or by a signal. *)
ChildEnds ==
  /\ child = "running" /\ child' \in {"exited", "failed"}
  /\ UNCHANGED <<call, pipe, wrote>>

(* It writes to a pipe no one can read. *)
ChildBreaksPipe ==
  /\ child = "running" /\ ~readEnd /\ child' = "failed"
  /\ UNCHANGED <<call, pipe, wrote>>

------------------------------------------------------------------------------
Init ==
  /\ pc = "start" /\ heap = {} /\ readEnd = FALSE
  /\ \/ command \in {"ls", "cat"} /\ argument \in BoundedSeq(Char, MaxArgument)
     \/ command = "pwd" /\ argument = <<>>
  /\ chunk = <<>> /\ output = <<>> /\ errno = "none" /\ result = "unset"
  /\ faults = 0 /\ child = "none" /\ pipe = <<>> /\ wrote = <<>>

Next == Call \/ (\E b \in Output : ChildWrites(b)) \/ ChildEnds \/ ChildBreaksPipe

Spec == Init /\ [][Next]_vars

(* The call is a running thread.  Of the child it is only assumed that it  *)
(* does not idle: it ends, or it goes on writing for as long as it can,    *)
(* endless output included.  No call need fail.                            *)
FairSpec ==
  /\ Spec /\ WF_vars(Call /\ NoFault)
  /\ WF_vars(\E b \in Output : ChildWrites(b)) /\ WF_vars(ChildBreaksPipe)

------------------------------------------------------------------------------
(* "Client path arguments are single-quoted so shell metacharacters are    *)
(* treated as path bytes": of the line popen() is given the shell reads    *)
(* the program, the very bytes of the argument as one word, and the one    *)
(* redirection of the suffix, and no byte of the argument has a meaning to *)
(* it.  This is said of the paths a request can carry: for longer ones the *)
(* length of the line may wrap around and snprintf() cut it short.         *)
ArgumentIsOneWord ==
  pc = "popen" /\ command /= "pwd" /\ Len(argument) <= MaxPath =>
    LET sh == ShellReadsLine(CommandLine(argument))
    IN  /\ sh.words = <<Program, argument>> /\ sh.redirects = 1
        /\ sh.mode = "none" /\ ~sh.active

(* wc_command_quote_argument has written no byte past what it allocated,   *)
(* its NUL included, however near the length comes to the end of size_t.   *)
QuotedFits == "quoted" \in heap => Len(Quoted(argument)) + 1 <= Allocated(argument)

(* A call that succeeds returns all that the child wrote, to the last      *)
(* short chunk, and the child had no more to say; only wc_command_pwd      *)
(* leaves out a final newline.                                             *)
ResultIsWhole ==
  pc = "returned" /\ errno = "none" =>
    \/ result = wrote /\ (command = "pwd" /\ wrote /= <<>> => Last(wrote) /= "newline")
    \/ command = "pwd" /\ Append(result, "newline") = wrote

(* "Failures return -1 with errno and no result allocation": whichever     *)
(* call fails, and however far the command has come, the caller has        *)
(* nothing to free, no stream is open and no child is left to wait for;    *)
(* after a success there is the result alone.                              *)
NothingLeaks ==
  pc = "returned" =>
    /\ ~readEnd /\ child \in {"none", "reaped"}
    /\ IF errno = "none" THEN heap \subseteq {"output"} /\ (heap = {} => result = <<>>)
       ELSE heap = {} /\ result = "NULL"

(* "Oversized output fails with EMSGSIZE instead of being truncated": it   *)
(* does, though closing the stream on such a child makes that child fail   *)
(* too, and nothing else fails so.                                         *)
OversizeTold ==
  pc = "returned" /\ faults = 0 =>
    (errno = "EMSGSIZE" <=> Len(wrote) > max_result_size)

(* The call returns, whatever the child writes and however much of it:     *)
(* neither waits for the other for ever.                                   *)
RunReturns == <>(pc = "returned")

(* A path becomes one word of the command line, in the memory made for it. *)
ArgumentQuoted == ArgumentIsOneWord /\ QuotedFits

(* The caller gets the whole output, or is told that it was too much.      *)
OutputWhole == ResultIsWhole /\ OversizeTold
==============================================================================
