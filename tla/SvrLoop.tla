------------------------------ MODULE SvrLoop ------------------------------
(***************************************************************************)
(* The way of one file's lines from LineAssembly through the message queue *)
(* to the output of k2hftfusesvr: its main loop and Processing             *)
(* (k2hftfusesvr.cc).                                                      *)
(*                                                                         *)
(* A message is one value of k2hash, the stack that Pop took.  Processing  *)
(* walks over its lines, formats each, and writes it to the plugin or      *)
(* collects it for one write to the output file; in transfer mode the      *)
(* message is then set into another k2hash as it is.                       *)
(*                                                                         *)
(* Timeouts, messages without a body or of a wrong length, and commands    *)
(* other than a set change nothing: they are stuttering steps.             *)
(*                                                                         *)
(* Left out: packing and parsing of the value, which always succeed for    *)
(* what BuildK2hFtLine has built; the search for the plugin.               *)
(*                                                                         *)
(* External: k2hash and chmpx keep the messages of one file in order and   *)
(* lose none; WriteStack has the order in which batches are sent.  The     *)
(* allocator: realloc to no bytes frees the block and returns NULL.        *)
(***************************************************************************)
EXTENDS LineAssembly

VARIABLES
  msgs,           \* the messages on their way
  got,            \* history: the messages received
  is_doing_loop,
  step,           \* "receive", "lines", "trans", "ended" or "undefined"
  cnt, pLines,    \* the loop counter and the line that is looked at
  pFileOutput,    \* "null", "held" or "freed"
  collected,      \* the lines in pFileOutput
  put,            \* the lines put out, in order
  refused,        \* the lines the plugin or the file did not take
  transferred     \* the messages set into the other k2hash

outVars    == <<put, refused, transferred>>
serverVars == <<got, is_doing_loop, step, cnt, pLines, pFileOutput, collected, outVars>>
vars == <<assemblyVars, msgs, serverVars>>

Init ==
  /\ AssemblyInit
  /\ msgs = <<>>
  /\ got = <<>>
  /\ is_doing_loop = TRUE
  /\ step = "receive"
  /\ cnt = 0
  /\ pLines = 1
  /\ pFileOutput = "null"
  /\ collected = <<>>
  /\ put = <<>>
  /\ refused = {}
  /\ transferred = <<>>

\* A line is named by its message and its place in it.
Names == {<<k, i>> : k \in DOMAIN got, i \in 1 .. MaxBytes}
LineOf(name) == got[name[1]][name[2]]
Message == Last(got)
Current == <<Len(got), pLines>>

\* Types, and where the walk over a message may stand.
TypeOK ==
  /\ AssemblyTypeOK
  /\ msgs \in Seq(Seq(Line))
  /\ got \in Seq(Seq(Line))
  /\ is_doing_loop \in BOOLEAN
  /\ step \in {"receive", "lines", "trans", "ended", "undefined"}
  /\ cnt \in Nat
  /\ pLines \in Nat \ {0}
  /\ step = "lines" => cnt <= Len(Message) /\ pLines <= cnt + 1
  /\ pFileOutput \in {"null", "held", "freed"}
  /\ collected \in Seq(Names)
  /\ put \in Seq(Names)
  /\ refused \subseteq Names
  /\ transferred \in Seq(Seq(Line))

-----------------------------------------------------------------------------
(* Formats.                                                                *)

\* Blanks are left out of the bytes, so trimming takes away ends of lines.
Trim(s) ==
  LET I == {i \in DOMAIN s : s[i] \notin {"LF", "CR"}}
  IN  IF I = {} THEN <<>> ELSE SubSeq(s, Min(I), Max(I))

\* ConvertOutput, with the format "%l" or one that puts a host name or the
\* time in front ("header"); "%L" alone and no format need no conversion.
ConvertOutput(l) ==
  IF conf.format = "trim" THEN Trim(CString(l)) ELSE <<"header">> \o CString(l)

\* Processing goes on with a line unless the conversion fails or is empty.
Converts(l) == conf.format = "none" \/ (~conf.svrbin /\ ConvertOutput(l) # <<>>)

\* Mutant of Output: the terminator goes out, too.
OutputTerminator(l) == IF conf.format = "none" THEN l ELSE ConvertOutput(l)

\* What is put out of a line: in text mode not its terminator.
Output(l) ==
  LET text == IF conf.format = "none" THEN l ELSE ConvertOutput(l)
  IN  IF ~conf.svrbin /\ Last(text) = "NUL" THEN Front(text) ELSE text

OutputBytes(names) == FlattenSeq([n \in DOMAIN names |-> Output(LineOf(names[n]))])

-----------------------------------------------------------------------------
(* The server.                                                             *)

\* Pop, BuildK2hFtValue and Set by whichever thread finds the stack full or old.
Send ==
  /\ stack # <<>>
  /\ msgs' = Append(msgs, stack)
  /\ stack' = <<>>
  /\ UNCHANGED <<conf, data, call, cache, size, historyVars, serverVars>>

Sighup ==
  /\ is_doing_loop' = FALSE
  /\ UNCHANGED <<assemblyVars, msgs, got, step, cnt, pLines, pFileOutput, collected, outVars>>

\* Mutant of Receive: the counter goes on where the last message ended.
ReceiveKeepsCount ==
  /\ step = "receive"
  /\ is_doing_loop
  /\ msgs # <<>>
  /\ msgs' = Tail(msgs)
  /\ got' = Append(got, Head(msgs))
  /\ step' = IF conf.file THEN "lines" ELSE "trans"
  /\ pLines' = 1
  /\ UNCHANGED <<assemblyVars, is_doing_loop, cnt, pFileOutput, collected, outVars>>

\* A message is received, and Processing begins.
Receive ==
  /\ step = "receive"
  /\ is_doing_loop
  /\ msgs # <<>>
  /\ msgs' = Tail(msgs)
  /\ got' = Append(got, Head(msgs))
  /\ step' = IF conf.file THEN "lines" ELSE "trans"
  /\ cnt' = 0
  /\ pLines' = 1
  /\ UNCHANGED <<assemblyVars, is_doing_loop, pFileOutput, collected, outVars>>

\* The loop is left after SIGHUP, or because chmpx has gone.
LeaveLoop ==
  /\ step = "receive"
  /\ step' = "ended"
  /\ UNCHANGED <<assemblyVars, msgs, got, is_doing_loop, cnt, pLines, pFileOutput, collected, outVars>>

InLoop(converts) ==
  /\ step = "lines"
  /\ cnt < Len(Message)
  /\ Converts(Message[pLines]) = converts

\* "continue": the counter goes on, pLines does not.
SkipLine ==
  /\ InLoop(FALSE)
  /\ cnt' = cnt + 1
  /\ UNCHANGED <<assemblyVars, msgs, got, is_doing_loop, step, pLines, pFileOutput, collected, outVars>>

NextLine ==
  /\ cnt' = cnt + 1
  /\ pLines' = pLines + 1

\* Output to the plugin, line by line.
PutPlugin ==
  /\ InLoop(TRUE)
  /\ conf.plugin
  /\ NextLine
  /\ \/ /\ put' = Append(put, Current)
        /\ UNCHANGED refused
     \/ /\ conf.fails
        /\ refused' = refused \cup {Current}
        /\ UNCHANGED put
  /\ UNCHANGED <<assemblyVars, msgs, got, is_doing_loop, step, pFileOutput, collected, transferred>>

\* Mutant of Collected: the line is copied to the start of the buffer.
CollectedAtStart == <<Current>>

\* memcpy to the end of pFileOutput.
Collected == Append(collected, Current)

\* Output to a file: collect the line.  To make a block of no bytes smaller
\* frees it; what a second realloc of it does is undefined.
Collect ==
  /\ InLoop(TRUE)
  /\ ~conf.plugin
  /\ NextLine
  /\ LET empty == OutputBytes(Append(collected, Current)) = <<>>   \* NewSize is 0
     IN  \/ /\ pFileOutput = "freed"
            /\ step' = "undefined"
            /\ UNCHANGED <<pFileOutput, collected>>
         \/ /\ pFileOutput = "held" /\ empty
            /\ pFileOutput' = "freed"
            /\ UNCHANGED <<step, collected>>
         \/ /\ pFileOutput = "null" \/ (pFileOutput = "held" /\ ~empty)
            /\ pFileOutput' = "held"
            /\ collected' = Collected
            /\ UNCHANGED step
  /\ UNCHANGED <<assemblyVars, msgs, got, is_doing_loop, outVars>>

\* After the loop over the lines.
AfterLines == IF conf.trans THEN "trans" ELSE "receive"

\* Mutant of WriteFile: the buffer is not freed.
WriteFileKeepsBuffer ==
  /\ step = "lines"
  /\ cnt = Len(Message)
  /\ step' = AfterLines
  /\ put' = put \o collected
  /\ UNCHANGED <<assemblyVars, msgs, got, is_doing_loop, cnt, pLines, pFileOutput, collected, refused, transferred>>

\* The collected lines go to the file in one write, and the buffer is freed.
WriteFile ==
  /\ step = "lines"
  /\ cnt = Len(Message)
  /\ IF pFileOutput = "freed"
       THEN step' = "undefined" /\ UNCHANGED <<pFileOutput, collected, put, refused>>
       ELSE /\ step' = AfterLines
            /\ pFileOutput' = "null"
            /\ collected' = <<>>
            /\ \/ /\ put' = put \o collected
                  /\ UNCHANGED refused
               \/ /\ conf.fails
                  /\ refused' = refused \cup ToSet(collected)
                  /\ UNCHANGED put
  /\ UNCHANGED <<assemblyVars, msgs, got, is_doing_loop, cnt, pLines, transferred>>

\* Transfer mode: Set into the other k2hash, which may fail.
Transfer ==
  /\ step = "trans"
  /\ step' = "receive"
  /\ \/ transferred' = Append(transferred, Message)
     \/ conf.fails /\ UNCHANGED transferred
  /\ UNCHANGED <<assemblyVars, msgs, got, is_doing_loop, cnt, pLines, pFileOutput, collected, put, refused>>

ServerNext == Receive \/ SkipLine \/ PutPlugin \/ Collect \/ WriteFile \/ Transfer

Next ==
  \/ AssemblyNext /\ UNCHANGED <<msgs, serverVars>>
  \/ Send
  \/ Sighup
  \/ ServerNext
  \/ LeaveLoop

Spec == Init /\ [][Next]_vars

-----------------------------------------------------------------------------
(* Properties.                                                             *)

Before(m, n) == m[1] < n[1] \/ (m[1] = n[1] /\ m[2] < n[2])

\* No line is put out twice or before one that was written earlier.
PutOnceInOrder == \A i, j \in DOMAIN put : i < j => Before(put[i], put[j])

Between == step \in {"receive", "ended"}

\* Once a message has been processed, each line of it that converts and comes
\* before every line that does not was put out or refused.
GoodLinesArrive ==
  conf.file /\ Between =>
    \A k \in DOMAIN got : \A i \in DOMAIN got[k] :
      (\A j \in 1 .. i : Converts(got[k][j])) => <<k, i>> \in ToSet(put) \cup refused

\* Both programs in the same mode, nothing dropped or refused by configuration.
Plain == conf.binmode = conf.svrbin /\ conf.format = "none" /\ conf.limit = 0
         /\ conf.deny = {} /\ conf.file /\ ~conf.fails

\* Those of the first n bytes that should arrive: in text mode no zero bytes,
\* and CRLF in one write is a carriage return.
Kept(n) == {i \in 1 .. n : conf.binmode \/ (written[i].byte # "NUL" /\ ~Skipped(i))}

\* The bytes are those that should arrive of the first n, in order: at gives the
\* place from which each of them comes.
AreKept(bytes, n) ==
  \E at \in [DOMAIN bytes -> Kept(n)] :
    /\ \A k, m \in DOMAIN bytes : k < m => at[k] < at[m]
    /\ \A i \in Kept(n) : \E k \in DOMAIN bytes : at[k] = i
    /\ \A k \in DOMAIN bytes : bytes[k] = written[at[k]].byte

Idle == call = "none" /\ cache = <<>> /\ stack = <<>> /\ msgs = <<>> /\ Between

\* End to end: the output is always a beginning of what was written, and all of
\* it when nothing is under way.
BytesArrive ==
  Plain =>
    /\ \E n \in 0 .. Len(written) : AreKept(OutputBytes(put), n)
    /\ Idle => AreKept(OutputBytes(put), Len(written))
=============================================================================
