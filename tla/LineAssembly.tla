---------------------------- MODULE LineAssembly ----------------------------
(***************************************************************************)
(* How K2hFtWriteBuff (k2hftwbuf.cc) makes lines out of the bytes that one *)
(* process writes to one file.                                             *)
(*                                                                         *)
(* A write brings any number of bytes.  StringPush ends a line at a line   *)
(* feed, a carriage return or a zero byte, joins what the line's earlier   *)
(* writes have left in the input buffer, and terminates the line with a    *)
(* zero byte; BinaryPush cuts blocks of a fixed size instead.  A release   *)
(* forces out what is left.  StackPush drops a line that the rule denies   *)
(* or that is too long, and stacks the others.                             *)
(*                                                                         *)
(* A byte is one of four: three that end a line and one that does not.     *)
(* Left out: replacement by a regular expression, allocation failures.     *)
(***************************************************************************)
EXTENDS Integers, Sequences, FiniteSets, SequencesExt

CONSTANTS
  Confs,           \* configurations of both programs, see Conf
  BufferSingle,    \* BUFFER_SINGLE_SIZE, scaled down
  BinaryBuffLimit, \* K2hFtWriteBuff::BinaryBuffLimit, scaled down
  MaxBytes         \* bound: bytes that are written

Bytes == {"x", "LF", "CR", "NUL"}
Line  == Seq(Bytes) \ {<<>>}

\* binmode, limit, deny: k2hftfuse's BINTRANS and BYTELIMIT, and the bytes
\* whose lines the rule denies; the others are k2hftfusesvr's.
Conf == [binmode : BOOLEAN, limit : Nat, deny : SUBSET {"x", "LF", "CR"},
         svrbin : BOOLEAN, format : {"none", "trim", "header"},
         file : BOOLEAN, plugin : BOOLEAN, trans : BOOLEAN, fails : BOOLEAN]

ASSUME ConfAssumption == Confs \subseteq Conf

ASSUME SizeAssumption ==
  /\ BufferSingle \in Nat \ {0}
  /\ BinaryBuffLimit \in Nat \ {0}
  /\ MaxBytes \in Nat

VARIABLES
  conf,     \* the configuration, which never changes
  data,     \* the bytes of the current write that are still to be looked at
  call,     \* "none", "push": in StringPush or BinaryPush, "line": a line to take
  cache, size,  \* CacheBuff up to CacheBuffPos, CacheBuffSize
  stack,    \* K2hFtWriteBuff::Stack
  written,  \* history: the bytes written, each with: is it the first of a write?
  forced,   \* history: numbers of bytes after which a release came
  taken     \* history: the lines ever stacked

historyVars  == <<written, forced, taken>>
assemblyVars == <<conf, data, call, cache, size, stack, historyVars>>

AssemblyInit ==
  /\ conf \in Confs
  /\ data = <<>>
  /\ call = "none"
  /\ cache = <<>>
  /\ size = 0
  /\ stack = <<>>
  /\ written = <<>>
  /\ forced = {}
  /\ taken = <<>>

AssemblyTypeOK ==
  /\ conf \in Confs
  /\ data \in Seq(Bytes)
  /\ call \in {"none", "push", "line"}
  /\ cache \in Seq(Bytes)
  /\ size \in Nat
  /\ stack \in Seq(Line)
  /\ written \in Seq([byte : Bytes, first : BOOLEAN])
  /\ forced \subseteq 1 .. Len(written)
  /\ taken \in Seq(Line)
  /\ call = "none" => data = <<>>
  /\ call = "line" => cache # <<>>

-----------------------------------------------------------------------------
(* The input buffer.                                                       *)

Larger(m, n) == IF m < n THEN n ELSE m
Drop(s, n) == SubSeq(s, n + 1, Len(s))

\* The text of a line as strstr and the format strings see it.
CString(l) ==
  IF Contains(l, "NUL") THEN SubSeq(l, 1, SelectInSeq(l, LAMBDA b : b = "NUL") - 1) ELSE l

\* Mutant of Grow: no room for the byte that ends the line.
GrowNoRoom(n) ==
  IF size < Len(cache) + n THEN size + Larger(BufferSingle, n + 1) ELSE size

\* The new size of the buffer, before n bytes are appended.
Grow(n) ==
  IF size < Len(cache) + n + 1 THEN size + Larger(BufferSingle, n + 1) ELSE size

\* AppendStringBuff, with or without a check of the last character.
AppendStringBuff(part, check_last_char) ==
  LET whole == cache \o part
  IN  /\ size' = Grow(Len(part))
      /\ cache' = IF check_last_char /\ Last(whole) # "NUL" THEN Append(whole, "NUL") ELSE whole

\* The rule denies lines with the text, whatever comes after a zero byte; in
\* binary mode rules match nothing.
Denied(l) == ~conf.binmode /\ \E b \in conf.deny : Contains(CString(l), b)

TooLong(l) == conf.limit # 0 /\ conf.limit < Len(l)

\* StackPush: a line that is denied or too long is dropped without an error.
StackPush(l) ==
  IF Denied(l) \/ TooLong(l)
    THEN UNCHANGED <<stack, taken>>
    ELSE /\ stack' = Append(stack, l)
         /\ taken' = Append(taken, l)

-----------------------------------------------------------------------------
(* The pushes.                                                             *)

\* A write reaches Push.
Write(bytes) ==
  /\ call = "none"
  /\ Len(written) + Len(bytes) <= MaxBytes
  /\ call' = "push"
  /\ data' = bytes
  /\ written' = written \o [i \in DOMAIN bytes |-> [byte |-> bytes[i], first |-> i = 1]]
  /\ UNCHANGED <<conf, cache, size, stack, forced, taken>>

\* A release reaches ForcePush, Push without data: what is left in the buffer
\* becomes a line, with a terminator unless the mode is binary.
ForcePush ==
  /\ call = "none"
  /\ cache # <<>>
  /\ call' = "line"
  /\ forced' = forced \cup {Len(written)}
  /\ IF conf.binmode THEN UNCHANGED <<cache, size>> ELSE AppendStringBuff(<<>>, TRUE)
  /\ UNCHANGED <<conf, data, stack, written, taken>>

\* The next end of a line in the current write, 0 if there is none.
NextEnd == SelectInSeq(data, LAMBDA b : b \in {"LF", "CR", "NUL"})

\* Mutant of AddCr: the line feed of a CRLF starts the next line.
AddCrNever(pos) == 0

\* A line feed right after a carriage return is skipped, if in the same write.
AddCr(pos) == IF data[pos] = "CR" /\ pos < Len(data) /\ data[pos + 1] = "LF" THEN 1 ELSE 0

\* StringPush: the bytes up to an end of line complete a line.
EndLine ==
  /\ call = "push"
  /\ ~conf.binmode
  /\ NextEnd # 0
  /\ AppendStringBuff(SubSeq(data, 1, NextEnd), TRUE)
  /\ data' = Drop(data, NextEnd + AddCr(NextEnd))
  /\ call' = "line"
  /\ UNCHANGED <<conf, stack, historyVars>>

\* StringPush: the rest of the write waits in the buffer.
KeepRest ==
  /\ call = "push"
  /\ ~conf.binmode
  /\ NextEnd = 0
  /\ AppendStringBuff(data, FALSE)
  /\ data' = <<>>
  /\ call' = "none"
  /\ UNCHANGED <<conf, stack, historyVars>>

\* Where Push goes on after a piece: it returns when nothing is left.
AfterPiece(rest) == IF rest = <<>> THEN "none" ELSE "push"

\* BinaryPush: as many bytes as the block still takes.
FillBlock ==
  /\ call = "push"
  /\ conf.binmode
  /\ LET maxsize == BinaryBuffLimit - Len(cache)
         setsize == IF maxsize < Len(data) THEN maxsize ELSE Len(data)
     IN  /\ AppendStringBuff(SubSeq(data, 1, setsize), FALSE)
         /\ data' = Drop(data, setsize)
         /\ call' = IF BinaryBuffLimit <= Len(cache) + setsize THEN "line" ELSE AfterPiece(data')
  /\ UNCHANGED <<conf, stack, historyVars>>

\* TakeoutBuff, and the line goes to the stack.
TakeLine ==
  /\ call = "line"
  /\ StackPush(cache)
  /\ cache' = <<>>
  /\ size' = 0
  /\ call' = AfterPiece(data)
  /\ UNCHANGED <<conf, data, written, forced>>

AssemblyNext ==
  \/ \E bytes \in BoundedSeq(Bytes, MaxBytes) \ {<<>>} : Write(bytes)
  \/ ForcePush
  \/ EndLine
  \/ KeepRest
  \/ FillBlock
  \/ TakeLine

-----------------------------------------------------------------------------
(* Properties.                                                             *)

\* Nothing is written behind the end of the input buffer, the terminator of
\* AppendStringBuff included, however the bytes of a line are cut into writes.
BufferHolds == Len(cache) <= size

\* What a line is, said without the buffer.  The line feed of a CRLF belongs to
\* no line when both came in one write.
Skipped(i) ==
  /\ i > 1
  /\ written[i].byte = "LF"
  /\ written[i - 1].byte = "CR"
  /\ ~written[i].first

LastForced(i) == LET F == {f \in forced \cup {0} : f < i} IN CHOOSE f \in F : \A g \in F : g <= f

IsEnd(i) ==
  \/ i \in forced
  \/ IF conf.binmode
       THEN (i - LastForced(i)) % BinaryBuffLimit = 0
       ELSE written[i].byte \in {"LF", "CR", "NUL"} /\ ~Skipped(i)

\* Where a line begins after an end at byte before, and its bytes up to n.
First(before) == IF ~conf.binmode /\ Skipped(before + 1) THEN before + 2 ELSE before + 1
Piece(before, n) ==
  [i \in 1 .. (n - First(before) + 1) |-> written[First(before) + i - 1].byte]

\* The line that ends at byte e, where the line before it ended at byte before.
LineBetween(before, e) ==
  LET bytes == Piece(before, e)
  IN  IF conf.binmode \/ Last(bytes) = "NUL" THEN bytes ELSE Append(bytes, "NUL")

\* The last of the first n bytes at which a line ends, 0 if there is none.
LastEnd(n) ==
  LET E == {i \in 1 .. n : IsEnd(i)} \cup {0} IN CHOOSE e \in E : \A i \in E : i <= e

LineAt(e) == LineBetween(LastEnd(e - 1), e)

\* The lines that are neither denied nor longer than BYTELIMIT.
MayPass(l) ==
  /\ conf.limit # 0 => Len(l) <= conf.limit
  /\ conf.binmode \/ \A b \in conf.deny : ~Contains(l, b)

\* The ends of these lines in the first n bytes.
Passing(n) == {e \in 1 .. n : IsEnd(e) /\ MayPass(LineAt(e))}

\* The lines ever stacked are those that end in the first n bytes and may pass,
\* each once and in order: at gives the byte at which a stacked line ends.
StackedUpTo(n) ==
  \E at \in [DOMAIN taken -> Passing(n)] :
    /\ \A k, m \in DOMAIN taken : k < m => at[k] < at[m]
    /\ \A e \in Passing(n) : \E k \in DOMAIN taken : at[k] = e
    /\ \A k \in DOMAIN taken : taken[k] = LineAt(at[k])

\* Between two calls of Push exactly the lines of the written bytes have been
\* stacked, in order, except those that are denied or longer than BYTELIMIT.
LinesMatchReference == call = "none" => StackedUpTo(Len(written))
=============================================================================
