------------------------------- MODULE FileUtil -------------------------------
(***************************************************************************)
(* muduo/base FileUtil: AppendFile writes a line in as many fwrite() as it *)
(* takes, and ReadSmallFile reads the beginning of a file in as many       *)
(* read().  A byte is a pair of the line and the place in it.              *)
(***************************************************************************)
EXTENDS Integers, SequencesExt

CONSTANTS
  LineLens,    \* lengths of the lines appended
  MaxAppended, \* bound on the lines
  FileSizes,   \* sizes of the files read
  MaxSizes,    \* arguments maxSize
  kBufferSize  \* size of buf_

ASSUME FileUtilAssumption ==
  /\ kBufferSize \in Nat \ {0} /\ MaxAppended \in Nat
  /\ LineLens \subseteq Nat /\ FileSizes \subseteq Nat /\ MaxSizes \subseteq Nat

VARIABLES
  fuFile,     \* the bytes in the file appended to
  fuLine,     \* the line in AppendFile::append(): length, n, and whether the loop goes on
  fuLines,    \* history: the lines so far
  fuWritten,  \* writtenBytes_
  fuRead      \* the ReadSmallFile: its file, its call and what it has read

fuVars == <<fuFile, fuLine, fuLines, fuWritten, fuRead>>
appendVars == <<fuFile, fuLine, fuLines, fuWritten>>

NoLine == [len |-> 0, n |-> 0, busy |-> FALSE]
NoRead == [state |-> "none", size |-> 0, max |-> 0, got |-> 0, err |-> FALSE, nul |-> 0]

FileUtilInit ==
  fuFile = << >> /\ fuLine = NoLine /\ fuLines = 0 /\ fuWritten = 0 /\ fuRead = NoRead

\* fwrite_unlocked() of the bytes from + 1 to from + count.
Bytes(from, count) == [k \in 1 .. count |-> <<fuLines, from + k>>]

\* The rest of a line starts at logline + n.  (Mutant: it starts at logline.)
RestFromStart(n) == 0
RestFrom(n) == n

\* The first fwrite() of AppendFile::append() takes x of the line's bytes, for
\* less than all of them when the disk is full.
AppendBegins(len, x) ==
  /\ ~ fuLine.busy /\ fuLines < MaxAppended /\ fuRead = NoRead
  /\ x \in 0 .. len
  /\ fuLines' = fuLines + 1
  /\ fuFile' = fuFile \o [k \in 1 .. x |-> <<fuLines + 1, k>>]
  /\ fuLine' = [len |-> len, n |-> x, busy |-> TRUE]
  /\ UNCHANGED <<fuWritten, fuRead>>

AppendGoesOn(x) ==
  /\ fuLine.busy /\ x \in 1 .. fuLine.len - fuLine.n
  /\ fuFile' = fuFile \o Bytes(RestFrom(fuLine.n), x)
  /\ fuLine' = [fuLine EXCEPT !.n = @ + x]
  /\ UNCHANGED <<fuLines, fuWritten, fuRead>>

\* writtenBytes_ += len, also after a failure.
CountedBytes(len) == fuWritten + len

\* Nothing remains, or a write of 0 bytes ends the loop.
AppendEnds ==
  /\ fuLine.busy
  /\ fuWritten' = CountedBytes(fuLine.len)
  /\ fuLine' = NoLine
  /\ UNCHANGED <<fuFile, fuLines, fuRead>>

\* open(); a failure keeps errno.
OpenToRead(size, max) ==
  /\ fuRead.state = "none" /\ ~ fuLine.busy
  /\ \/ fuRead' = [NoRead EXCEPT !.state = "open", !.size = size, !.max = max]
     \/ fuRead' = [NoRead EXCEPT !.state = "done", !.size = size, !.max = max, !.err = TRUE]
  /\ UNCHANGED appendVars

ToRead(r) == Min({r.max - r.got, kBufferSize})

\* One turn of the loop of readToString() that read something.
ReadTurn(n) ==
  /\ fuRead.state = "open" /\ fuRead.got < fuRead.max
  /\ n \in 1 .. Min({ToRead(fuRead), fuRead.size - fuRead.got})
  /\ fuRead' = [fuRead EXCEPT !.got = @ + n]
  /\ UNCHANGED appendVars

\* The loop ends at maxSize, at the end of the file, or with an error of read();
\* an error of fstat() before it is returned too.
ReadStops ==
  /\ fuRead.state = "open"
  /\ \E failed \in BOOLEAN :
       /\ failed \/ fuRead.got >= fuRead.max \/ fuRead.got = fuRead.size
       /\ fuRead' = [fuRead EXCEPT !.state = "done", !.err = failed]
  /\ UNCHANGED appendVars

\* What pread() may fill in readToBuffer(), which writes a NUL behind it.
BufferBytes == kBufferSize - 1

ReadToBuffer(n) ==
  /\ fuRead.state = "open" /\ fuRead.got = 0
  /\ \/ n \in 0 .. Min({BufferBytes, fuRead.size}) /\ fuRead' = [fuRead EXCEPT !.state = "buffer", !.nul = n]
     \/ n = 0 /\ fuRead' = [fuRead EXCEPT !.state = "buffer", !.err = TRUE]
  /\ UNCHANGED appendVars

FileUtilNext ==
  \/ \E len \in LineLens : \E x \in 0 .. len : AppendBegins(len, x)
  \/ \E len \in LineLens : \E x \in 1 .. len : AppendGoesOn(x)
  \/ AppendEnds
  \/ \E size \in FileSizes, max \in MaxSizes : OpenToRead(size, max)
  \/ \E n \in 0 .. kBufferSize : ReadTurn(n) \/ ReadToBuffer(n)
  \/ ReadStops

FileUtilSpec == FileUtilInit /\ [][FileUtilNext]_fuVars

-----------------------------------------------------------------------------
\* The types; the NUL that readToBuffer() writes is in the buffer.
FileUtilTypeOK ==
  /\ fuLine.n \in 0 .. fuLine.len /\ fuLine.busy \in BOOLEAN
  /\ fuLines \in 0 .. MaxAppended /\ fuWritten \in Nat
  /\ fuRead.state \in {"none", "open", "done", "buffer"}
  /\ fuRead.nul < kBufferSize

\* However fwrite() splits a line or fails, what is in the file is the beginning of
\* each line, in order: no byte twice, and none after one that is missing.
LinesAreBeginnings ==
  \A i \in DOMAIN fuFile :
    \/ fuFile[i][2] = 1 /\ (i > 1 => fuFile[i][1] > fuFile[i - 1][1])
    \/ i > 1 /\ fuFile[i] = <<fuFile[i - 1][1], fuFile[i - 1][2] + 1>>

\* writtenBytes_, by which LogFile decides to roll, never falls behind the file.
CountCoversFile == ~ fuLine.busy => Len(fuFile) <= fuWritten

\* readToString() returns at most maxSize bytes, and when it reports no error all of
\* the file or exactly maxSize, however short the reads were.
ReadsAllItMay ==
  /\ fuRead.got <= fuRead.max
  /\ fuRead.state = "done" /\ ~ fuRead.err => fuRead.got = Min({fuRead.size, fuRead.max})

\* Short writes and reads lose, double and overrun nothing.
FileUtilInv == FileUtilTypeOK /\ LinesAreBeginnings /\ CountCoversFile /\ ReadsAllItMay
=============================================================================
