------------------------------ MODULE LogStream ------------------------------
(***************************************************************************)
(* logstream/source.go: one follower of a log file ("angl logs -f") beside *)
(* the writer of daemon/process.go (openLogFile, rotateLog), and an editor *)
(* that truncates.  Tailer has the goroutine that asks it for polls.       *)
(*                                                                         *)
(* A byte is a number: the bytes are numbered in the order they are        *)
(* written, Ends are the newlines among them.  So a sequence of            *)
(* consecutive numbers is text as it was written.                          *)
(*                                                                         *)
(* A poll is several system calls, the writer runs between them.           *)
(* Abstracted: the clipping of long lines, the reporting of errors (a      *)
(* failing call ends the poll), several sources (merged by index).         *)
(***************************************************************************)
EXTENDS Integers, Sequences, FiniteSets, SequencesExt

CONSTANTS
    Ends,        \* the bytes that are newlines
    TailLines,   \* opts.TailLines
    MaxRead,     \* opts.MaxReadBytesPerPoll
    MaxLines,    \* opts.MaxLinesPerPoll
    SampleSize,  \* sampleSize of capturePrefix
    RotateSize,  \* maxLogSize
    MaxBytes,    \* bound: bytes written
    MaxFiles,    \* bound: files created
    Truncations, \* bound: truncations
    KeepsUp      \* bound: only a file the follower has open is rotated, and only one it
                 \* did not open empty is truncated, between two polls, and not rotated

ASSUME LogStreamAssumption ==
    /\ Ends \subseteq 1 .. MaxBytes
    /\ TailLines \in Nat /\ MaxRead \in Nat \ {0} /\ MaxLines \in Nat \ {0}
    /\ SampleSize \in Nat \ {0} /\ RotateSize \in Nat \ {0}
    /\ MaxBytes \in Nat /\ MaxBytes >= 3 /\ MaxFiles \in Nat \ {0} /\ Truncations \in Nat
    /\ KeepsUp \in BOOLEAN

VARIABLES
    content,   \* the bytes of every file that was created
    path,      \* the file at source.Path, 0 if there is none
    wfile,     \* the file the child writes to, 0 between two children
    written,   \* bytes numbered so far
    truncated, \* truncations so far
    at,        \* where the poll is
    initial,   \* the first request has not been answered
    file, offset, buf, prefix, stableEOF, \* sourceState; buf is that of its parser
    info,      \* what Stat returned: the file at the path, its size, the open file's size
    lines,     \* the lines this poll has parsed
    delivered, \* history: bytes answered in lines
    from       \* history: the first byte the follower is to answer, 0 before it opened

files == <<content, path, wfile, written, truncated>>
source == <<file, offset, buf, prefix, stableEOF>>
poll == <<at, initial, info, lines>>
vars == <<files, source, poll, delivered, from>>

Bytes == 1 .. MaxBytes
Files == 1 .. MaxFiles
NoInfo == [file |-> 0, size |-> 0, current |-> 0]

TypeOK ==
    /\ content \in [Files -> Seq(Bytes)]
    /\ path \in 0 .. MaxFiles /\ wfile \in {0, path}
    /\ written \in 0 .. MaxBytes /\ truncated \in 0 .. Truncations
    /\ at \in {"idle", "stat", "check", "prefix", "drain", "read", "open", "first", "respond"}
    /\ initial \in BOOLEAN
    /\ file \in 0 .. MaxFiles /\ offset \in 0 .. MaxBytes
    /\ buf \in Seq(Bytes \ Ends)
    /\ prefix \in Seq(Bytes) /\ Len(prefix) <= SampleSize
    /\ stableEOF \in 0 .. 1
    /\ info \in [file : 0 .. MaxFiles, size : 0 .. MaxBytes, current : 0 .. MaxBytes]
    /\ lines \in Seq(Seq(Bytes))
    /\ delivered \subseteq Bytes /\ from \in 0 .. MaxBytes + 1

Init ==
    /\ path \in {0, 1}
    /\ content \in [Files -> {<<>>, <<1, 2, 3>>}]
    /\ \A f \in Files : content[f] = <<>> \/ f = path
    /\ wfile = path
    /\ written = 3
    /\ truncated = 0
    /\ at = "idle" /\ initial = TRUE
    /\ file = 0 /\ offset = 0 /\ buf = <<>> /\ prefix = <<>> /\ stableEOF = 0
    /\ info = NoInfo
    /\ lines = <<>>
    /\ delivered = {} /\ from = 0

-----------------------------------------------------------------------------
(* The writer.                                                             *)

Size(f) == Len(content[f])

Append1 ==
    /\ wfile # 0
    /\ written < MaxBytes
    /\ content' = [content EXCEPT ![wfile] = Append(@, written + 1)]
    /\ written' = written + 1
    /\ UNCHANGED <<path, wfile, truncated, source, poll, delivered, from>>

\* The child ends; rotateLog before the next one renames a large file away.
\* A bound: nothing is appended to the renamed file, though Drained waits for it.
rotateLog ==
    /\ wfile # 0
    /\ Size(path) >= RotateSize
    /\ \E f \in Files : f > path
    /\ KeepsUp => file = path /\ truncated = 0
    /\ path' = 0
    /\ wfile' = 0
    /\ UNCHANGED <<content, written, truncated, source, poll, delivered, from>>

\* openLogFile creates the file; files are numbered in that order.
openLogFile ==
    /\ wfile = 0
    /\ \E f \in Files :
          /\ content[f] = <<>>
          /\ \A g \in Files : content[g] = <<>> => f <= g
          /\ path' = f /\ wfile' = f
    /\ UNCHANGED <<content, written, truncated, source, poll, delivered, from>>

\* An editor or a shell empties the file; the child goes on at its end.  A
\* number is passed over: what follows does not continue what was there.
Truncate ==
    /\ path # 0
    /\ truncated < Truncations
    /\ written < MaxBytes
    /\ KeepsUp => file = path /\ prefix # <<>> /\ at \in {"idle", "respond"}
    /\ content' = [content EXCEPT ![path] = <<>>]
    /\ written' = written + 1
    /\ truncated' = truncated + 1
    /\ UNCHANGED <<path, wfile, source, poll, delivered, from>>
-----------------------------------------------------------------------------
(* The parser and the reads.                                               *)

Newlines(s) == {i \in 1 .. Len(s) : s[i] \in Ends}

\* Where the i-th line ends, when the newlines are at the places N.
LineEnd(N, i) == IF i = 0 THEN 0 ELSE CHOOSE k \in N : Cardinality({j \in N : j <= k}) = i

\* Mutant of consume: the buffer is not reset after a line.
consume_NoReset(b, s) ==
    LET t == b \o s
        N == Newlines(t)
    IN  [lines |-> [i \in 1 .. Cardinality(N) |-> SubSeq(t, 1, LineEnd(N, i))],
         buf   |-> t]

\* lineParser.consume: the lines completed by s, which begin with the buffer b,
\* and what stays in the buffer.
consume(b, s) ==
    LET t == b \o s
        N == Newlines(t)
        n == Cardinality(N)
    IN  [lines |-> [i \in 1 .. n |-> SubSeq(t, LineEnd(N, i - 1) + 1, LineEnd(N, i))],
         buf   |-> SubSeq(t, LineEnd(N, n) + 1, Len(t))]

Beginning(s, n) == SubSeq(s, 1, IF n < Len(s) THEN n ELSE Len(s))

\* What one poll takes of the bytes that are there: to a limit of bytes, and
\* no further than the newline that completes the last line it may return.
Taken(s) ==
    {k \in 0 .. Len(s) : k <= MaxRead /\ Cardinality({i \in Newlines(s) : i < k}) < MaxLines}
Unread(f, o) == SubSeq(content[f], o + 1, Size(f))

\* reverseTailStart: the last n lines begin after the n-th newline from the
\* end, the one that ends the file not counted.
reverseTailStart(s, n) ==
    LET inner == {i \in Newlines(s) : i < Len(s)} IN
    CASE n = 0 -> Len(s)
      [] n > Cardinality(inner) -> 0
      [] OTHER -> CHOOSE i \in inner : Cardinality({j \in inner : j >= i}) = n

\* Mutant of readAvailable: no Seek back to the end of the last line it may return.
readAvailable_NoRewind(f, o, b) ==
    LET s == Unread(f, o)
        k == CHOOSE m \in Taken(s) : \A l \in Taken(s) : l <= m
        c == consume(b, SubSeq(s, 1, k))
    IN  [offset |-> o + (IF MaxRead < Len(s) THEN MaxRead ELSE Len(s)),
         buf |-> c.buf, lines |-> c.lines]

\* readAvailable from offset o with buffer b.
readAvailable(f, o, b) ==
    LET s == Unread(f, o)
        k == CHOOSE m \in Taken(s) : \A l \in Taken(s) : l <= m
        c == consume(b, SubSeq(s, 1, k))
    IN  [offset |-> o + k, buf |-> c.buf, lines |-> c.lines]

Go(l) == at' = l /\ UNCHANGED initial

Reading(r) ==
    /\ offset' = r.offset
    /\ buf' = r.buf
    /\ lines' = lines \o r.lines

\* (A set of one, so that the reading is computed once.)
ReadOn(f, o, b) == \E r \in {readAvailable(f, o, b)} : Reading(r)

-----------------------------------------------------------------------------
(* The follower: runSource takes a request, poll answers it.               *)

\* A request arrives.
Request ==
    /\ at = "idle"
    /\ Go(IF file = 0 THEN "open" ELSE "stat")
    /\ UNCHANGED <<files, source, info, lines, delivered, from>>

\* Without a file at the path the open one is read on.
StatPath ==
    /\ at = "stat"
    /\ IF path = 0
       THEN /\ ReadOn(file, offset, buf)
            /\ Go("respond")
            /\ UNCHANGED info
       ELSE /\ info' = [NoInfo EXCEPT !.file = path, !.size = Size(path)]
            /\ Go("check")
            /\ UNCHANGED <<offset, buf, lines>>
    /\ UNCHANGED <<files, file, prefix, stableEOF, delivered, from>>

StatFile ==
    /\ at = "check"
    /\ info' = [info EXCEPT !.current = Size(file)]
    /\ Go(CASE info.file # file -> "drain"
            [] info.file = file /\ info.size >= offset /\ offset > 0 -> "prefix"
            [] OTHER -> "read")
    /\ UNCHANGED <<files, source, lines, delivered, from>>

\* Mutant of prefixChanged: only a shorter file counts as changed.
prefixChanged_Length == Size(file) < Len(prefix)

\* The file was rewritten: it does not begin as it did when it was opened.
prefixChanged ==
    Beginning(content[file], Len(prefix)) # prefix

CheckPrefix ==
    /\ at = "prefix"
    /\ IF prefixChanged
       THEN offset' = 0 /\ buf' = <<>>
       ELSE UNCHANGED <<offset, buf>>
    /\ Go("read")
    /\ UNCHANGED <<files, file, prefix, stableEOF, info, lines, delivered, from>>

\* Mutant of Read: the parser keeps its half line when the file was truncated.
Read_KeepBuffer ==
    /\ at = "read"
    /\ ReadOn(file, IF info.size < offset THEN 0 ELSE offset, buf)
    /\ Go("respond")
    /\ UNCHANGED <<files, file, prefix, stableEOF, info, delivered, from>>

\* A file shorter than what was read is read from its start.
Read ==
    /\ at = "read"
    /\ IF info.size < offset THEN ReadOn(file, 0, <<>>) ELSE ReadOn(file, offset, buf)
    /\ Go("respond")
    /\ UNCHANGED <<files, file, prefix, stableEOF, info, delivered, from>>

\* Mutant of Drained: the renamed file is left at once.
Drained_AtOnce(r) == TRUE

\* The renamed file had no more than was read now.
Drained(r) == ~(Len(r.lines) = MaxLines \/ info.current > r.offset)

\* The path names another file: the renamed one is read to its end, twice,
\* then what is left in the buffer is a line and the new file is opened.
Drain ==
    /\ at = "drain"
    /\ \E r \in {readAvailable(file, offset, buf)} :
       IF Drained(r) /\ stableEOF = 1
       THEN /\ lines' = lines \o r.lines \o (IF r.buf = <<>> THEN <<>> ELSE <<r.buf>>)
            /\ offset' = 0 /\ buf' = <<>> /\ prefix' = <<>> /\ file' = 0
            /\ stableEOF' = 0
            /\ Go("open")
       ELSE /\ Reading(r)
            /\ stableEOF' = IF Drained(r) THEN 1 ELSE 0
            /\ Go("respond")
            /\ UNCHANGED <<file, prefix>>
    /\ UNCHANGED <<files, info, delivered, from>>

\* open: the handle, its size, the prefix of what it holds.
Open ==
    /\ at = "open"
    /\ IF path = 0
       THEN Go("respond") /\ UNCHANGED <<source, info, from>>
       ELSE /\ file' = path
            /\ stableEOF' = 0 /\ buf' = <<>> /\ offset' = 0
            /\ prefix' = Beginning(content[path], SampleSize)
            /\ info' = [NoInfo EXCEPT !.current = Size(path)]
            /\ LET start == IF initial THEN reverseTailStart(content[path], TailLines) ELSE 0
               IN  from' = IF from # 0 THEN from
                           ELSE IF start < Size(path) THEN content[path][start + 1]
                           ELSE written + 1
            /\ Go("first")
    /\ UNCHANGED <<files, lines, delivered>>

\* The first read: at the very start the tail of what was there, half a line
\* at its end included; later a new file from its beginning.
First ==
    /\ at = "first"
    /\ IF initial
       THEN /\ LET s == Beginning(content[file], info.current)
                   c == consume(<<>>, SubSeq(s, reverseTailStart(s, TailLines) + 1, Len(s)))
               IN  lines' = c.lines \o (IF c.buf = <<>> THEN <<>> ELSE <<c.buf>>)
            /\ offset' = info.current
            /\ UNCHANGED buf
       ELSE ReadOn(file, 0, <<>>)
    /\ Go("respond")
    /\ UNCHANGED <<files, file, prefix, stableEOF, info, delivered, from>>

BytesOf(ls) == UNION {Range(ls[i]) : i \in 1 .. Len(ls)}

Respond ==
    /\ at = "respond"
    /\ delivered' = delivered \cup BytesOf(lines)
    /\ lines' = <<>>
    /\ info' = NoInfo
    /\ at' = "idle"
    /\ initial' = FALSE
    /\ UNCHANGED <<files, source, from>>

\* Inside a poll.
pollStep == StatPath \/ StatFile \/ CheckPrefix \/ Read \/ Drain \/ Open \/ First

Writer == Append1 \/ rotateLog \/ openLogFile \/ Truncate

Next == Writer \/ Request \/ pollStep \/ Respond

Spec == Init /\ [][Next]_vars

-----------------------------------------------------------------------------
(* Properties.                                                             *)

\* No line joins what was written before a truncation to what was written
\* after it.
NoSplicedLine ==
    \A i \in 1 .. Len(lines) : \A j \in 1 .. Len(lines[i]) : lines[i][j] = lines[i][1] + j - 1

\* "Following is ... truncation-aware" (README.md 145): what was answered once
\* is not answered again.
NoLineTwice ==
    at = "respond" => BytesOf(lines) \cap delivered = {}
-----------------------------------------------------------------------------
(* The inductive invariant (Tailer_proofs).                                *)

\* The bytes of s follow each other, from byte x.
Consecutive(s, x) == \A i \in 1 .. Len(s) : s[i] = x + i - 1

\* s holds the bytes from x up to, not including, y, in order; there are some.
Stretch(s, x, y) == Len(s) > 0 /\ y = x + Len(s) /\ Consecutive(s, x)

\* The lines ls hold the bytes from x up to, not including, y, in order.
Contiguous(ls, x, y) ==
    LET e(i) == IF i = 0 THEN x ELSE ls[i][1] + Len(ls[i])
    IN  e(Len(ls)) = y /\ \A i \in 1 .. Len(ls) : Stretch(ls[i], e(i - 1), e(i))

\* The first byte of the file, or the next one that is written.
Start(f) == IF f \in Files /\ content[f] # <<>> THEN content[f][1] ELSE written + 1

SizesInv ==
    /\ \A f \in Files : Size(f) <= written
    /\ at \in {"stat", "check", "prefix", "read", "drain", "first"} => file # 0

\* Files hold what was written in one piece, one after the other.
FilesInv ==
    /\ wfile = path
    /\ \A f \in Files : content[f] # <<>> => Consecutive(content[f], content[f][1])
    /\ path # 0 => /\ Start(path) + Size(path) = written + 1
                   /\ \A f \in Files : /\ f > path => content[f] = <<>>
                                       /\ f < path => content[f] # <<>>
    /\ path = 0 => \A f, g \in Files : f < g /\ content[g] # <<>> => content[f] # <<>>
    /\ truncated = 0 =>
          \A f \in Files : content[f] # <<>> => Start(f) + Size(f) = Start(f + 1)

\* The follower is on the file at the path or on the one before it, and what
\* it learnt of them is still so.
FollowInv ==
    /\ initial => at \in {"idle", "open", "first", "respond"}
    /\ file # 0 => path \in {0, file, file + 1}
    /\ file # 0 /\ path = 0 =>
          content[file] # <<>> /\ \A f \in Files : f > file => content[f] = <<>>
    /\ file = 0 /\ from # 0 => at = "open" /\ path # 0
    /\ at = "open" => file = 0
    /\ at = "first" \/ file = 0 => offset = 0
    /\ at = "check" /\ info.file # file => info.file = path /\ path = file + 1
    /\ at \in {"prefix", "read"} => info.file = file
    /\ at = "drain" => path = file + 1 /\ info.current = Size(file)
    /\ at \in {"check", "prefix", "read"} /\ info.file = file =>
          info.size <= Size(file) /\ (truncated = 0 => offset <= info.size)
    /\ lines # <<>> => at \in {"open", "first", "respond"}
    /\ Len(buf) <= offset

\* The buffer is what was last read of the file, up to the offset.
BufferOK ==
    offset <= Size(file) /\ Consecutive(buf, Start(file) + offset - Len(buf))

PrefixInv ==
    /\ file # 0 /\ truncated = 0 => BufferOK /\ ~prefixChanged
    /\ at = "read" => info.size < offset \/ BufferOK
    /\ truncated # 0 => /\ path = file /\ file # 0 /\ at \notin {"open", "first", "drain"}
                        /\ prefix # <<>> /\ Start(file) > prefix[1]

\* What is answered, what is parsed and what is in the buffer follow each
\* other, from the first byte the follower is to answer.
NextByte == IF file = 0 THEN Start(path) ELSE Start(file) + offset

LinesInv ==
    /\ NoSplicedLine
    /\ from = 0 => lines = <<>> /\ delivered = {} /\ buf = <<>> /\ file = 0
    /\ initial /\ from # 0 => at \in {"first", "respond"} /\ delivered = {}
    /\ initial /\ at = "first" =>
          LET s == Beginning(content[file], info.current)
          IN  /\ lines = <<>> /\ buf = <<>> /\ info.current <= Size(file)
              /\ from = Start(file) + reverseTailStart(s, TailLines)
    /\ truncated = 0 /\ from # 0 /\ ~(initial /\ at = "first") =>
          \E x \in from .. MaxBytes + 1 :
              delivered = from .. (x - 1) /\ Contiguous(lines, x, NextByte - Len(buf))

StreamInv == KeepsUp => FilesInv /\ FollowInv /\ PrefixInv /\ LinesInv

=============================================================================
