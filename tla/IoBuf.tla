------------------------------- MODULE IoBuf -------------------------------
(***************************************************************************)
(* VW::io_buf (io_buf.h, io_buf.cc): one growing buffer between the        *)
(* parsers and a list of input files, or between the cache writer and one  *)
(* output file.  The text parser reads lines (readto), the cache parser    *)
(* reads fixed numbers of bytes (buf_read), the flatbuffer parser reads a  *)
(* size and then an object of that size, each at its own alignment.        *)
(*                                                                         *)
(* A byte is <<file, position>>, so that one can see where it came from;   *)
(* value gives what it holds.  A read of a file may return fewer bytes     *)
(* than asked for.  The buffer begins at an address that is aligned.       *)
(***************************************************************************)
EXTENDS Integers, Sequences, SequencesExt, FiniteSets

CONSTANTS
  InitialSize,    \* INITIAL_BUFF_SIZE
  Inputs,         \* records: mode "text", "cache", "flatbuffer" or "write", and
                  \* files, the values of the bytes of each file
  MaxRequest,     \* bound: bytes asked for at once
  Passes          \* how often the input is read

ASSUME IoAssumption == InitialSize \in Nat \ {0} /\ MaxRequest \in Nat /\ Passes \in Nat

Terminal == 0       \* the end of a line
PrefixSize == 1     \* sizeof(size_prefix_t): half an alignment
Garbage == <<0, 0>>

VARIABLES
  input,      \* the record of Inputs
  offset,     \* how far each file has been read
  ioCurrent,    \* _current, counted from 1
  buf,        \* the bytes from _buffer.begin to _buffer.end
  head,       \* _head - _buffer.begin
  capacity,   \* _buffer.end_array - _buffer.begin
  op,         \* the call in progress: [name, n, align, first] or Idle
  chunks,     \* what the calls of this pass have returned
  ioThrown,     \* an alignment could not be had
  pass,
  written, outfile  \* write: all bytes handed in; the bytes in the file

ioVars == <<input, offset, ioCurrent, buf, head, capacity, op, chunks, ioThrown, pass,
            written, outfile>>

Idle == [name |-> "idle"]
Byte(f, p) == <<f, p>>
ValueAt(b) == IF b = Garbage THEN -1 ELSE input.files[b[1]][b[2]]
StreamOf(f) == [p \in 1 .. Len(input.files[f]) |-> Byte(f, p)]
InputStream == FlattenSeq([f \in 1 .. Len(input.files) |-> StreamOf(f)])

IoInit ==
  /\ input = [mode |-> "none", files |-> <<>>]
  /\ offset = <<>> /\ ioCurrent = 1 /\ buf = <<>> /\ head = 0 /\ capacity = InitialSize
  /\ op = Idle /\ chunks = <<>> /\ ioThrown = FALSE /\ pass = 1
  /\ written = 0 /\ outfile = <<>>

AddFiles ==
  /\ input.mode = "none" /\ input' \in Inputs
  /\ offset' = [f \in 1 .. Len(input'.files) |-> 0]
  /\ UNCHANGED <<ioCurrent, buf, head, capacity, op, chunks, ioThrown, pass, written, outfile>>

-----------------------------------------------------------------------------
(* shift_to_front: the unread bytes move to the first place that has the   *)
(* alignment asked for; bytes that lie before it are not moved, and the    *)
(* caller finds something else there.                                      *)
Padding(align) == align.offset
Shifted(align) ==
  [i \in 1 .. Padding(align) |-> Garbage] \o
    (IF head >= Padding(align) THEN SubSeq(buf, head + 1, Len(buf))
     ELSE [i \in 1 .. Len(buf) - head |-> Garbage])

IsAligned(align, h) == h % align.align = align.offset
Text == [align |-> 1, offset |-> 0]

(* fill: twice the space when there is none left, then one read.           *)
Grown_Slip(bytes) == capacity
Grown(bytes) == IF Len(bytes) = capacity THEN 2 * capacity ELSE capacity

Fill(bytes) ==
  /\ capacity' = Grown(bytes)
  /\ \E k \in 1 .. Len(input.files[ioCurrent]) :
       /\ k <= Len(input.files[ioCurrent]) - offset[ioCurrent] /\ k <= capacity' - Len(bytes)
       /\ buf' = bytes \o [i \in 1 .. k |-> Byte(ioCurrent, offset[ioCurrent] + i)]
       /\ offset' = [offset EXCEPT ![ioCurrent] = @ + k]
  /\ UNCHANGED <<ioCurrent, op, chunks, ioThrown>>

AtEof(bytes) ==
  IF ioCurrent > Len(input.files) THEN TRUE
  ELSE offset[ioCurrent] = Len(input.files[ioCurrent]) \/ Grown(bytes) = Len(bytes)

(* A call returns the bytes up to position h.                              *)
Return(bytes, from, h) ==
  /\ buf' = bytes /\ head' = h
  /\ chunks' = Append(chunks, SubSeq(bytes, from + 1, h))
  /\ op' = Idle
  /\ UNCHANGED <<offset, ioThrown>>

(* Out of bytes: shift, then refill, or go on with the next file, or       *)
(* return what is left.                                                    *)
NeedsShift_Slip == FALSE
NeedsShift == head # 0

Refill(align) ==
  LET bytes == IF NeedsShift THEN Shifted(align) ELSE buf
      h == IF NeedsShift THEN Padding(align) ELSE head
  IN \/ ~AtEof(bytes) /\ Fill(bytes) /\ head' = h
     \/ /\ AtEof(bytes) /\ ioCurrent' = ioCurrent + 1
        /\ capacity' = IF ioCurrent > Len(input.files) THEN capacity ELSE Grown(bytes)
        /\ \/ /\ ioCurrent' <= Len(input.files) /\ buf' = bytes /\ head' = h
              /\ UNCHANGED <<offset, op, chunks, ioThrown>>
           \/ /\ ioCurrent' > Len(input.files) /\ IsAligned(align, h)
              /\ Return(bytes, h, Len(bytes))
           \/ /\ ioCurrent' > Len(input.files) /\ ~IsAligned(align, h) /\ ioThrown' = TRUE
              /\ buf' = bytes /\ head' = h /\ UNCHANGED <<offset, op, chunks>>

(* One turn of buf_read.                                                   *)
BufRead ==
  /\ op.name = "buf_read" /\ ~ioThrown
  /\ \/ /\ head + op.n <= Len(buf)
        /\ \/ /\ IsAligned(op.align, head) /\ Return(buf, head, head + op.n)
              /\ UNCHANGED <<ioCurrent, capacity>>
           \/ /\ ~IsAligned(op.align, head) /\ head > op.align.offset
              /\ Return(Shifted(op.align), Padding(op.align), Padding(op.align) + op.n)
              /\ UNCHANGED <<ioCurrent, capacity>>
           \/ /\ ~IsAligned(op.align, head) /\ head <= op.align.offset /\ ioThrown' = TRUE
              /\ UNCHANGED <<offset, ioCurrent, buf, head, capacity, op, chunks>>
     \/ head + op.n > Len(buf) /\ Refill(op.align)
  /\ UNCHANGED <<input, pass, written, outfile>>

(* One turn of readto.                                                     *)
Terminals == {i \in head + 1 .. Len(buf) : ValueAt(buf[i]) = Terminal}

Readto ==
  /\ op.name = "readto" /\ ~ioThrown
  /\ \/ \E i \in Terminals : /\ \A j \in Terminals : i <= j
                             /\ Return(buf, head, i) /\ UNCHANGED <<ioCurrent, capacity>>
     \/ Terminals = {} /\ Refill(Text)
  /\ UNCHANGED <<input, pass, written, outfile>>

-----------------------------------------------------------------------------
(* The callers.  The flatbuffer parser asks for a size at the alignment,   *)
(* then for an object at the alignment plus the size of the prefix.        *)
AtEnd == chunks # <<>> /\ Last(chunks) = <<>>
ReadsObject == Len(chunks) % 2 = 1

Requests ==
  CASE input.mode = "text"  -> {[name |-> "readto"]}
    [] input.mode = "cache" ->
         {[name |-> "buf_read", n |-> k, align |-> Text] : k \in 1 .. MaxRequest}
    [] input.mode = "flatbuffer" ->
         IF ReadsObject
         THEN {[name |-> "buf_read", n |-> ValueAt(Last(chunks)[1]),
                align |-> [align |-> 2 * PrefixSize, offset |-> PrefixSize]]}
         ELSE {[name |-> "buf_read", n |-> PrefixSize,
                align |-> [align |-> 2 * PrefixSize, offset |-> 0]]}
    [] OTHER -> {}

BeginCall ==
  /\ op = Idle /\ ~AtEnd /\ ~ioThrown /\ op' \in Requests
  /\ UNCHANGED <<input, offset, ioCurrent, buf, head, capacity, chunks, ioThrown, pass,
                 written, outfile>>

(* reset: the files are read again from the beginning.                     *)
CurrentAfterReset_Slip == ioCurrent
CurrentAfterReset == 1

ResetBuf ==
  /\ AtEnd /\ op = Idle /\ pass < Passes /\ pass' = pass + 1
  /\ offset' = [f \in DOMAIN offset |-> 0] /\ buf' = <<>> /\ head' = 0
  /\ ioCurrent' = CurrentAfterReset /\ chunks' = <<>>
  /\ UNCHANGED <<input, capacity, op, ioThrown, written, outfile>>

-----------------------------------------------------------------------------
(* buf_write: room for n bytes; the caller fills k of them and sets head.  *)
(* Here buf holds the bytes from begin to head.                            *)
BeginWrite ==
  /\ input.mode = "write" /\ op = Idle /\ written < Len(InputStream)
  /\ \E n \in 1 .. MaxRequest : \E k \in 1 .. n :
       /\ written + k <= Len(InputStream)
       /\ op' = [name |-> "buf_write", n |-> n, k |-> k]
  /\ UNCHANGED <<input, offset, ioCurrent, buf, head, capacity, chunks, ioThrown, pass,
                 written, outfile>>

Flushed_Slip == <<outfile \o buf, buf>>
Flushed == <<outfile \o buf, <<>> >>

BufWrite ==
  /\ op.name = "buf_write"
  /\ \/ /\ Len(buf) + op.n <= capacity /\ op' = Idle
        /\ buf' = buf \o SubSeq(InputStream, written + 1, written + op.k)
        /\ head' = head + op.k /\ written' = written + op.k
        /\ UNCHANGED <<capacity, outfile>>
     \/ /\ Len(buf) + op.n > capacity /\ buf # <<>>
        /\ outfile' = Flushed[1] /\ buf' = Flushed[2] /\ head' = Len(buf')
        /\ UNCHANGED <<capacity, op, written>>
     \/ /\ Len(buf) + op.n > capacity /\ buf = <<>> /\ capacity' = 2 * capacity
        /\ UNCHANGED <<buf, head, op, written, outfile>>
  /\ UNCHANGED <<input, offset, ioCurrent, chunks, ioThrown, pass>>

FlushBuf ==
  /\ input.mode = "write" /\ op = Idle /\ buf # <<>>
  /\ outfile' = Flushed[1] /\ buf' = Flushed[2] /\ head' = Len(buf')
  /\ UNCHANGED <<input, offset, ioCurrent, capacity, op, chunks, ioThrown, pass, written>>

IoNext ==
  \/ AddFiles \/ BeginCall \/ BufRead \/ Readto \/ ResetBuf
  \/ BeginWrite \/ BufWrite \/ FlushBuf

-----------------------------------------------------------------------------
(* What the calls have returned is the input, byte for byte and in order,  *)
(* across short reads, shifts, growth, alignment and the border between    *)
(* two files, in every pass; at the end nothing is missing.                *)
StreamRead ==
  /\ IsPrefix(FlattenSeq(chunks), InputStream)
  /\ AtEnd => FlattenSeq(chunks) = InputStream

(* A call ends early only where the input ends: a line ends with its only  *)
(* terminal, a block has the size that was asked for.                      *)
IsShort(i) ==
  LET c == chunks[i]
  IN CASE input.mode = "text" -> c = <<>> \/ ValueAt(Last(c)) # Terminal
       [] input.mode = "flatbuffer" /\ i % 2 = 0 -> Len(c) < ValueAt(chunks[i - 1][1])
       [] OTHER -> c = <<>>

WholeChunks ==
  \A i \in DOMAIN chunks :
    /\ IsShort(i) => FlattenSeq(SubSeq(chunks, 1, i)) = InputStream
    /\ input.mode = "text" => \A j \in 1 .. Len(chunks[i]) - 1 : ValueAt(chunks[i][j]) # Terminal

(* The exception "io_buf cannot be aligned to desired alignment" is never  *)
(* thrown for well-formed flatbuffer input, whatever the object sizes.     *)
AlwaysAligned == ~ioThrown

(* The output file and the bytes still in the buffer are what was written. *)
StreamWritten ==
  input.mode = "write" => outfile \o buf = SubSeq(InputStream, 1, written)
=============================================================================
