------------------------------ MODULE TlvStream ------------------------------
(***************************************************************************)
(* The byte stream of one peer connection as handleConn reads it          *)
(* (points_writer.go): tlv.ReadType takes one byte; for a known request   *)
(* type tlv.ReadLV (or DecodeLV) takes a big-endian length and that many  *)
(* payload bytes; an unknown type is logged and the loop reads the next   *)
(* byte as a type.  The peer writes whole frames with tlv.WriteTLV, and    *)
(* may die part-way through one.  The tlv package is not in this          *)
(* repository: its framing is taken from the spec (C5).                   *)
(***************************************************************************)
EXTENDS Naturals, Sequences, SequencesExt

CONSTANTS
    WriteShardRequestMessage,       \* the type codes of the tlv registry
    ExecuteStatementRequestMessage,
    CreateIteratorRequestMessage,
    FieldDimensionsRequestMessage,
    Frames,         \* the frames the peer may write: [typ, payload]
    MaxFrames,      \* bound on the frames the peer writes
    LenWidth,       \* bytes of the length field
    MaxMessageSize  \* ReadLV rejects longer payloads

\* the types handleConn answers and loops after, and those it hands over
Looping == {WriteShardRequestMessage, ExecuteStatementRequestMessage}
HandOver == {CreateIteratorRequestMessage, FieldDimensionsRequestMessage}
Known == Looping \cup HandOver

VARIABLES
    stream,         \* the bytes the peer has written, in order
    sent,           \* the frames the peer has written
    hungup,         \* the peer closed (or lost) its end
    pos,            \* index of the next byte handleConn reads
    hpc,            \* handleConn: type, lv, ended
    cur,            \* the type byte of the frame being read
    dispatched      \* <<type, payload>> of each request handleConn acted on

vars == <<stream, sent, hungup, pos, hpc, cur, dispatched>>

-----------------------------------------------------------------------------
(* tlv.WriteTLV: type byte, big-endian length, payload, in one write.     *)
BigEndian(n) == [i \in 1..LenWidth |-> (n \div (256 ^ (LenWidth - i))) % 256]
Encode(f) == <<f.typ>> \o BigEndian(Len(f.payload)) \o f.payload

(* Variant of LengthAt reading a length field one byte short.              *)
LengthAtShort(at) ==
    FoldLeft(LAMBDA acc, b : acc * 256 + b, 0, SubSeq(stream, at, at + LenWidth - 2))

(* The length field tlv.ReadLV decodes from the bytes at `at`.            *)
LengthAt(at) ==
    FoldLeft(LAMBDA acc, b : acc * 256 + b, 0, SubSeq(stream, at, at + LenWidth - 1))

Unread == Len(stream) - pos + 1

Init ==
    /\ stream = <<>>
    /\ sent = <<>>
    /\ hungup = FALSE
    /\ pos = 1
    /\ hpc = "type"
    /\ cur = 0
    /\ dispatched = <<>>

(* tlv.ReadType and the switch: a known type goes on to its length-value; *)
(* the default case logs and continues with the next byte.                *)
ReadType ==
    /\ hpc = "type"
    /\ Unread >= 1
    /\ pos' = pos + 1
    /\ IF stream[pos] \in Known
          THEN hpc' = "lv" /\ cur' = stream[pos]
          ELSE UNCHANGED <<hpc, cur>>
    /\ UNCHANGED <<stream, sent, hungup, dispatched>>

(* ReadType hits EOF once the peer has closed and every byte is read.     *)
ReadTypeEOF ==
    /\ hpc = "type"
    /\ Unread = 0
    /\ hungup
    /\ hpc' = "ended"
    /\ UNCHANGED <<stream, sent, hungup, pos, cur, dispatched>>

(* tlv.ReadLV: a length above MaxMessageSize is an error and handleConn   *)
(* returns; otherwise the payload is read and the request processed; a    *)
(* write or execute request loops to the next type, the iterator and      *)
(* field dimensions handlers end the connection.                          *)
ReadLV ==
    /\ hpc = "lv"
    /\ Unread >= LenWidth
    /\ LET n == LengthAt(pos) IN
       \/ /\ n > MaxMessageSize
          /\ hpc' = "ended"
          /\ UNCHANGED <<pos, dispatched>>
       \/ /\ n <= MaxMessageSize
          /\ Unread >= LenWidth + n
          /\ dispatched' = Append(dispatched,
                 <<cur, SubSeq(stream, pos + LenWidth, pos + LenWidth + n - 1)>>)
          /\ pos' = pos + LenWidth + n
          /\ hpc' = IF cur \in Looping THEN "type" ELSE "ended"
    /\ UNCHANGED <<stream, sent, hungup, cur>>

(* Variant of ReadLVShortRead that never gives up on a missing byte.      *)
ReadLVShortReadNever == FALSE

(* ReadLV's io.ReadFull fails when the peer is gone before the length or  *)
(* the payload is complete: handleConn returns.                           *)
ReadLVShortRead ==
    /\ hpc = "lv"
    /\ hungup
    /\ \/ Unread < LenWidth
       \/ /\ Unread >= LenWidth
          /\ LengthAt(pos) <= MaxMessageSize
          /\ Unread < LenWidth + LengthAt(pos)
    /\ hpc' = "ended"
    /\ UNCHANGED <<stream, sent, hungup, pos, cur, dispatched>>

(* The peer writes a whole frame.                                         *)
PeerWrite ==
    /\ ~hungup
    /\ Len(sent) < MaxFrames
    /\ \E f \in Frames :
          /\ stream' = stream \o Encode(f)
          /\ sent' = Append(sent, f)
    /\ UNCHANGED <<hungup, pos, hpc, cur, dispatched>>

(* The peer dies part-way through writing a frame: a proper prefix of it  *)
(* arrives, then the connection closes.                                   *)
PeerCrash ==
    /\ ~hungup
    /\ Len(sent) < MaxFrames
    /\ \E f \in Frames : \E k \in 1..(Len(Encode(f)) - 1) :
          stream' = stream \o SubSeq(Encode(f), 1, k)
    /\ hungup' = TRUE
    /\ UNCHANGED <<sent, pos, hpc, cur, dispatched>>

(* The peer closes its end after whole frames.                            *)
PeerClose ==
    /\ ~hungup
    /\ hungup' = TRUE
    /\ UNCHANGED <<stream, sent, pos, hpc, cur, dispatched>>

Next ==
    \/ ReadType \/ ReadTypeEOF \/ ReadLV \/ ReadLVShortRead
    \/ PeerWrite \/ PeerCrash \/ PeerClose

(* handleConn's goroutine keeps running; the peer need do nothing.         *)
Spec == Init /\ [][Next]_vars /\ WF_vars(ReadType \/ ReadTypeEOF \/ ReadLV \/ ReadLVShortRead)

-----------------------------------------------------------------------------
(* Properties                                                              *)

\* the requests the peer wrote, as the handler should see them
Requested == [i \in 1..Len(SelectSeq(sent, LAMBDA f : f.typ \in Known)) |->
                LET f == SelectSeq(sent, LAMBDA f : f.typ \in Known)[i]
                IN <<f.typ, f.payload>>]

(* handleConn acts only on requests the peer wrote, in the order written:  *)
(* what it dispatched is a prefix of the peer's known-type frames.  Spec   *)
(* C4: an unknown type is logged "and the connection continues", and the   *)
(* round-trip law of C5 says a frame decodes to what was encoded.         *)
FramesAligned == IsPrefix(dispatched, Requested)

(* Once the peer has closed its end, handleConn returns: it neither       *)
(* blocks on a length or payload that will never arrive nor loops.        *)
HandlerEnds == hungup ~> hpc = "ended"

=============================================================================
