---------------------------- MODULE MCTlvStream ----------------------------
(* Instances of TlvStream for TLC.  The type codes are opaque in the spec; *)
(* these values are one assignment of them, and 9 stands for a type this   *)
(* node does not know (the commented-out series keys request, sent by a    *)
(* peer that has it).                                                      *)
EXTENDS TlvStream

\* well-formed requests, including one longer than MaxMessageSize
MCFrames ==
    {[typ |-> 1, payload |-> <<1>>],
     [typ |-> 1, payload |-> <<0, 0, 0>>],
     [typ |-> 3, payload |-> <<>>],
     [typ |-> 5, payload |-> <<0>>],
     [typ |-> 7, payload |-> <<>>]}

\* the same, plus a frame of an unknown type
MCFramesUnknown ==
    MCFrames \cup {[typ |-> 9, payload |-> <<0, 1, 0, 0>>]}
=============================================================================
