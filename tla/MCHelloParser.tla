---------------------------- MODULE MCHelloParser ----------------------------
(***************************************************************************)
(* HelloParser for TLC.  The streams are a few combinations of declared    *)
(* and sent lengths around the boundaries: too short for a header, a hello *)
(* that ends with its record, before it or after it, bytes that follow the *)
(* record, a record that fills the buffer.                                 *)
(***************************************************************************)
EXTENDS HelloParser

CONSTANTS RecLen, HsLen, StreamSize   \* bounds: the lengths a stream has

MCValue ==
  [sigAlgs |-> {1027}, versions |-> {772, 19018}, groups |-> {29, 27242}, points |-> {0}]

MCInit ==
  /\ stream \in [handshake : BOOLEAN, recLen : RecLen, hello : BOOLEAN, hsLen : HsLen,
                  size : StreamSize]
  /\ Init

MCSpec == MCInit /\ [][Next]_vars
MCFairSpec ==
  MCSpec /\ WF_vars(ReadFails) /\ WF_vars(parseClientHelloBody) /\ WF_vars(Record)

(* On every short list, the loop keeps what a filter selects, and InOrder is *)
(* what a sort returns.                                                      *)
ASSUME LoopAndSort ==
  \A s \in BoundedSeq({0, 16, 2570, 19018, 43}, 4) :
    /\ NonGREASE(s) = SelectSeq(s, LAMBDA v : ~isGREASE(v))
    /\ InOrder(s) = SortSeq(s, <)
=============================================================================
