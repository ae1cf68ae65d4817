--------------------------- MODULE HelloParserProofs ---------------------------
(***************************************************************************)
(* The parser of HelloParser, for every cap, every read size, every stream *)
(* and every way it is cut: it never reads outside a block, and what it    *)
(* decides does not depend on the cuts.                                    *)
(***************************************************************************)
EXTENDS HelloParser, HelloFingerprintProofs, SequenceTheorems, TLAPS

(* Every block is parsed from its first byte. *)
Cursor == stage \in {"read", "session", "sni", "alpn"} \cup Lists => pos = 0

IInv == TypeOK /\ Cursor /\ InBounds /\ CutIndependent /\ Prompt /\ Bounded

(* The stages in which the ClientHello is known to be there. *)
Known == Parsing \cup {"malformed", "recorded", "unattributed"}

-----------------------------------------------------------------------------
(* The constants and the lengths of the stream are numbers. *)
LEMMA Numbers ==
  ASSUME TypeOK
  PROVE  /\ MaxHelloBytes \in Nat /\ ReadSize \in Nat \ {0} /\ Fixed \in Nat
         /\ Length \subseteq Nat /\ Cipher \subseteq Nat
         /\ LegacyVersion \subseteq Nat /\ ExtType \subseteq Nat
         /\ stream.recLen \in Nat /\ stream.hsLen \in Nat /\ stream.size \in Nat
         /\ len \in Nat /\ buffered \in Nat /\ pos \in Nat /\ end \in Nat
BY HelloAssumption DEF HelloAssumption, TypeOK, len

(* Feed keeps the buffer within its cap, hands over a hello only when all of *)
(* its record is there, and refuses one only for the cap.                    *)
LEMMA FeedStep ==
  ASSUME IInv, NEW n \in 1..ReadSize, Feed(n) PROVE IInv'
<1>0. /\ MaxHelloBytes \in Nat /\ ReadSize \in Nat /\ buffered \in Nat
      /\ stream.recLen \in Nat /\ stream.hsLen \in Nat /\ stream.size \in Nat
  BY Numbers DEF IInv
<1>1. n \in Nat /\ n <= ReadSize /\ stage = "read" /\ buffered + n <= stream.size
  BY <1>0 DEF Feed, FeedTooMuch, FeedInvalid, FeedMore, FeedHello, Arrives
<1>2. UNCHANGED <<stream, pos, end, ch, payload, overread>> /\ pos = 0
  BY <1>1 DEF Feed, FeedTooMuch, FeedInvalid, FeedMore, FeedHello, IInv, Cursor
<1>3. buffered' \in Nat /\ buffered' <= MaxHelloBytes /\ stage' \in {"read", "refused", "session"}
  BY <1>0, <1>1 DEF Feed, FeedTooMuch, FeedInvalid, FeedMore, FeedHello, Overflows
<1>4. TypeOK' /\ Cursor' /\ InBounds' /\ Bounded'
  BY <1>1, <1>2, <1>3 DEF IInv, TypeOK, Cursor, InBounds, Bounded, Ended, Parsing, len
<1>5. stage' = "read" => buffered' = buffered + n /\ ~Invalid(buffered + n) /\ ~Complete(buffered + n)
  BY <1>1 DEF Feed, FeedTooMuch, FeedInvalid, FeedMore, FeedHello
<1>6. Prompt'
  BY <1>0, <1>1, <1>2, <1>5 DEF Prompt, Invalid, Complete
<1>7. stage' = "session" => OneRecord'
  <2>1. stage' = "session" => Complete(buffered + n)
    BY <1>1 DEF Feed, FeedTooMuch, FeedInvalid, FeedMore, FeedHello
  <2> QED BY <1>0, <1>1, <1>2, <2>1 DEF Complete, OneRecord
<1>8. stage' = "refused" => (~OneRecord \/ 4 + stream.recLen + ReadSize > MaxHelloBytes)'
  <2>1. stage' = "refused" => Overflows(n) \/ Invalid(buffered + n)
    BY <1>1 DEF Feed, FeedTooMuch, FeedInvalid, FeedMore, FeedHello
  <2>2. OneRecord => ~Invalid(buffered + n)
    BY <1>0, <1>1 DEF OneRecord, Invalid
  <2>3. OneRecord => buffered <= 4 + stream.recLen
    BY <1>0, <1>1 DEF OneRecord, IInv, Prompt
  <2> QED BY <1>0, <1>1, <1>2, <2>1, <2>2, <2>3 DEF Overflows, OneRecord
<1> QED
  BY <1>3, <1>4, <1>6, <1>7, <1>8 DEF IInv, CutIndependent, Parsing, Lists

(* A read that fails leaves what was buffered, and ends the connection. *)
LEMMA ReadFailsStep ==
  ASSUME IInv, ReadFails PROVE IInv'
BY DEF IInv, ReadFails, TypeOK, Cursor, InBounds, CutIndependent, Prompt, Bounded, OneRecord,
       Parsing, Ended, Lists, len

-----------------------------------------------------------------------------
(* A step of the parser leaves the stream and the buffer alone, so that what  *)
(* Feed established still holds: a step has to keep the types, the cursor and *)
(* the bounds.                                                                *)
LEMMA ParsingStep ==
  ASSUME IInv, stage \in Parsing, UNCHANGED <<stream, buffered>>,
         stage' \in Parsing \cup {"malformed", "recorded", "unattributed"},
         TypeOK', Cursor', InBounds'
  PROVE  IInv'
<1>1. OneRecord /\ OneRecord'
  BY DEF IInv, CutIndependent, OneRecord
<1>2. CutIndependent' /\ Prompt' /\ Bounded'
  BY <1>1 DEF IInv, CutIndependent, Prompt, Bounded, Parsing, Lists
<1> QED
  BY <1>2 DEF IInv

(* A list of k values is a sequence of them. *)
LEMMA ListOf ==
  ASSUME NEW S, NEW k \in Nat PROVE [1..k -> S] \subseteq Seq(S)
BY SeqDef

(* A field whose header and content are looked at only where they lie in the  *)
(* block is read inside it.                                                    *)
LEMMA FieldInside ==
  ASSUME InBounds, NEW header, NEW content, NEW w, NEW extent, NEW block,
         Field(header, w, content, extent, block),
         header => ~(pos + w > block) /\ (content => ~(pos + w + extent > block))
  PROVE  overread' = FALSE
<1>1. overread' = (overread \/ (header /\ (pos + w > block \/ (content /\ pos + w + extent > block))))
  BY DEF Field
<1>2. ~(header /\ (pos + w > block \/ (content /\ pos + w + extent > block)))
  OBVIOUS
<1>3. ~overread
  BY DEF InBounds
<1> QED
  BY <1>1, <1>2, <1>3, Zenon

(* The one check on the length of the body covers the version, the random    *)
(* and the length of the session id.                                         *)
LEMMA SessionStep ==
  ASSUME IInv, Session PROVE IInv'
<1>1. Fixed \in Nat /\ len \in Nat /\ Length \subseteq Nat /\ LegacyVersion \subseteq Nat /\ pos = 0
  BY Numbers DEF IInv, Cursor, Session
<1>2. PICK l \in Length, v \in LegacyVersion :
        /\ Field(Minimum, Fixed + 1, Fixed + 1 + l <= len, l, len)
        /\ Goto(Minimum /\ Fixed + 1 + l <= len, Fixed + 1 + l, "ciphers")
        /\ ch' = [ch EXCEPT !.legacyVersion = v]
  BY DEF Session
<1>3. overread' = FALSE
  <2>1. Minimum => ~(pos + (Fixed + 1) > len)
                   /\ (Fixed + 1 + l <= len => ~(pos + (Fixed + 1) + l > len))
    BY <1>1 DEF Minimum
  <2> QED
    BY <1>2, <2>1, FieldInside DEF IInv
<1>4. pos' \in Nat /\ stage' \in {"ciphers", "malformed"}
  BY <1>1, <1>2 DEF Goto
<1>5. TypeOK' /\ Cursor' /\ InBounds'
  BY <1>1, <1>2, <1>3, <1>4
  DEF IInv, TypeOK, Cursor, InBounds, Session, Parsing, Lists, Ended
<1> QED
  BY <1>4, <1>5, ParsingStep DEF Session, Parsing

(* Ciphers are read two bytes at a time: the length of their list is even. *)
LEMMA CiphersStep ==
  ASSUME IInv, Ciphers PROVE IInv'
<1>1. len \in Nat /\ Length \subseteq Nat /\ pos \in Nat
  BY Numbers DEF IInv
<1>2. PICK n \in Length :
        /\ Field(pos + 2 <= len, 2, CiphersFit(n), n + (n % 2), len)
        /\ Goto(pos + 2 <= len /\ CiphersFit(n), pos + 2 + n, "compression")
        /\ \E cs \in IF pos + 2 <= len /\ CiphersFit(n) THEN [1..(n \div 2) -> Cipher] ELSE {<<>>} :
             ch' = [ch EXCEPT !.ciphers = cs]
  BY DEF Ciphers
<1>3. overread' = FALSE
  <2>1. pos + 2 <= len => ~(pos + 2 > len)
                          /\ (CiphersFit(n) => ~(pos + 2 + (n + (n % 2)) > len))
    BY <1>1 DEF CiphersFit
  <2> QED
    BY <1>2, <2>1, FieldInside DEF IInv
<1>4. pos' \in Nat /\ stage' \in {"compression", "malformed"}
  BY <1>1, <1>2 DEF Goto
<1>5. PICK cs \in Seq(Cipher) : ch' = [ch EXCEPT !.ciphers = cs]
  <2>1. n \div 2 \in Nat
    BY <1>1
  <2>2. [1..(n \div 2) -> Cipher] \subseteq Seq(Cipher) /\ <<>> \in Seq(Cipher)
    BY <2>1, ListOf
  <2> QED
    BY <1>2, <2>2
<1>6. TypeOK' /\ Cursor' /\ InBounds'
  BY <1>3, <1>4, <1>5
  DEF IInv, TypeOK, Cursor, InBounds, Ciphers, Parsing, Lists, Ended
<1> QED
  BY <1>4, <1>6, ParsingStep DEF Ciphers, Parsing

(* The compression methods are skipped. *)
LEMMA CompressionStep ==
  ASSUME IInv, Compression PROVE IInv'
<1>1. len \in Nat /\ Length \subseteq Nat /\ pos \in Nat
  BY Numbers DEF IInv
<1>2. PICK n \in Length :
        /\ Field(pos < len, 1, n >= 1 /\ pos + 1 + n <= len, n, len)
        /\ Goto(pos < len /\ n >= 1 /\ pos + 1 + n <= len, pos + 1 + n, "extensions")
  BY DEF Compression
<1>3. overread' = FALSE
  <2>1. pos < len => ~(pos + 1 > len)
                     /\ (n >= 1 /\ pos + 1 + n <= len => ~(pos + 1 + n > len))
    BY <1>1
  <2> QED
    BY <1>2, <2>1, FieldInside DEF IInv
<1>4. pos' \in Nat /\ stage' \in {"extensions", "malformed"}
  BY <1>1, <1>2 DEF Goto
<1>5. TypeOK' /\ Cursor' /\ InBounds'
  BY <1>3, <1>4
  DEF IInv, TypeOK, Cursor, InBounds, Compression, Parsing, Lists, Ended
<1> QED
  BY <1>4, <1>5, ParsingStep DEF Compression, Parsing

(* The extension block is opened within the body. *)
LEMMA ExtensionsStep ==
  ASSUME IInv, Extensions PROVE IInv'
<1>1. len \in Nat /\ Length \subseteq Nat /\ pos \in Nat /\ end \in Nat
  BY Numbers DEF IInv
<1>2. PICK n \in Length :
        /\ Field(pos + 2 <= len, 2, pos + 2 + n <= len, 0, len)
        /\ Goto(pos + 2 <= len /\ pos + 2 + n <= len, pos + 2, "extension")
        /\ end' = IF pos + 2 <= len /\ pos + 2 + n <= len THEN pos + 2 + n ELSE end
  BY DEF Extensions
<1>3. overread' = FALSE
  <2>1. pos + 2 <= len => ~(pos + 2 > len)
                          /\ (pos + 2 + n <= len => ~(pos + 2 + 0 > len))
    BY <1>1
  <2> QED
    BY <1>2, <2>1, FieldInside DEF IInv
<1>4. pos' \in Nat /\ end' \in Nat /\ stage' \in {"extension", "malformed"}
  BY <1>1, <1>2 DEF Goto
<1>5. stage' = "extension" => pos' <= end' /\ end' <= len'
  BY <1>1, <1>2 DEF Goto, Extensions, len
<1>6. TypeOK' /\ Cursor' /\ InBounds'
  BY <1>3, <1>4, <1>5
  DEF IInv, TypeOK, Cursor, InBounds, Extensions, Parsing, Lists, Ended
<1> QED
  BY <1>4, <1>6, ParsingStep DEF Extensions, Parsing

(* An extension lies in the block of extensions, and the next one starts in it. *)
LEMMA ExtensionStep ==
  ASSUME IInv, Extension PROVE IInv'
<1>1. len \in Nat /\ Length \subseteq Nat /\ ExtType \subseteq Nat /\ pos \in Nat /\ end \in Nat
  BY Numbers DEF IInv
<1>2. PICK t \in ExtType, l \in Length :
        /\ Field(pos + 4 <= end, 4, ExtensionFits(l), l, end)
        /\ Goto(pos + 4 <= end /\ ExtensionFits(l), pos + 4 + l, "extension")
        /\ ch' = IF pos + 4 <= end /\ ExtensionFits(l)
                   THEN [ch EXCEPT !.extensions = Append(@, t)] ELSE ch
        /\ payload' = IF pos + 4 <= end /\ ExtensionFits(l)
                        THEN [payload EXCEPT ![t] = l] ELSE payload
  BY DEF Extension
<1>3. overread' = FALSE
  <2>1. pos + 4 <= end => ~(pos + 4 > end) /\ (ExtensionFits(l) => ~(pos + 4 + l > end))
    BY <1>1 DEF ExtensionFits
  <2> QED
    BY <1>2, <2>1, FieldInside DEF IInv
<1>4. pos' \in Nat /\ stage' \in {"extension", "malformed"}
  BY <1>1, <1>2 DEF Goto
<1>5. stage' = "extension" => pos' <= end' /\ end' <= len'
  BY <1>1, <1>2 DEF Goto, Extension, ExtensionFits, len, IInv, TypeOK
<1>6. payload' \in [ExtType -> Nat]
  BY <1>1, <1>2 DEF IInv, TypeOK
<1>7. ch' \in [legacyVersion : Nat, ciphers : Seq(Cipher), extensions : Seq(ExtType),
               sni : {"", "session", "other"}, alpn : {"", "h2"}, list : [Lists -> Seq(Nat)]]
  <2>1. ch.extensions \in Seq(ExtType) /\ Append(ch.extensions, t) \in Seq(ExtType)
    BY <1>2, AppendProperties DEF IInv, TypeOK
  <2> QED
    BY <1>2, <2>1 DEF IInv, TypeOK
<1>8. TypeOK' /\ Cursor' /\ InBounds'
  BY <1>3, <1>4, <1>5, <1>6, <1>7
  DEF IInv, TypeOK, Cursor, InBounds, Extension, Parsing, Lists, Ended
<1> QED
  BY <1>4, <1>8, ParsingStep DEF Extension, Parsing

(* The payloads are parsed after the last extension. *)
LEMMA ExtensionsEndStep ==
  ASSUME IInv, ExtensionsEnd PROVE IInv'
<1>1. TypeOK' /\ Cursor' /\ InBounds'
  BY DEF IInv, TypeOK, Cursor, InBounds, ExtensionsEnd, Parsing, Lists, Ended
<1> QED
  BY <1>1, ParsingStep DEF ExtensionsEnd, Parsing

(* A vector of entries is opened within its payload. *)
LEMMA OpenVectorStep ==
  ASSUME IInv, NEW k \in {"sni", "alpn"}, NEW type \in ExtType,
         NEW entry \in {"server_name", "protocol"}, NEW next \in {"alpn", "sigAlgs"},
         OpenVector(k, type, entry, next)
  PROVE  IInv'
<1> DEFINE d == payload[type]
<1>1. d \in Nat /\ Length \subseteq Nat /\ pos = 0 /\ end \in Nat /\ stage \in {"sni", "alpn"}
  BY Numbers DEF IInv, TypeOK, Cursor, OpenVector
<1> HIDE DEF d
<1>2. PICK n \in Length :
        /\ Field(d >= 2, 2, 2 + n <= d, n, d)
        /\ IF d >= 2 /\ 2 + n <= d
             THEN stage' = entry /\ pos' = 2 /\ end' = 2 + n
             ELSE Done(next) /\ UNCHANGED end
  BY DEF OpenVector, d
<1>3. overread' = FALSE
  <2>1. d >= 2 => ~(pos + 2 > d) /\ (2 + n <= d => ~(pos + 2 + n > d))
    BY <1>1
  <2> QED
    BY <1>2, <2>1, FieldInside DEF IInv
<1>4. /\ pos' \in Nat /\ end' \in Nat
      /\ \/ stage' \in {"server_name", "protocol"}
         \/ stage' \in {"alpn", "sigAlgs"} /\ pos' = 0
  BY <1>1, <1>2 DEF Done
<1>5. TypeOK' /\ Cursor' /\ InBounds'
  BY <1>3, <1>4
  DEF IInv, TypeOK, Cursor, InBounds, OpenVector, Parsing, Lists, Ended
<1> QED
  BY <1>1, <1>4, <1>5, ParsingStep DEF OpenVector, Parsing, Lists

(* A server name is read within the vector of names. *)
LEMMA ServerNameStep ==
  ASSUME IInv, ServerName PROVE IInv'
<1>1. Length \subseteq Nat /\ pos \in Nat /\ end \in Nat
  BY Numbers DEF IInv
<1>2. PICK l \in Length, name \in {"session", "other"}, host_name \in BOOLEAN :
        /\ Field(pos + 3 <= end, 3, NameFits(l), l, end)
        /\ IF pos + 3 <= end /\ NameFits(l) /\ ~host_name
             THEN pos' = pos + 3 + l /\ UNCHANGED <<stage, ch>>
             ELSE /\ Done("alpn")
                  /\ ch' = [ch EXCEPT !.sni = IF pos + 3 <= end /\ NameFits(l) /\ l > 0
                                                 THEN name ELSE ""]
  BY DEF ServerName
<1>3. overread' = FALSE
  <2>1. pos + 3 <= end => ~(pos + 3 > end) /\ (NameFits(l) => ~(pos + 3 + l > end))
    BY <1>1 DEF NameFits
  <2> QED
    BY <1>2, <2>1, FieldInside DEF IInv
<1>4. pos' \in Nat /\ (stage' = "server_name" \/ (stage' = "alpn" /\ pos' = 0))
  <2>1. stage = "server_name"
    BY DEF ServerName
  <2>2. \/ pos' = pos + 3 + l /\ stage' = stage
        \/ stage' = "alpn" /\ pos' = 0
    BY <1>2, Zenon DEF Done
  <2> QED
    BY <1>1, <2>1, <2>2
<1>5. PICK sni \in {"", "session", "other"} : ch' = ch \/ ch' = [ch EXCEPT !.sni = sni]
  BY <1>2
<1>6. TypeOK' /\ Cursor' /\ InBounds'
  BY <1>3, <1>4, <1>5
  DEF IInv, TypeOK, Cursor, InBounds, ServerName, Parsing, Lists, Ended
<1> QED
  BY <1>4, <1>6, ParsingStep DEF ServerName, Parsing

(* A protocol is read within the vector of protocols. *)
LEMMA ProtocolStep ==
  ASSUME IInv, Protocol PROVE IInv'
<1>1. Length \subseteq Nat /\ pos \in Nat /\ end \in Nat
  BY Numbers DEF IInv
<1>2. PICK l \in Length :
        /\ Field(pos < end, 1, pos + 1 + l <= end, l, end)
        /\ ch' = [ch EXCEPT !.alpn = IF ~(pos + 1 + l <= end) \/ (pos = 2 /\ l = 0) THEN ""
                                      ELSE IF pos = 2 THEN "h2" ELSE @]
        /\ IF pos + 1 + l <= end THEN pos' = pos + 1 + l /\ UNCHANGED stage ELSE Done("sigAlgs")
  BY DEF Protocol
<1>3. overread' = FALSE
  <2>1. pos < end => ~(pos + 1 > end) /\ (pos + 1 + l <= end => ~(pos + 1 + l > end))
    BY <1>1
  <2> QED
    BY <1>2, <2>1, FieldInside DEF IInv
<1>4. pos' \in Nat /\ (stage' = "protocol" \/ (stage' = "sigAlgs" /\ pos' = 0))
  <2>1. stage = "protocol"
    BY DEF Protocol
  <2>2. \/ pos' = pos + 1 + l /\ stage' = stage
        \/ stage' = "sigAlgs" /\ pos' = 0
    BY <1>2, Zenon DEF Done
  <2> QED
    BY <1>1, <2>1, <2>2
<1>5. PICK alpn \in {"", "h2"} : ch' = [ch EXCEPT !.alpn = alpn]
  BY <1>2 DEF IInv, TypeOK
<1>6. TypeOK' /\ Cursor' /\ InBounds'
  BY <1>3, <1>4, <1>5
  DEF IInv, TypeOK, Cursor, InBounds, Protocol, Parsing, Lists, Ended
<1> QED
  BY <1>4, <1>6, ParsingStep DEF Protocol, Parsing, Lists

(* After the last entry the next payload is parsed from its first byte. *)
LEMMA VectorEndsStep ==
  ASSUME IInv, NEW entry \in {"server_name", "protocol"}, NEW next \in {"alpn", "sigAlgs"},
         VectorEnds(entry, next)
  PROVE  IInv'
<1>1. stage \in {"server_name", "protocol"} /\ stage' \in {"alpn", "sigAlgs"} /\ pos' = 0
  BY DEF VectorEnds, Done
<1>2. TypeOK' /\ Cursor' /\ InBounds'
  BY <1>1 DEF IInv, TypeOK, Cursor, InBounds, VectorEnds, Parsing, Lists, Ended
<1> QED
  BY <1>1, <1>2, ParsingStep DEF VectorEnds, Parsing, Lists

(* A list is read within its payload. *)
LEMMA ParseListStep ==
  ASSUME IInv, NEW k \in Lists, NEW type \in ExtType, NEW w \in {1, 2}, NEW u \in {1, 2},
         NEW next \in Lists \cup {"parsed"}, ParseList(k, type, w, u, next)
  PROVE  IInv'
<1> DEFINE d == payload[type]
<1>1. d \in Nat /\ Length \subseteq Nat /\ pos = 0 /\ stage = k
  BY Numbers DEF IInv, TypeOK, Cursor, ParseList
<1> HIDE DEF d
<1>2. PICK n \in Length :
        /\ Field(d >= w, w, w + n <= d /\ n % u = 0, n, d)
        /\ \E vs \in IF d >= w /\ w + n <= d /\ n % u = 0 THEN [1..(n \div u) -> Value[k]] ELSE {<<>>} :
             ch' = [ch EXCEPT !.list[k] = vs]
  BY DEF ParseList, d
<1>3. overread' = FALSE
  <2>1. d >= w => ~(pos + w > d) /\ (w + n <= d /\ n % u = 0 => ~(pos + w + n > d))
    BY <1>1
  <2> QED
    BY <1>2, <2>1, FieldInside DEF IInv
<1>4. PICK vs \in Seq(Nat) : ch' = [ch EXCEPT !.list[k] = vs]
  <2>1. n \div u \in Nat
    BY <1>1
  <2>2. Value[k] \subseteq Nat
    BY HelloAssumption DEF HelloAssumption
  <2>3. [1..(n \div u) -> Value[k]] \subseteq [1..(n \div u) -> Nat]
    BY <2>2
  <2>4. [1..(n \div u) -> Nat] \subseteq Seq(Nat) /\ <<>> \in Seq(Nat)
    BY <2>1, ListOf
  <2> QED
    BY <1>2, <2>3, <2>4
<1>5. ch' \in [legacyVersion : Nat, ciphers : Seq(Cipher), extensions : Seq(ExtType),
               sni : {"", "session", "other"}, alpn : {"", "h2"}, list : [Lists -> Seq(Nat)]]
  <2>1. [ch.list EXCEPT ![k] = vs] \in [Lists -> Seq(Nat)]
    BY DEF IInv, TypeOK
  <2> QED
    BY <1>4, <2>1 DEF IInv, TypeOK
<1>6. stage' \in Lists \cup {"parsed"} /\ pos' = 0
  BY DEF ParseList, Done
<1>7. TypeOK' /\ Cursor' /\ InBounds'
  BY <1>3, <1>5, <1>6
  DEF IInv, TypeOK, Cursor, InBounds, ParseList, Parsing, Lists, Ended
<1> QED
  BY <1>1, <1>6, <1>7, ParsingStep DEF ParseList, Parsing

(* Recording changes nothing that is parsed. *)
LEMMA RecordStep ==
  ASSUME IInv, Record PROVE IInv'
<1>1. TypeOK' /\ Cursor' /\ InBounds'
  BY DEF IInv, TypeOK, Cursor, InBounds, Record, Parsing, Lists, Ended
<1> QED
  BY <1>1, ParsingStep DEF Record, Parsing

-----------------------------------------------------------------------------
(* The invariant holds before the first byte. *)
LEMMA InitHolds ==
  Init => IInv
<1> SUFFICES ASSUME Init PROVE IInv
  OBVIOUS
<1>1. TypeOK /\ Cursor /\ InBounds
  <2>1. <<>> \in Seq(Cipher) /\ <<>> \in Seq(ExtType) /\ <<>> \in Seq(Nat)
    OBVIOUS
  <2>2. ch \in [legacyVersion : Nat, ciphers : Seq(Cipher), extensions : Seq(ExtType),
               sni : {"", "session", "other"}, alpn : {"", "h2"}, list : [Lists -> Seq(Nat)]]
    BY <2>1 DEF Init
  <2>3. overread \in BOOLEAN /\ ~overread
    BY DEF Init
  <2> QED
    BY <2>2, <2>3 DEF Init, TypeOK, Cursor, InBounds, Lists
<1>2. CutIndependent /\ Prompt /\ Bounded
  <2>1. MaxHelloBytes \in Nat /\ stage = "read" /\ buffered = 0
    BY HelloAssumption DEF HelloAssumption, Init
  <2> QED
    BY <2>1 DEF CutIndependent, Prompt, Bounded, Parsing, Lists
<1> QED
  BY <1>1, <1>2 DEF IInv

(* Every step keeps it. *)
LEMMA Inductive ==
  ASSUME IInv, [Next]_vars PROVE IInv'
<1>1. CASE UNCHANGED vars
  BY <1>1
  DEF vars, IInv, TypeOK, Cursor, InBounds, CutIndependent, Prompt, Bounded, OneRecord, len
<1>2. ASSUME NEW n \in 1..ReadSize, Feed(n) PROVE IInv'
  BY <1>2, FeedStep
<1>3. CASE ReadFails
  BY <1>3, ReadFailsStep
<1>4. CASE Record
  BY <1>4, RecordStep
<1>5. CASE parseClientHelloBody
  <2>1. {extSNI, extALPN, extSigAlgs, extSupportedVersion, extSupportedGroups,
         extECPointFormats} \subseteq ExtType
    BY HelloAssumption DEF HelloAssumption
  <2>2. CASE Session \/ Ciphers \/ Compression \/ Extensions \/ Extension \/ ExtensionsEnd
    BY <2>2, SessionStep, CiphersStep, CompressionStep, ExtensionsStep, ExtensionStep,
       ExtensionsEndStep
  <2>3. CASE OpenVector("sni", extSNI, "server_name", "alpn")
             \/ OpenVector("alpn", extALPN, "protocol", "sigAlgs")
    BY <2>1, <2>3, OpenVectorStep
  <2>4. CASE ServerName \/ Protocol
    BY <2>4, ServerNameStep, ProtocolStep
  <2>5. CASE VectorEnds("server_name", "alpn") \/ VectorEnds("protocol", "sigAlgs")
    BY <2>5, VectorEndsStep
  <2>6. CASE ParseList("sigAlgs", extSigAlgs, 2, 2, "versions")
             \/ ParseList("versions", extSupportedVersion, 1, 2, "groups")
             \/ ParseList("groups", extSupportedGroups, 2, 2, "points")
             \/ ParseList("points", extECPointFormats, 1, 1, "parsed")
    BY <2>1, <2>6, ParseListStep DEF Lists
  <2> QED
    BY <1>5, <2>2, <2>3, <2>4, <2>5, <2>6 DEF parseClientHelloBody
<1> QED
  BY <1>1, <1>2, <1>3, <1>4, <1>5 DEF Next

(* The invariant of every reachable state. *)
THEOREM Invariance == Spec => []IInv
BY InitHolds, Inductive, PTL DEF Spec

(* The parser's variables keep their types. *)
THEOREM TypeCorrect == Spec => []TypeOK
<1>1. IInv => TypeOK
  BY DEF IInv
<1> QED
  BY <1>1, Invariance, PTL

(* No declared length, however large, takes the parser out of a block: "Every *)
(* read is bounds-checked", ja3.go.                                            *)
THEOREM NeverOutOfBounds == Spec => []InBounds
<1>1. IInv => InBounds
  BY DEF IInv
<1> QED
  BY <1>1, Invariance, PTL

(* The outcome depends on what is sent, never on where it is cut. *)
THEOREM CutsDoNotMatter == Spec => []CutIndependent
<1>1. IInv => CutIndependent
  BY DEF IInv
<1> QED
  BY <1>1, Invariance, PTL

(* The parser waits only for bytes that are missing. *)
THEOREM NoByteTooMany == Spec => []Prompt
<1>1. IInv => Prompt
  BY DEF IInv
<1> QED
  BY <1>1, Invariance, PTL

(* The buffer never holds more than its cap. *)
THEOREM BufferBounded == Spec => []Bounded
<1>1. IInv => Bounded
  BY DEF IInv
<1> QED
  BY <1>1, Invariance, PTL

-----------------------------------------------------------------------------
(* Neighbours that change places do not change the JA4. *)
LEMMA SwappedJA4 ==
  ASSUME NEW c \in [legacyVersion : Nat, ciphers : Seq(Nat), extensions : Seq(Nat),
                    sni : {"", "session", "other"}, alpn : {"", "h2"}, list : [Lists -> Seq(Nat)]]
  PROVE  /\ \A i \in 1..(Len(c.ciphers) - 1) : JA4([c EXCEPT !.ciphers = Swapped(@, i)]) = JA4(c)
         /\ \A i \in 1..(Len(c.extensions) - 1) :
              JA4([c EXCEPT !.extensions = Swapped(@, i)]) = JA4(c)
<1>0. c.ciphers \in Seq(Nat) /\ c.extensions \in Seq(Nat)
  OBVIOUS
<1>1. ASSUME NEW i \in 1..(Len(c.ciphers) - 1)
      PROVE  JA4([c EXCEPT !.ciphers = Swapped(@, i)]) = JA4(c)
  <2> DEFINE t == Swapped(c.ciphers, i)
             d == [c EXCEPT !.ciphers = t]
  <2>1. t \in Seq(Nat) /\ Rearranged(c.ciphers, t)
    <3>1. t = [c.ciphers EXCEPT ![i] = c.ciphers[i + 1], ![i + 1] = c.ciphers[i]]
      BY DEF Swapped
    <3> HIDE DEF t
    <3> QED
      BY <1>0, <3>1, SwapRearranges
  <2> HIDE DEF t
  <2>2. /\ d.legacyVersion = c.legacyVersion /\ d.sni = c.sni /\ d.alpn = c.alpn
        /\ d.list = c.list /\ d.extensions = c.extensions /\ d.ciphers = t
    OBVIOUS
  <2>3. Sorted(t) = Sorted(c.ciphers) /\ countNonGREASE(t) = countNonGREASE(c.ciphers)
    BY <1>0, <2>1, RearrangedSorted
  <2>4. d = [c EXCEPT !.ciphers = Swapped(@, i)]
    BY DEF t
  <2> HIDE DEF d
  <2>5. JA4(d) = JA4(c)
    BY <2>2, <2>3, SameJA4
  <2> QED
    BY <2>4, <2>5
<1>2. ASSUME NEW i \in 1..(Len(c.extensions) - 1)
      PROVE  JA4([c EXCEPT !.extensions = Swapped(@, i)]) = JA4(c)
  <2> DEFINE t == Swapped(c.extensions, i)
             d == [c EXCEPT !.extensions = t]
  <2>1. t \in Seq(Nat) /\ Rearranged(c.extensions, t)
    <3>1. t = [c.extensions EXCEPT ![i] = c.extensions[i + 1], ![i + 1] = c.extensions[i]]
      BY DEF Swapped
    <3> HIDE DEF t
    <3> QED
      BY <1>0, <3>1, SwapRearranges
  <2> HIDE DEF t
  <2>2. /\ d.legacyVersion = c.legacyVersion /\ d.sni = c.sni /\ d.alpn = c.alpn
        /\ d.list = c.list /\ d.ciphers = c.ciphers /\ d.extensions = t
    OBVIOUS
  <2>3. Sorted(t) = Sorted(c.extensions) /\ countNonGREASE(t) = countNonGREASE(c.extensions)
    BY <1>0, <2>1, RearrangedSorted
  <2>4. d = [c EXCEPT !.extensions = Swapped(@, i)]
    BY DEF t
  <2> HIDE DEF d
  <2>5. JA4(d) = JA4(c)
    BY <2>2, <2>3, SameJA4
  <2> QED
    BY <2>4, <2>5
<1> QED
  BY <1>1, <1>2

(* Neither does GREASE that is left out, and nor does it change the JA3. *)
LEMMA PlainFingerprint ==
  ASSUME NEW c \in [legacyVersion : Nat, ciphers : Seq(Nat), extensions : Seq(Nat),
                    sni : {"", "session", "other"}, alpn : {"", "h2"}, list : [Lists -> Seq(Nat)]],
         NEW d, d = [c EXCEPT !.ciphers = NonGREASE(@), !.extensions = NonGREASE(@),
                              !.list["groups"] = NonGREASE(@), !.list["versions"] = NonGREASE(@)]
  PROVE  JA4(d) = JA4(c) /\ JA3(d) = JA3(c)
<1>1. /\ c.ciphers \in Seq(Nat) /\ c.extensions \in Seq(Nat) /\ c.list \in [Lists -> Seq(Nat)]
      /\ c.list["groups"] \in Seq(Nat) /\ c.list["versions"] \in Seq(Nat)
  BY DEF Lists
<1>2. /\ d.legacyVersion = c.legacyVersion /\ d.sni = c.sni /\ d.alpn = c.alpn
      /\ d.ciphers = NonGREASE(c.ciphers) /\ d.extensions = NonGREASE(c.extensions)
  OBVIOUS
<1>3. d.list = [c.list EXCEPT !["groups"] = NonGREASE(@), !["versions"] = NonGREASE(@)]
  OBVIOUS
<1>4. /\ d.list["groups"] = NonGREASE(c.list["groups"])
      /\ d.list["versions"] = NonGREASE(c.list["versions"])
      /\ d.list["sigAlgs"] = c.list["sigAlgs"] /\ d.list["points"] = c.list["points"]
  BY <1>1, <1>3 DEF Lists
<1>5. /\ NonGREASE(d.ciphers) = NonGREASE(c.ciphers)
      /\ NonGREASE(d.extensions) = NonGREASE(c.extensions)
      /\ NonGREASE(d.list["groups"]) = NonGREASE(c.list["groups"])
      /\ NonGREASE(d.list["versions"]) = NonGREASE(c.list["versions"])
  BY <1>1, <1>2, <1>4, NonGREASETwice
<1>6. /\ Sorted(d.ciphers) = Sorted(c.ciphers) /\ countNonGREASE(d.ciphers) = countNonGREASE(c.ciphers)
      /\ Sorted(d.extensions) = Sorted(c.extensions)
      /\ countNonGREASE(d.extensions) = countNonGREASE(c.extensions)
  BY <1>5, Zenon DEF Sorted, countNonGREASE
<1>7. JA4(d) = JA4(c)
  BY <1>2, <1>4, <1>5, <1>6, SameJA4
<1>8. JA3(d) = JA3(c)
  BY <1>2, <1>4, <1>5, Zenon DEF JA3
<1> QED
  BY <1>7, <1>8

(* Neither the order of a client's ciphers and extensions nor the GREASE in   *)
(* them changes its JA4, and GREASE does not change its JA3: the lists are    *)
(* sorted without it before they are hashed, ja3.go.                          *)
THEOREM FingerprintsStable == Spec => []FingerprintStable
<1>1. TypeOK => FingerprintStable
  <2> SUFFICES ASSUME TypeOK PROVE FingerprintStable
    OBVIOUS
  <2>1. Cipher \subseteq Nat /\ ExtType \subseteq Nat
    BY Numbers
  <2>2. ch \in [legacyVersion : Nat, ciphers : Seq(Nat), extensions : Seq(Nat),
                sni : {"", "session", "other"}, alpn : {"", "h2"}, list : [Lists -> Seq(Nat)]]
    <3>1. ch \in [legacyVersion : Nat, ciphers : Seq(Cipher), extensions : Seq(ExtType),
                  sni : {"", "session", "other"}, alpn : {"", "h2"}, list : [Lists -> Seq(Nat)]]
      BY DEF TypeOK
    <3>2. ch.ciphers \in Seq(Nat) /\ ch.extensions \in Seq(Nat)
      BY <2>1, <3>1, SeqMonotonic
    <3> QED
      BY <3>1, <3>2
  <2> DEFINE plain == [ch EXCEPT !.ciphers = NonGREASE(@), !.extensions = NonGREASE(@),
                                 !.list["groups"] = NonGREASE(@), !.list["versions"] = NonGREASE(@)]
  <2>3. JA4(plain) = JA4(ch) /\ JA3(plain) = JA3(ch)
    BY <2>2, PlainFingerprint
  <2> QED
    BY <2>2, <2>3, SwappedJA4 DEF FingerprintStable
<1> QED
  BY <1>1, TypeCorrect, PTL
=============================================================================
