------------------------------ MODULE HelloParser ------------------------------
(***************************************************************************)
(* One connection to the TLS port: handleTLSConn of internal/probe/tls.go  *)
(* and the ClientHello parser of ja3.go.  TCP cuts what the client sends   *)
(* at any place; Feed accumulates the pieces, and once the record is       *)
(* complete the body is parsed field by field.                             *)
(*                                                                         *)
(* Bytes are not modelled one by one.  What a length field says is chosen  *)
(* when the field is read, since no byte of the body is read twice.        *)
(* Positions count from the start of the block that is being parsed.       *)
(***************************************************************************)
EXTENDS HelloFingerprint

CONSTANTS
  MaxHelloBytes,  \* maxHelloBytes
  ReadSize,       \* the buffer of handleTLSConn
  Fixed,          \* 2 + 32: legacy_version and random
  Length,         \* what a length field may say
  Cipher, ExtType, LegacyVersion,
  Value           \* "sigAlgs", "versions", "groups", "points" |-> what such a list holds

Lists == {"sigAlgs", "versions", "groups", "points"}

ASSUME HelloAssumption ==
  /\ MaxHelloBytes \in Nat /\ ReadSize \in Nat \ {0} /\ Fixed \in Nat
  /\ Length \subseteq Nat
  /\ Cipher \subseteq Nat /\ ExtType \subseteq Nat /\ LegacyVersion \subseteq Nat
  /\ {extSNI, extALPN, extSigAlgs, extSupportedVersion, extSupportedGroups,
      extECPointFormats} \subseteq ExtType
  /\ Value \in [Lists -> SUBSET Nat]

VARIABLES
  stream,    \* what the client sends: is it a handshake record, how long does the
             \* record say it is, is it a ClientHello, how long does that say it is,
             \* and how many bytes are sent before the client falls silent
  buffered,  \* len(p.buf)
  stage,
  pos, end,  \* the cursor, and where the innermost block ends
  ch,        \* clientHello
  payload,   \* extension type |-> length of extData
  overread   \* history: something outside its block was read

vars == <<stream, buffered, stage, pos, end, ch, payload, overread>>

Init ==
  /\ stream \in [handshake : BOOLEAN, recLen : Nat, hello : BOOLEAN, hsLen : Nat, size : Nat]
  /\ buffered = 0
  /\ stage = "read"
  /\ pos = 0 /\ end = 0
  /\ ch = [legacyVersion |-> 0, ciphers |-> <<>>, extensions |-> <<>>, sni |-> "", alpn |-> "",
           list |-> [l \in Lists |-> <<>>]]
  /\ payload = [t \in ExtType |-> 0]
  /\ overread = FALSE

-----------------------------------------------------------------------------
(* parseClientHello on the first n bytes. *)
Invalid(n) ==
  /\ n >= 5
  /\ \/ ~stream.handshake
     \/ stream.recLen < 4
     \/ n >= 5 + stream.recLen /\ ~stream.hello

(* Mutants: the body is parsed as soon as it is there to its declared length,  *)
(* record or not; the last byte of the record does not suffice.               *)
MutantComplete(n) ==
  n >= 5 /\ stream.handshake /\ stream.hello /\ n >= 9 + stream.hsLen
MutantCompleteLate(n) ==
  /\ n > 5 + stream.recLen
  /\ stream.handshake /\ stream.hello
  /\ stream.recLen >= 4 + stream.hsLen

Complete(n) ==
  /\ n >= 5 + stream.recLen
  /\ stream.handshake /\ stream.hello
  /\ stream.recLen >= 4 + stream.hsLen

(* Feed, with n more bytes.  Whatever it decides empties the buffer. *)
Arrives(n) == stage = "read" /\ n \in 1..ReadSize /\ buffered + n <= stream.size

(* Mutant: what is buffered is compared, without what has just come. *)
MutantOverflows(n) == buffered > MaxHelloBytes
Overflows(n) == buffered + n > MaxHelloBytes

FeedTooMuch(n) ==
  /\ Arrives(n) /\ Overflows(n)
  /\ stage' = "refused" /\ buffered' = 0
  /\ UNCHANGED <<stream, pos, end, ch, payload, overread>>

FeedInvalid(n) ==
  /\ Arrives(n) /\ ~Overflows(n) /\ Invalid(buffered + n)
  /\ stage' = "refused" /\ buffered' = 0
  /\ UNCHANGED <<stream, pos, end, ch, payload, overread>>

FeedMore(n) ==
  /\ Arrives(n) /\ ~Overflows(n) /\ ~Invalid(buffered + n) /\ ~Complete(buffered + n)
  /\ buffered' = buffered + n
  /\ UNCHANGED <<stream, stage, pos, end, ch, payload, overread>>

FeedHello(n) ==
  /\ Arrives(n) /\ ~Overflows(n) /\ ~Invalid(buffered + n) /\ Complete(buffered + n)
  /\ stage' = "session" /\ buffered' = 0
  /\ UNCHANGED <<stream, pos, end, ch, payload, overread>>

(* Mutant: the deadline does not outlast the first bytes. *)
MutantReadFails ==
  /\ stage = "read" /\ buffered = 0
  /\ stage' = "closed"
  /\ UNCHANGED <<stream, buffered, pos, end, ch, payload, overread>>

(* The read fails: the deadline has passed or the client has closed. *)
ReadFails ==
  /\ stage = "read"
  /\ stage' = "closed"
  /\ UNCHANGED <<stream, buffered, pos, end, ch, payload, overread>>

-----------------------------------------------------------------------------
(* parseClientHelloBody.  A field is a header of w bytes and what follows it.*)
(* The code looks at the header if `header` holds, at `extent` more bytes if  *)
(* `content` holds too; then it goes on, else the hello is malformed.         *)
len == stream.hsLen

Field(header, w, content, extent, block) ==
  overread' = (overread \/ (header /\ (pos + w > block \/ (content /\ pos + w + extent > block))))

Goto(ok, to, next) ==
  \/ ok /\ pos' = to /\ stage' = next
  \/ ~ok /\ stage' = "malformed" /\ UNCHANGED pos

(* The one check that covers the version, the random and the first length. *)
Minimum == len >= Fixed + 6

Session ==
  /\ stage = "session"
  /\ \E l \in Length, v \in LegacyVersion :
       LET fits == Fixed + 1 + l <= len
       IN  /\ Field(Minimum, Fixed + 1, fits, l, len)
           /\ Goto(Minimum /\ fits, Fixed + 1 + l, "ciphers")
           /\ ch' = [ch EXCEPT !.legacyVersion = v]
  /\ UNCHANGED <<stream, buffered, end, payload>>

(* Mutant: a list of ciphers with half a cipher at its end. *)
MutantCiphersFit(n) == n >= 2 /\ pos + 2 + n <= len
CiphersFit(n) == n >= 2 /\ n % 2 = 0 /\ pos + 2 + n <= len

Ciphers ==
  /\ stage = "ciphers"
  /\ LET header == pos + 2 <= len
     IN  \E n \in Length :
           /\ Field(header, 2, CiphersFit(n), n + (n % 2), len)
           /\ Goto(header /\ CiphersFit(n), pos + 2 + n, "compression")
           /\ \E cs \in IF header /\ CiphersFit(n) THEN [1..(n \div 2) -> Cipher] ELSE {<<>>} :
                ch' = [ch EXCEPT !.ciphers = cs]
  /\ UNCHANGED <<stream, buffered, end, payload>>

Compression ==
  /\ stage = "compression"
  /\ LET header == pos < len
     IN  \E n \in Length :
           LET fits == n >= 1 /\ pos + 1 + n <= len
           IN  Field(header, 1, fits, n, len) /\ Goto(header /\ fits, pos + 1 + n, "extensions")
  /\ UNCHANGED <<stream, buffered, end, ch, payload>>

Extensions ==
  /\ stage = "extensions"
  /\ LET header == pos + 2 <= len
     IN  \E n \in Length :
           LET fits == pos + 2 + n <= len
           IN  /\ Field(header, 2, fits, 0, len)
               /\ Goto(header /\ fits, pos + 2, "extension")
               /\ end' = IF header /\ fits THEN pos + 2 + n ELSE end
  /\ UNCHANGED <<stream, buffered, ch, payload>>

(* Mutant: the payload may reach beyond the block, as long as it is in the body. *)
MutantExtensionFits(l) == pos + 4 + l <= len
ExtensionFits(l) == pos + 4 + l <= end

(* One round of the loop.  Of two extensions of a type the later one counts. *)
Extension ==
  /\ stage = "extension" /\ pos < end
  /\ LET header == pos + 4 <= end
     IN  \E t \in ExtType, l \in Length :
           LET ok == header /\ ExtensionFits(l)
           IN  /\ Field(header, 4, ExtensionFits(l), l, end)
               /\ Goto(ok, pos + 4 + l, "extension")
               /\ ch' = IF ok THEN [ch EXCEPT !.extensions = Append(@, t)] ELSE ch
               /\ payload' = IF ok THEN [payload EXCEPT ![t] = l] ELSE payload
  /\ UNCHANGED <<stream, buffered, end>>

ExtensionsEnd ==
  /\ stage = "extension" /\ pos >= end
  /\ stage' = "sni" /\ pos' = 0
  /\ UNCHANGED <<stream, buffered, end, ch, payload, overread>>
-----------------------------------------------------------------------------
(* The payloads of six extensions, in the order parseClientHelloBody takes    *)
(* them; an extension that is absent has no bytes.  What does not parse       *)
(* counts as absent.                                                          *)
Done(next) == stage' = next /\ pos' = 0

(* parseSNI and parseALPN: a vector of entries, 2 bytes of length before it. *)
OpenVector(k, type, entry, next) ==
  /\ stage = k
  /\ LET d == payload[type]
     IN  \E n \in Length :
           /\ Field(d >= 2, 2, 2 + n <= d, n, d)
           /\ IF d >= 2 /\ 2 + n <= d
                THEN stage' = entry /\ pos' = 2 /\ end' = 2 + n
                ELSE Done(next) /\ UNCHANGED end
  /\ UNCHANGED <<stream, buffered, ch, payload>>

NameFits(l) == pos + 3 + l <= end

(* The first host_name counts; a name that does not fit ends the search. *)
ServerName ==
  /\ stage = "server_name" /\ pos < end
  /\ \E l \in Length, name \in {"session", "other"}, host_name \in BOOLEAN :
       /\ Field(pos + 3 <= end, 3, NameFits(l), l, end)
       /\ IF pos + 3 <= end /\ NameFits(l) /\ ~host_name
            THEN pos' = pos + 3 + l /\ UNCHANGED <<stage, ch>>
            ELSE /\ Done("alpn")
                 /\ ch' = [ch EXCEPT !.sni = IF pos + 3 <= end /\ NameFits(l) /\ l > 0
                                                THEN name ELSE ""]
  /\ UNCHANGED <<stream, buffered, end, payload>>

(* Only the first protocol is looked at later, but one that does not fit      *)
(* discards them all.                                                         *)
Protocol ==
  /\ stage = "protocol" /\ pos < end
  /\ \E l \in Length :
       LET fits == pos + 1 + l <= end
       IN  /\ Field(pos < end, 1, fits, l, end)
           /\ ch' = [ch EXCEPT !.alpn = IF ~fits \/ (pos = 2 /\ l = 0) THEN ""
                                         ELSE IF pos = 2 THEN "h2" ELSE @]
           /\ IF fits THEN pos' = pos + 1 + l /\ UNCHANGED stage ELSE Done("sigAlgs")
  /\ UNCHANGED <<stream, buffered, end, payload>>

VectorEnds(entry, next) ==
  /\ stage = entry /\ pos >= end
  /\ Done(next)
  /\ UNCHANGED <<stream, buffered, end, ch, payload, overread>>

(* parseUint16List2, parseUint16List1, parsePointFormats: w bytes of length,  *)
(* then values of u bytes.                                                    *)
ParseList(k, type, w, u, next) ==
  /\ stage = k
  /\ LET d == payload[type]
     IN  \E n \in Length :
           LET fits == w + n <= d /\ n % u = 0
           IN  /\ Field(d >= w, w, fits, n, d)
               /\ \E vs \in IF d >= w /\ fits THEN [1..(n \div u) -> Value[k]] ELSE {<<>>} :
                    ch' = [ch EXCEPT !.list[k] = vs]
  /\ Done(next)
  /\ UNCHANGED <<stream, buffered, end, payload>>

(* recordTLS: a name that is not "<session>.n" leaves no trace. *)
Record ==
  /\ stage = "parsed"
  /\ stage' = IF ch.sni = "session" THEN "recorded" ELSE "unattributed"
  /\ UNCHANGED <<stream, buffered, pos, end, ch, payload, overread>>

parseClientHelloBody ==
  \/ Session \/ Ciphers \/ Compression \/ Extensions \/ Extension \/ ExtensionsEnd
  \/ OpenVector("sni", extSNI, "server_name", "alpn") \/ ServerName
  \/ VectorEnds("server_name", "alpn")
  \/ OpenVector("alpn", extALPN, "protocol", "sigAlgs") \/ Protocol
  \/ VectorEnds("protocol", "sigAlgs")
  \/ ParseList("sigAlgs", extSigAlgs, 2, 2, "versions")
  \/ ParseList("versions", extSupportedVersion, 1, 2, "groups")
  \/ ParseList("groups", extSupportedGroups, 2, 2, "points")
  \/ ParseList("points", extECPointFormats, 1, 1, "parsed")

Feed(n) == FeedTooMuch(n) \/ FeedInvalid(n) \/ FeedMore(n) \/ FeedHello(n)

Ended == {"refused", "closed", "malformed", "recorded", "unattributed"}

Next ==
  \/ \E n \in 1..ReadSize : Feed(n)
  \/ ReadFails \/ parseClientHelloBody \/ Record
  \/ stage \in Ended /\ UNCHANGED vars

Spec == Init /\ [][Next]_vars

(* The deadline of the connection passes; parsing is not interrupted. *)
FairSpec == Spec /\ WF_vars(ReadFails) /\ WF_vars(parseClientHelloBody) /\ WF_vars(Record)

-----------------------------------------------------------------------------
Parsing == {"session", "ciphers", "compression", "extensions", "extension", "sni", "server_name",
            "alpn", "protocol"} \cup Lists \cup {"parsed"}

TypeOK ==
  /\ stream \in [handshake : BOOLEAN, recLen : Nat, hello : BOOLEAN, hsLen : Nat, size : Nat]
  /\ buffered \in Nat
  /\ stage \in {"read"} \cup Parsing \cup Ended
  /\ pos \in Nat /\ end \in Nat
  /\ stage = "extension" => pos <= end /\ end <= len
  /\ ch \in [legacyVersion : Nat, ciphers : Seq(Cipher), extensions : Seq(ExtType),
             sni : {"", "session", "other"}, alpn : {"", "h2"}, list : [Lists -> Seq(Nat)]]
  /\ payload \in [ExtType -> Nat]
  /\ overread \in BOOLEAN

(* No index and no slice of the parser leaves the block it belongs to: not    *)
(* the body (an index there is a panic that takes the probe down), and not    *)
(* the extension block or a payload (a slice there silently takes the bytes   *)
(* that follow for part of it).  ja3.go: "Every read is bounds-checked".      *)
InBounds == ~overread

(* The whole ClientHello lies in the first record, and all of it is sent. *)
OneRecord ==
  /\ stream.handshake /\ stream.hello
  /\ 4 + stream.hsLen <= stream.recLen
  /\ 5 + stream.recLen <= stream.size

(* docs/development/testing.md: the outcome is the same at any boundaries of  *)
(* the pieces.  What is parsed is a hello that was sent whole; and such a     *)
(* hello is never refused, if one more read would still fit the buffer.       *)
CutIndependent ==
  /\ stage \in Parsing \cup {"malformed", "recorded", "unattributed"} => OneRecord
  /\ stage = "refused" => ~OneRecord \/ 4 + stream.recLen + ReadSize > MaxHelloBytes

(* The parser asks for more only while bytes are missing: to the header, to   *)
(* the record, or to a hello that goes on in a record after the first one,    *)
(* which never comes to an end before the deadline.                           *)
Prompt ==
  stage = "read" =>
    \/ buffered < 5
    \/ buffered < 5 + stream.recLen
    \/ stream.recLen < 4 + stream.hsLen

(* THR-PROBE-001: the buffer is bounded, whatever the client sends. *)
Bounded == buffered <= MaxHelloBytes

(* A client that shuffles its ciphers and its extensions, as browsers do, and *)
(* sprinkles GREASE keeps its JA4; and its JA3, if it does not shuffle.       *)
Swapped(s, i) == [s EXCEPT ![i] = s[i + 1], ![i + 1] = s[i]]

FingerprintStable ==
  stage = "parsed" =>
    /\ \A i \in 1..(Len(ch.extensions) - 1) :
         JA4([ch EXCEPT !.extensions = Swapped(@, i)]) = JA4(ch)
    /\ \A i \in 1..(Len(ch.ciphers) - 1) : JA4([ch EXCEPT !.ciphers = Swapped(@, i)]) = JA4(ch)
    /\ LET plain == [ch EXCEPT !.ciphers = NonGREASE(@), !.extensions = NonGREASE(@),
                               !.list["groups"] = NonGREASE(@),
                               !.list["versions"] = NonGREASE(@)]
       IN  JA4(plain) = JA4(ch) /\ JA3(plain) = JA3(ch)

(* Every connection comes to an end, also when the client falls silent in the *)
(* middle of a hello.                                                         *)
Ends == <>(stage \in Ended)
=============================================================================
