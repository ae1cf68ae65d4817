--------------------------- MODULE HelloFingerprint ---------------------------
(***************************************************************************)
(* The fingerprints of a parsed ClientHello, internal/probe/ja3.go: what   *)
(* JA3 and JA4 are computed from.  A fingerprint is the tuple of what is   *)
(* hashed; two hellos have the same one when the tuples are equal.  Code   *)
(* points are the real 16-bit numbers.                                     *)
(***************************************************************************)
EXTENDS Integers, Sequences, FiniteSets, SequencesExt

extSNI == 0
extSupportedGroups == 10
extECPointFormats == 11
extSigAlgs == 13
extALPN == 16
extSupportedVersion == 43

(* v & 0x0f0f = 0x0a0a: the second and the fourth hexadecimal digit are a. *)
isGREASE(v) == v % 16 = 10 /\ (v \div 256) % 16 = 10

(* The loop that skips them: kept[n] is what it has after n values. *)
NonGREASE(s) ==
  LET kept[n \in 0..Len(s)] ==
        IF n = 0 THEN <<>>
        ELSE IF isGREASE(s[n]) THEN kept[n - 1] ELSE Append(kept[n - 1], s[n])
  IN  kept[Len(s)]

(* Mutant: the list as the client sent it. *)
MutantUnsorted(s) == NonGREASE(s)

(* At position k of a sorted list: fewer than k values are lower, and k or *)
(* more are not higher.                                                   *)
InOrder(t) ==
  [k \in DOMAIN t |->
     CHOOSE v \in ToSet(t) : /\ Cardinality({i \in DOMAIN t : t[i] < v}) < k
                             /\ k <= Cardinality({i \in DOMAIN t : t[i] <= v})]

Sorted(s) == InOrder(NonGREASE(s))

JA3(ch) == <<ch.legacyVersion, NonGREASE(ch.ciphers), NonGREASE(ch.extensions),
             NonGREASE(ch.list["groups"]), ch.list["points"]>>

countNonGREASE(s) == LET n == Len(NonGREASE(s)) IN IF n > 99 THEN 99 ELSE n

(* TLS 1.3 to SSL 2, then the three versions of DTLS. *)
Versions == {772, 771, 770, 769, 768, 2, 65279, 65277, 65276}

(* The highest version offered, the legacy one included; 0 stands for "00". *)
ja4Version(vs, fallback) ==
  LET offered == {fallback} \cup ToSet(NonGREASE(vs))
      highest == CHOOSE v \in offered : \A w \in offered : w <= v
  IN  IF highest \in Versions THEN highest ELSE 0

Others(extensions) == SelectSeq(extensions, LAMBDA e : e \notin {extSNI, extALPN})

(* SNI and ALPN are left out; without any other extension the signature      *)
(* algorithms do not count either.                                           *)
ja4Extensions(extensions, sigAlgs) ==
  LET rest == Others(Sorted(extensions))
  IN  IF rest = <<>> THEN <<>> ELSE <<rest, sigAlgs>>

JA4(ch) ==
  <<ja4Version(ch.list["versions"], ch.legacyVersion), ch.sni # "",
    countNonGREASE(ch.ciphers), countNonGREASE(ch.extensions), ch.alpn,
    Sorted(ch.ciphers), ja4Extensions(ch.extensions, ch.list["sigAlgs"])>>
=============================================================================
