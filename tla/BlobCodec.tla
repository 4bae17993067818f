----------------------------- MODULE BlobCodec -----------------------------
(***************************************************************************)
(* The text form of a JMAP blob id: JMAPBlob's Display and parse in        *)
(* src/components/jmap/src/types/blob.rs, and the serde round trip built   *)
(* on them (serialize writes the Display form; visit_str parses it and     *)
(* falls back to the default blob).                                        *)
(*                                                                         *)
(* A blob id is a prefix letter followed by the base32 form of a byte      *)
(* stream: the blob hash, then, for a section of a blob, its offset and    *)
(* size as LEB128 numbers. The prefix letter says whether the blob is      *)
(* local or external and, for a section, carries the section's encoding.   *)
(* The base32 and LEB128 codecs of the store crate are modelled by what    *)
(* they do to bits; a text is a sequence of character codes, a base32      *)
(* character being represented by its 5-bit value.                         *)
(***************************************************************************)
EXTENDS Naturals, Sequences, SequencesExt

CONSTANTS
    HashLen,     \* BLOB_HASH_LEN, the number of bytes of a blob hash
    HashBytes,   \* the byte values a hash is built from
    Offsets,     \* offsets and sizes of sections
    Encodings    \* section encodings (u8)

ASSUME BlobAssumption ==
    /\ HashLen \in Nat \ {0}
    /\ HashBytes \subseteq 0..255
    /\ Offsets \subseteq Nat
    /\ Encodings \subseteq 0..255

VARIABLES
    blob,       \* the JMAPBlob the server holds
    wire,       \* the text sent to the client and back (<<>>: none yet)
    received    \* the JMAPBlob deserialized from the text (NoBlob: none yet)

vars == <<blob, wire, received>>

-----------------------------------------------------------------------------
(* Bits, base32 and LEB128 (store::serialize)                              *)

\* The n low bits of v, most significant first.
BitsOf(v, n) == [i \in 1..n |-> (v \div 2^(n - i)) % 2]

\* The number a sequence of bits spells, most significant first.
ValueOf(bits) == FoldLeft(LAMBDA acc, b : 2 * acc + b, 0, bits)

\* Base32Writer: the bits of the bytes, cut into groups of five, the last
\* group padded with zeros.
Base32Encode(bytes) ==
    LET bits   == FlattenSeq([i \in 1..Len(bytes) |-> BitsOf(bytes[i], 8)])
        n      == (Len(bits) + 4) \div 5
        padded == bits \o [i \in 1..(5 * n - Len(bits)) |-> 0]
    IN  [k \in 1..n |-> ValueOf(SubSeq(padded, 5 * k - 4, 5 * k))]

\* Mutant: the reader also yields the last, partial byte, padded with zeros.
Base32DecodePartial(chars) ==
    LET bits == FlattenSeq([i \in 1..Len(chars) |-> BitsOf(chars[i], 5)])
        n    == (Len(bits) + 7) \div 8
        padded == bits \o [i \in 1..(8 * n - Len(bits)) |-> 0]
    IN  [k \in 1..n |-> ValueOf(SubSeq(padded, 8 * k - 7, 8 * k))]

\* Base32Reader: the bytes the characters' bits hold; trailing bits that do
\* not make a whole byte are dropped.
Base32Decode(chars) ==
    LET bits == FlattenSeq([i \in 1..Len(chars) |-> BitsOf(chars[i], 5)])
    IN  [k \in 1..(Len(bits) \div 8) |-> ValueOf(SubSeq(bits, 8 * k - 7, 8 * k))]

\* Leb128Writer::write_leb128: seven bits per byte, least significant first,
\* the high bit set on every byte but the last.
RECURSIVE Leb128(_)
Leb128(v) == IF v < 128 THEN <<v>> ELSE <<(v % 128) + 128>> \o Leb128(v \div 128)

\* Leb128Iterator::next_leb128 on a byte stream: the number and the bytes
\* after it, or NoNumber when the stream ends inside the number.
NoNumber == [ok |-> FALSE]

\* Mutant: the groups of seven bits are read most significant first.
RECURSIVE ReadLeb128BigEndian(_)
ReadLeb128BigEndian(s) ==
    IF s = <<>> THEN NoNumber
    ELSE IF Head(s) < 128 THEN [ok |-> TRUE, value |-> Head(s), rest |-> Tail(s)]
    ELSE LET r == ReadLeb128BigEndian(Tail(s))
             n == Len(Tail(s)) - Len(r.rest)
         IN  IF r.ok THEN [r EXCEPT !.value = (Head(s) - 128) * 128^n + @]
             ELSE NoNumber

RECURSIVE ReadLeb128(_)
ReadLeb128(s) ==
    IF s = <<>> THEN NoNumber
    ELSE IF Head(s) < 128 THEN [ok |-> TRUE, value |-> Head(s), rest |-> Tail(s)]
    ELSE LET r == ReadLeb128(Tail(s))
         IN  IF r.ok THEN [r EXCEPT !.value = Head(s) - 128 + 128 * @]
             ELSE NoNumber

-----------------------------------------------------------------------------
(* JMAPBlob                                                                *)

NoSection == [none |-> TRUE]

Hashes == [1..HashLen -> HashBytes]

\* store::blob::BlobId: BlobId::Local { hash } or BlobId::External { hash }.
BlobId == [local: BOOLEAN, hash: Hashes]

\* The sizes of the sections new_section builds from offsets.
Sizes == {p[2] - p[1] : p \in {q \in Offsets \X Offsets : q[1] <= q[2]}}

\* Lines 36-41: BlobSection.
Section == [offset_start: Offsets, size: Sizes, encoding: Encodings]

\* Lines 30-34: JMAPBlob, a blob id and an optional section.
JMAPBlob == [local: BOOLEAN, hash: Hashes, section: Section \cup {NoSection}]

\* Lines 44-46 and 109-119: JMAPBlob::new, and From<BlobId>.
New(id) == [local |-> id.local, hash |-> id.hash, section |-> NoSection]

\* Lines 48-58: JMAPBlob::new_section; the size is offset_end - offset_start,
\* a usize difference (callers pass offset_start <= offset_end).
NewSection(id, s, e, enc) ==
    [local |-> id.local, hash |-> id.hash,
     section |-> [offset_start |-> s, size |-> e - s, encoding |-> enc]]

NoBlob == [none |-> TRUE]

\* JMAPBlob::default: a local blob with an all-zero hash.
DefaultBlob == [local |-> TRUE, hash |-> [i \in 1..HashLen |-> 0],
                section |-> NoSection]

\* Character codes of the prefix letters.
Chr == [a |-> 97, b |-> 98, c |-> 99, g |-> 103, h |-> 104, l |-> 108]

\* Mutant: external sections are written from 'b' on.
ExternalPrefixFromB(enc) == (Chr.b + enc) % 256

\* Line 177: b'h' + section.encoding, a u8 sum (it wraps in a release build).
ExternalPrefix(enc) == (Chr.h + enc) % 256

\* Lines 167-190: Display for JMAPBlob.
Display(b) ==
    IF b.section # NoSection
    THEN << IF b.local THEN (Chr.c + b.section.encoding) % 256
            ELSE ExternalPrefix(b.section.encoding) >>
         \o Base32Encode(b.hash \o Leb128(b.section.offset_start)
                                \o Leb128(b.section.size))
    ELSE << IF b.local THEN Chr.a ELSE Chr.b >> \o Base32Encode(b.hash)

\* Lines 64-72: the prefix letter gives is_local and the section encoding
\* (-1: no section); any other letter fails the parse.
NoPrefix == [ok |-> FALSE]

Prefix(p) ==
    CASE p = Chr.b                 -> [ok |-> TRUE, local |-> FALSE, enc |-> -1]
      [] p = Chr.a                 -> [ok |-> TRUE, local |-> TRUE, enc |-> -1]
      [] p \in Chr.c .. Chr.g      -> [ok |-> TRUE, local |-> TRUE, enc |-> p - Chr.c]
      [] p \in Chr.h .. Chr.l      -> [ok |-> TRUE, local |-> FALSE, enc |-> p - Chr.h]
      [] OTHER                     -> NoPrefix

\* Lines 60-98: JMAPBlob::parse; NoBlob stands for None.
Parse(s) ==
    IF s = <<>> \/ ~Prefix(s[1]).ok THEN NoBlob
    ELSE
    LET p      == Prefix(s[1])
        stream == Base32Decode(Tail(s))
        rest   == SubSeq(stream, HashLen + 1, Len(stream))
        off    == ReadLeb128(rest)
        size   == ReadLeb128(off.rest)
        hash   == SubSeq(stream, 1, HashLen)
    IN  CASE Len(stream) < HashLen -> NoBlob
          [] p.enc = -1 -> [local |-> p.local, hash |-> hash, section |-> NoSection]
          [] ~off.ok \/ ~size.ok -> NoBlob
          [] OTHER -> [local |-> p.local, hash |-> hash,
                       section |-> [offset_start |-> off.value,
                                    size |-> size.value,
                                    encoding |-> p.enc]]

\* Line 154: visit_str, parse or the default blob.
VisitStr(s) == IF Parse(s) = NoBlob THEN DefaultBlob ELSE Parse(s)

-----------------------------------------------------------------------------
(* A blob id sent to a client and read back                                *)

Init ==
    /\ \/ \E id \in BlobId : blob = New(id)
       \/ \E id \in BlobId, s \in Offsets, enc \in Encodings :
             \E e \in {x \in Offsets : x >= s} : blob = NewSection(id, s, e, enc)
    /\ wire = <<>>
    /\ received = NoBlob

\* Line 137: serde::Serialize writes the Display form.
Serialize ==
    /\ wire = <<>>
    /\ wire' = Display(blob)
    /\ UNCHANGED <<blob, received>>

\* Lines 150-164: serde::Deserialize of the text the client sent back.
Deserialize ==
    /\ wire # <<>>
    /\ received = NoBlob
    /\ received' = VisitStr(wire)
    /\ UNCHANGED <<blob, wire>>

\* The client sends back only a prefix of the text (a truncated id).
Truncate ==
    /\ wire # <<>>
    /\ received = NoBlob
    /\ Len(wire) > 1
    /\ wire' = SubSeq(wire, 1, Len(wire) - 1)
    /\ UNCHANGED <<blob, received>>

Done ==
    /\ received # NoBlob
    /\ UNCHANGED vars

Next == Serialize \/ Deserialize \/ Truncate \/ Done

Spec == Init /\ [][Next]_vars

-----------------------------------------------------------------------------
(* Properties                                                              *)

\* Every blob, text and deserialized value is of its type; in particular a
\* section read back by parse has an offset and a size the writer can produce.
TypeOK ==
    /\ blob \in JMAPBlob
    /\ wire \in Seq(0..255)
    /\ received \in JMAPBlob \cup {NoBlob}

\* An id the server wrote (Display) and reads back whole (visit_str) names
\* the same blob and section: kind, hash, offset, size and encoding.
RoundTrip ==
    (received # NoBlob /\ wire = Display(blob)) => received = blob

\* A truncated id never names another blob: parse fails and visit_str falls
\* back to the default blob.
TruncatedRejected ==
    (received # NoBlob /\ wire # Display(blob)) => received = DefaultBlob

=============================================================================
