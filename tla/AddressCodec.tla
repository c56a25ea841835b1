---------------------------- MODULE AddressCodec ----------------------------
(***************************************************************************)
(* Target addresses on the wire (crates/core/src/address.rs) and the       *)
(* payload of a first frame, an address with data behind it                *)
(* (crates/core/src/lib.rs).  Bytes are numbers, a String is the sequence  *)
(* of its UTF-8 bytes.                                                     *)
(***************************************************************************)
EXTENDS Integers, Sequences, SequencesExt

CONSTANT LenModulus  \* what a length byte counts to: 256; bound: less, to keep names short

ASSUME LenModulusAssumption == LenModulus \in 2..256

Byte == 0..255
Port == 0..65535

\* Socks5Addr: the host is four or sixteen bytes, or a text.
Address ==
    [type : {"IPv4", "Domain", "IPv6"}, host : Seq(Byte), port : Port]

BigEndian_Swapped(n) == <<n % 256, n \div 256>>
BigEndian(n) == <<n \div 256, n % 256>>
Word(bytes, i) == 256 * bytes[i] + bytes[i + 1]

-----------------------------------------------------------------------------
(* String::from_utf8_lossy.  Of the characters longer than a byte only the *)
(* replacement character is represented; a byte above 127 that is no part  *)
(* of one is replaced by it, and so is its beginning when the rest is      *)
(* missing.                                                                *)

Replacement == <<239, 191, 189>>

Lossy(bytes) ==
    LET Begins(i) == SubSeq(bytes, i, i + 2) = Replacement
        Whole(i) == \E j \in {i - 2, i - 1, i} : j \in 1..(Len(bytes) - 2) /\ Begins(j)
        Second(i) == i > 1 /\ SubSeq(bytes, i - 1, i) = <<239, 191>>
        Piece(i) == CASE bytes[i] < 128 \/ Whole(i) -> <<bytes[i]>>
                      [] Second(i) /\ ~Whole(i)     -> <<>>
                      [] OTHER                      -> Replacement
    IN FlattenSeq([i \in DOMAIN bytes |-> Piece(i)])

-----------------------------------------------------------------------------
\* Socks5Addr::to_bytes: the length of a domain is cast to eight bits.
Prefix(a) ==
    CASE a.type = "IPv4"   -> <<1>>
      [] a.type = "Domain" -> <<3, Len(a.host) % LenModulus>>
      [] a.type = "IPv6"   -> <<4>>

ToBytes(a) == Prefix(a) \o a.host \o BigEndian(a.port)

Bad == [address |-> "none"]

\* Too short for a host of n bytes from index i on and a port behind it.
TooShort_DataExpected(bytes, i, n) == Len(bytes) <= i + n + 1
TooShort(bytes, i, n) == Len(bytes) < i + n + 1

Parsed(type, bytes, i, n) ==
    LET host == SubSeq(bytes, i, i + n - 1) IN
    IF TooShort(bytes, i, n)
       THEN Bad
       ELSE [address  |-> [type |-> type,
                           host |-> IF type = "Domain" THEN Lossy(host) ELSE host,
                           port |-> Word(bytes, i + n)],
             consumed |-> i + n + 1]

\* Socks5Addr::from_bytes.
FromBytes(bytes) ==
    IF bytes = <<>> THEN Bad
    ELSE CASE bytes[1] = 1 -> Parsed("IPv4", bytes, 2, 4)
           [] bytes[1] = 3 -> IF Len(bytes) < 2 THEN Bad ELSE Parsed("Domain", bytes, 3, bytes[2])
           [] bytes[1] = 4 -> Parsed("IPv6", bytes, 2, 16)
           [] OTHER        -> Bad

\* pack_addr_payload and unpack_addr_payload.
Pack(a, data) == ToBytes(a) \o data

DataBehind_AtOnce(bytes, consumed) == SubSeq(bytes, consumed, Len(bytes))
DataBehind(bytes, consumed) == SubSeq(bytes, consumed + 1, Len(bytes))

Unpack(bytes) ==
    LET r == FromBytes(bytes) IN
    IF r = Bad THEN Bad
    ELSE [address |-> r.address, data |-> DataBehind(bytes, r.consumed)]

=============================================================================
