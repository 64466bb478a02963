---------------------------- MODULE PacketCodec ----------------------------
(***************************************************************************)
(* core/PacketDecoder.cpp and PacketValidator.h: frames of bytes, packets, *)
(* and what an advert's payload says.  A packet is its header byte, the    *)
(* transport codes, the path and the payload.  An element of a payload     *)
(* stands for one byte, or for the bytes of one number: the sizes are      *)
(* constants.  "none, or the result" is a set of at most one element.      *)
(***************************************************************************)
EXTENDS Integers, SequencesExt

CONSTANTS MaxPathSize,         \* MAX_PATH_SIZE, 64
          MaxPacketPayload,    \* MAX_PACKET_PAYLOAD, 184
          MaxAdvertData,       \* MAX_ADVERT_DATA_SIZE, 32
          AdvertFixedSize,     \* 100, the key, the time and the signature
          CoordinateSize,      \* 4, a latitude or a longitude
          FeatureSize,         \* ADVERT_FEATURE_SIZE, 2
          CodesSize,           \* TRANSPORT_CODES_TOTAL_SIZE, 4
          MaxRawSize           \* 255

ASSUME CodecAssumption ==
    /\ MaxPathSize \in Nat /\ MaxPacketPayload \in Nat
    /\ MaxAdvertData \in Nat \ {0}
    /\ AdvertFixedSize \in Nat
    /\ CoordinateSize \in Nat /\ FeatureSize \in Nat /\ CodesSize \in Nat
    /\ MaxRawSize \in Nat

MinPacketSize == 2

RouteType == [TRANSPORT_FLOOD |-> 0, FLOOD |-> 1, DIRECT |-> 2, TRANSPORT_DIRECT |-> 3]
PayloadNumber == [ADVERT |-> 4, GRP_TXT |-> 5, TRACE |-> 9, CONTROL |-> 11]
Repeater == 2                  \* AdvertType::REPEATER

\* The header byte: two bits, four bits, two bits.
Header(route, type, version) == route + 4 * type + 64 * version
Route(header) == header % 4
TypeOf(header) == (header \div 4) % 16
HasCodes(header) == Route(header) \in {RouteType.TRANSPORT_FLOOD, RouteType.TRANSPORT_DIRECT}

From(s, i) == SubSeq(s, i, Len(s))

----------------------------------------------------------------------------
\* validateRawPacket(), and validate() of the level BASIC.
ValidRaw(raw) == Len(raw) \in MinPacketSize..MaxRawSize
Valid(p) == Len(p.path) <= MaxPathSize /\ Len(p.payload) <= MaxPacketPayload

\* decode(): the byte at which the length of the path lies.
PathLengthAt(raw) == IF HasCodes(raw[1]) THEN 2 + CodesSize ELSE 2

Decodable(raw) ==
    /\ Len(raw) >= MinPacketSize
    /\ PathLengthAt(raw) <= Len(raw)
    /\ LET at == PathLengthAt(raw)
       IN /\ raw[at] <= MaxPathSize
          /\ at + raw[at] <= Len(raw)
          /\ Len(raw) - at - raw[at] <= MaxPacketPayload

Decode(raw) ==
    IF ~ Decodable(raw) THEN {}
    ELSE LET at == PathLengthAt(raw)
         IN {[header |-> raw[1], codes |-> SubSeq(raw, 2, at - 1),
              path |-> SubSeq(raw, at + 1, at + raw[at]),
              payload |-> From(raw, at + raw[at] + 1)]}

\* A faulty encode() that leaves the transport codes out.
EncodeBare(p, maxLength) ==
    {<<p.header>> \o <<Len(p.path)>> \o p.path \o p.payload}

\* encode()
Encode(p, maxLength) ==
    LET raw == <<p.header>> \o (IF HasCodes(p.header) THEN p.codes ELSE <<>>)
               \o <<Len(p.path)>> \o p.path \o p.payload
    IN IF Valid(p) /\ Len(raw) <= maxLength THEN {raw} ELSE {}

\* onRxDone(): what of a frame gets into the queue.
Heard(raw) == IF ValidRaw(raw) THEN {p \in Decode(raw) : Valid(p)} ELSE {}

----------------------------------------------------------------------------
\* The flags of an advert: the type in four bits, and what follows.
Flags(type, hasLocation, hasName) ==
    type + (IF hasLocation THEN 16 ELSE 0) + (IF hasName THEN 128 ELSE 0)
HasLocation(flags) == (flags \div 16) % 2 = 1
HasFeature1(flags) == (flags \div 32) % 2 = 1
HasFeature2(flags) == (flags \div 64) % 2 = 1
HasName(flags) == (flags \div 128) % 2 = 1

\* A parser takes what is left of the payload and returns none, or what it
\* read and what is left then.

\* parseAdvertFeatures()
ParseFeatures(flags, rest) ==
    LET size == (IF HasFeature1(flags) THEN FeatureSize ELSE 0)
                + (IF HasFeature2(flags) THEN FeatureSize ELSE 0)
    IN IF size > Len(rest) THEN {} ELSE {From(rest, size + 1)}

\* parseAdvertName(): up to a zero, which is skipped, the end of the payload,
\* or what advertName holds.
ParseName(flags, rest) ==
    LET stops == {i \in 1..Len(rest) : rest[i] = 0}
                 \cup {Len(rest) + 1} \cup {MaxAdvertData}
        stop == CHOOSE i \in stops : \A j \in stops : i <= j
    IN IF ~ HasName(flags) THEN {[name |-> <<>>, rest |-> rest]}
       ELSE {[name |-> SubSeq(rest, 1, stop - 1),
              rest |-> From(rest, IF stop <= Len(rest) /\ rest[stop] = 0
                                  THEN stop + 1 ELSE stop)]}

\* parseAdvertLocation()
ParseLocation(flags, rest) ==
    IF ~ HasLocation(flags) THEN {<<>>}
    ELSE IF 2 * CoordinateSize > Len(rest) THEN {}
    ELSE {SubSeq(rest, 1, 2 * CoordinateSize)}

\* decodeAdvertPayload(): the features, then the name, then the location.
DecodeAdvert(payload) ==
    IF Len(payload) <= AdvertFixedSize THEN {}
    ELSE LET flags == payload[AdvertFixedSize + 1]
         IN UNION {UNION {{[type |-> flags % 16, name |-> n.name, location |-> l] :
                              l \in ParseLocation(flags, n.rest)} :
                          n \in ParseName(flags, r)} :
                   r \in ParseFeatures(flags, From(payload, AdvertFixedSize + 2))}
============================================================================
