------------------------------ MODULE Adverts ------------------------------
(***************************************************************************)
(* What a node says of itself: the advert that CommandHandler builds from  *)
(* the identity and the location it has after whatever restarts there      *)
(* were, on its way over other repeaters.  When a response is sent is in   *)
(* Responders, who relays a packet in Mesh.                                *)
(***************************************************************************)
EXTENDS Storage, PacketCodec, Ed25519

CONSTANTS KeyRadix,         \* 256
          Latitude, Longitude, \* of a location
          NodeName,         \* "<NODE_NAME> <node hash>"
          Times,            \* bound of a TLC run: what TimeSync::now() may say
          Repeaters,        \* the hashes of other nodes
          OtherFrames       \* other frames on the air

\* In front of the data are a key of three elements, the time, a signature of two.
ASSUME AdvertsAssumption ==
    /\ MaxPathSize \in 0..255 /\ AdvertFixedSize = 3 + 1 + 2
    /\ KeyRadix \in Nat \ {0}
    /\ NodeName \in Seq(Nat \ {0})
    /\ Repeaters \subseteq 0..255 /\ OtherFrames \subseteq Seq(0..255)

VARIABLES
    frame,          \* the frame last on the air, or <<>>
    sent,           \* ghost: the packet at its origin
    made,           \* ghost: the time and the location of our advert
    hops            \* ghost: the repeaters it came by

advertVars == <<frame, sent, made, hops>>

\* A public key is three bytes here, as it lies in the areas of the EEPROM.
Keypairs[k \in 1..MaxKeys] == Keypair(k)
KeyByte(n, i) == <<n % KeyRadix, (n \div KeyRadix) % KeyRadix, n \div (KeyRadix * KeyRadix)>>[i]
AreaByte(value, i) ==
    LET known == {k \in 1..MaxKeys : value = Key(k)}
    IN IF known = {} THEN 0 ELSE KeyByte(Keypairs[CHOOSE k \in known : TRUE].public, i)
PublicKey == <<AreaByte(identity["1"], 1), AreaByte(identity["2-9"], 2),
               AreaByte(identity["10-96"], 3)>>
PrivateKey == Keypairs[CHOOSE k \in 1..MaxKeys : identity["10-96"] = Key(k)]
PublicNumber(bytes) == bytes[1] + KeyRadix * bytes[2] + KeyRadix * KeyRadix * bytes[3]

FirstOf(s, n) == SubSeq(s, 1, IF Len(s) < n THEN Len(s) ELSE n)

\* Flags, location, name.
Fields ==
    <<Flags(Repeater, location # NoLocation, TRUE)>>
    \o (IF location = NoLocation THEN <<>>
        ELSE <<Latitude[location[2]], Longitude[location[2]]>>)
    \o NodeName

\* A faulty buildAdvertAppData() that stops one short of the end of its buffer.
AppDataShort == FirstOf(Fields, MaxAdvertData - 1)

\* buildAdvertAppData(): the fields, cut where the buffer ends.
AppData == FirstOf(Fields, MaxAdvertData)

\* buildAdvertPacket()
AdvertPacket(time) ==
    LET signature == Sign(PublicKey \o <<time>> \o AppData, PublicKey, PrivateKey)
    IN [header |-> Header(RouteType.FLOOD, PayloadNumber.ADVERT, 0), codes |-> <<>>,
        path |-> <<>>,
        payload |-> PublicKey \o <<time>> \o signature \o AppData]

BuildAdvert(time) ==
    /\ phase = "up"
    /\ \E p \in {AdvertPacket(time)} :
          frame' \in Encode(p, MaxRawSize) /\ sent' = p
    /\ made' = <<[time |-> time, location |-> location, nodeHash |-> AreaByte(nodeHash, 1)]>>
    /\ hops' = <<>>
    /\ UNCHANGED vars

\* Another node sends something else.
SendOther(f) ==
    /\ frame' = f /\ \E p \in Heard(f) : sent' = p
    /\ made' = <<>> /\ hops' = <<>>
    /\ UNCHANGED vars

\* addNodeToPath()
AddNodeToPath(p, hash) ==
    IF Len(p.path) >= MaxPathSize THEN {} ELSE {[p EXCEPT !.path = Append(@, hash)]}

\* Another repeater forwards a flood.
Relay(hash) ==
    /\ \E p \in Heard(frame) :
          /\ Route(p.header) \in {RouteType.FLOOD, RouteType.TRANSPORT_FLOOD}
          /\ ~ Contains(p.path, hash)
          /\ \E q \in AddNodeToPath(p, hash) : frame' \in Encode(q, MaxRawSize)
    /\ hops' = Append(hops, hash)
    /\ UNCHANGED <<sent, made>>
    /\ UNCHANGED vars

AdvertInit == Init /\ frame = <<>> /\ sent = {} /\ made = <<>> /\ hops = <<>>

AdvertNext ==
    \/ Next /\ UNCHANGED advertVars
    \/ \E t \in Times : BuildAdvert(t)
    \/ \E f \in OtherFrames : SendOther(f)
    \/ \E h \in Repeaters : Relay(h)

AdvertSpec == AdvertInit /\ [][AdvertNext]_<<vars, advertVars>>

----------------------------------------------------------------------------
\* The scalars that this node multiplies come out of ScalarmultBase() as the multiples that the group's law says.
Scalars == 0..(L - 1) \cup {Keypairs[k].scalar : k \in 1..MaxKeys}
ScalarmultRight ==
    \A n \in Scalars :
       /\ n \in Nat /\ P3ToBytes(ScalarmultBase(n)) \in Nat
       /\ Encodes(P3ToBytes(ScalarmultBase(n)), Multiple(n % L, BasePoint))

\* What a peer reads of a frame, by the parts of an advert's payload.
AdvertKey(p) == SubSeq(p.payload, 1, 3)
AdvertTime(p) == p.payload[4]
AdvertSignature(p) == SubSeq(p.payload, 5, 6)
AdvertData(p) == From(p.payload, 7)

\* Over any restarts, location commands and relays, the advert of this node
\* verifies under the key in it, and that key begins with the hash by which
\* the node forwards (NodeConfig.cpp: "Node hash MUST be the first byte of the
\* Ed25519 public key").
AdvertVerifies ==
    made # <<>> =>
       \E p \in Heard(frame) :
          /\ AdvertKey(p)[1] = made[1].nodeHash
          /\ AdvertTime(p) = made[1].time
          /\ Verifies(AdvertSignature(p), AdvertKey(p) \o <<AdvertTime(p)>> \o AdvertData(p),
                      AdvertKey(p), PublicNumber(AdvertKey(p)))

\* Whatever frame the repeaters pass on, it is the packet of its origin with
\* their hashes added to the path in order: nothing is lost or shifted by
\* decoding and encoding, with transport codes or without, up to full frames.
RelayedWhole ==
    frame # <<>> =>
       Heard(frame) = {[sent EXCEPT !.path = @ \o hops]}

\* A peer reads the type and the name in an advert without a location, the
\* name as far as the buffer of the advert holds it.
NameRead ==
    made # <<>> /\ made[1].location = NoLocation =>
       \E p \in Heard(frame) :
          DecodeAdvert(p.payload)
             = {[type |-> Repeater, name |-> FirstOf(NodeName, MaxAdvertData - 1),
                 location |-> <<>>]}

\* Config.h:70: "Location (included in advert packets)": a peer reads the
\* location that the advert was built with.
LocationRead ==
    made # <<>> /\ made[1].location # NoLocation =>
       \E p \in Heard(frame) : \E a \in DecodeAdvert(p.payload) :
          a.location = <<Latitude[made[1].location[2]], Longitude[made[1].location[2]]>>
============================================================================
