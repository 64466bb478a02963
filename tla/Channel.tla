------------------------------ MODULE Channel ------------------------------
(***************************************************************************)
(* mesh/channels/ChannelAnnouncer.cpp, PrivateChannelAnnouncer.cpp and     *)
(* crypto/CryptoUtils.cpp: how a text becomes the payload of a GRP_TXT     *)
(* packet and is read back.  A text is a sequence of symbols, each as long *)
(* as one byte; the block cipher and the MAC are ideal: a block opens only *)
(* under its key, and no two messages have the same MAC.                   *)
(***************************************************************************)
EXTENDS Integers, SequencesExt

CONSTANTS BlockSize,          \* 16, the AES block
          MacSize,            \* CIPHER_MAC_SIZE, 2
          MaxMessageLen,      \* ChannelAnnouncer::MAX_MESSAGE_LEN, 160
          MaxPayload,         \* MAX_PACKET_PAYLOAD, 184
          MaxPrivateChannels, \* MAX_PRIVATE_CHANNELS, 8
          KeyHexLength,       \* 2 * CIPHER_KEY_SIZE, 32
          ConfiguredKeys,     \* PRIVATE_CHANNEL_KEYS: [hexLength, secret] each
          ChannelHash,        \* the first byte of a secret's SHA-256
          Words,              \* what texts are made of, beside numbers
          NUL                 \* the zero byte

HeaderSize == 5        \* the time in seconds and the attempt
PathHashSize == 1
TextBuffer == MaxMessageLen
PlainBuffer == HeaderSize + MaxMessageLen

BlocksOf(n) == (n + BlockSize - 1) \div BlockSize

\* A packet holds the blocks of the longest message, 1 + 2 + 11 * 16 bytes.
ASSUME ChannelAssumption ==
    /\ BlockSize \in Nat \ {0} /\ MacSize \in Nat
    /\ MaxMessageLen \in Nat \ {0} /\ MaxPayload \in Nat
    /\ MaxPrivateChannels \in Nat
    /\ ConfiguredKeys \in Seq([hexLength : Nat, secret : DOMAIN ChannelHash])
    /\ NUL \notin Words \cup Int
    /\ PathHashSize + MacSize + BlockSize * BlocksOf(HeaderSize + MaxMessageLen - 1)
          <= MaxPayload

\* A symbol of a text: a word, or a number that is written out.
Symbol == Words \cup Int

\* What a uint32_t holds, its bytes, the lowest first, and back.
Word32 == {t \in Nat : t \div 16777216 < 256}
Stamp(t) == <<t % 256, (t \div 256) % 256, (t \div 65536) % 256, (t \div 16777216) % 256>>
Stamped(bytes) ==
    bytes[1] + 256 * bytes[2] + 65536 * bytes[3] + 16777216 * bytes[4]

\* A faulty encrypt() that drops an incomplete last block.
WholeBlocksOnly(key, plain) ==
    [b \in 1..(Len(plain) \div BlockSize) |->
        [key |-> key, block |-> SubSeq(plain, BlockSize * (b - 1) + 1, BlockSize * b)]]

\* encrypt(): whole blocks, the last filled up with zeros.
Padded(plain) == [i \in 1..(BlockSize * BlocksOf(Len(plain))) |->
                     IF i <= Len(plain) THEN plain[i] ELSE NUL]
Encrypt(key, plain) ==
    [b \in 1..BlocksOf(Len(plain)) |->
        [key |-> key, block |-> [i \in 1..BlockSize |-> Padded(plain)[BlockSize * (b - 1) + i]]]]

\* decrypt() of whole blocks; a block of another key comes out as noise.
Decrypt(key, cipher) ==
    [i \in 1..(BlockSize * Len(cipher)) |->
        LET from == cipher[((i - 1) \div BlockSize) + 1]
        IN IF from.key = key THEN from.block[((i - 1) % BlockSize) + 1] ELSE "?"]

Mac(key, cipher) == [key |-> key, over |-> cipher]

\* A payload is the channel's hash, the MAC and the blocks.
Payload(hash, mac, cipher) == [hash |-> hash, mac |-> mac, cipher |-> cipher]
PayloadLength(p) == PathHashSize + MacSize + BlockSize * Len(p.cipher)

\* What a message buffer of MAX_MESSAGE_LEN holds of a text.
Fitted(text) == SubSeq(text, 1, IF Len(text) < MaxMessageLen - 1
                                THEN Len(text) ELSE MaxMessageLen - 1)

\* buildPacketInternal(): none, or the payload.
Built(text, time, key) ==
    LET cipher == Encrypt(key, Stamp(time) \o <<0>> \o Fitted(text))
        payload == Payload(ChannelHash[key], Mac(key, cipher), cipher)
    IN IF PayloadLength(payload) > MaxPayload THEN {} ELSE {payload}

\* Where the blocks of a payload are more than plaintext[] holds, which takes a
\* text of more than 155 bytes, what this decoder does is not defined.
Decodable(p) == BlockSize * Len(p.cipher) <= PlainBuffer

\* MACThenDecrypt(), guarded as in decodeMessageInternal().
Opened(p, key) ==
    IF \/ PayloadLength(p) <= PathHashSize + MacSize
       \/ p.hash # ChannelHash[key]
       \/ p.mac # Mac(key, p.cipher)
       \/ Len(p.cipher) * BlockSize < HeaderSize
    THEN {} ELSE {Decrypt(key, p.cipher)}

\* The text behind the header: up to the first zero, the end of the plaintext
\* or what the buffers hold.
TextOf(plain) ==
    LET ends == {i \in (HeaderSize + 1)..Len(plain) : plain[i] = NUL} \cup {Len(plain) + 1}
        length == CHOOSE i \in ends : \A j \in ends : i <= j
    IN SubSeq(plain, HeaderSize + 1,
              IF length - 1 <= HeaderSize + TextBuffer - 1
              THEN length - 1 ELSE HeaderSize + TextBuffer - 1)

\* decodeMessageInternal(): none, or the time and the text.
Decoded(p, key) ==
    {[time |-> Stamped(plain), text |-> TextOf(plain)] : plain \in Opened(p, key)}

----------------------------------------------------------------------------
\* PrivateChannelAnnouncer::initialize(): surplus channels are left out, and
\* those whose key has the wrong length never get ready.
NumChannels == IF Len(ConfiguredKeys) > MaxPrivateChannels THEN MaxPrivateChannels
                                                           ELSE Len(ConfiguredKeys)
Ready(ch) == ConfiguredKeys[ch].hexLength = KeyHexLength
Secret(ch) == ConfiguredKeys[ch].secret

\* decodeMessage(): the first ready channel that can read the payload.
Readers(p) ==
    {ch \in 1..NumChannels : Ready(ch) /\ Decoded(p, Secret(ch)) # {}}
FirstReader(p) == {ch \in Readers(p) : \A other \in Readers(p) : ch <= other}
Received(p) ==
    UNION {{[channel |-> ch, time |-> m.time, text |-> m.text] : m \in Decoded(p, Secret(ch))}
             : ch \in FirstReader(p)}

\* buildPacket()
BuiltOn(ch, text, time) ==
    IF ch \notin 1..NumChannels \/ ~ Ready(ch) THEN {} ELSE Built(text, time, Secret(ch))
============================================================================
