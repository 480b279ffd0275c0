--------------------------- MODULE ColorGopProofs ---------------------------
(***************************************************************************)
(* What holds of ColorGop for every queue depth, key frame interval and      *)
(* bound: a damaged picture is due to a packet that was lost less than       *)
(* KeyInterval packets before.                                              *)
(*                                                                         *)
(* A decoder takes packets in the order of their numbers, and a number that  *)
(* it jumps over is lost.  From a lost packet on the decoder stays broken    *)
(* until it takes a key frame, and of KeyInterval packets in a row one is.   *)
(***************************************************************************)
EXTENDS ColorGop, CameraStreamProofs

\* Every packet is a key frame or follows one closely; the encoder's count
\* tells where its last one is.
KeysAreDense ==
    /\ \A n \in 1..Len(keys) : \E k \in 1..n : n - KeyInterval < k /\ keys[k]
    /\ inGop > 0 =>
          /\ Len(keys) - ((inGop - 1) % KeyInterval) >= 1
          /\ keys[Len(keys) - ((inGop - 1) % KeyInterval)]

\* Where the packets are.  What is not in the queue any more was taken, is
\* lost, or is in the subscriber's buffer.
PacketsInPlace ==
    /\ subPacket < HeadPacket /\ decPacket <= subPacket
    /\ subBuf # NoData => subPacket >= 1 /\ subPacket \notin lost
    /\ lost \subseteq 1..(HeadPacket - 1)
    /\ rx = "off" => queue = <<>>
    /\ dec # "off" => rx \in {"on", "stopping"}
    /\ dec # "off" =>
          \A n \in 1..(HeadPacket - 1) :
              n <= decPacket \/ n \in lost \/ (subBuf # NoData /\ n = subPacket)
    /\ (dec # "off" /\ subBuf # NoData /\ subPacket = decPacket) => subBuf = decLast

\* A packet was lost, and no key frame has come since, up to packet p.
Broken(p) == \E n \in lost : n < p /\ \A k \in (n + 1)..p : ~keys[k]

DecoderKnows ==
    /\ dec = "poll" => reference = decPacket \/ Broken(decPacket)
    /\ dec = "work" => decPacket >= 1 /\ (Decodable \/ Broken(decPacket))

GopInv == KeysAreDense /\ PacketsInPlace /\ DecoderKnows /\ DamageIsRecent

-----------------------------------------------------------------------------
\* Counting on moves a remainder on by one, or back to zero.
LEMMA NextRemainder ==
    ASSUME NEW g \in Nat, g > 0, NEW K \in Nat \ {0}
    PROVE  /\ g % K \in 0..(K - 1) /\ (g - 1) % K \in 0..(K - 1)
           /\ g % K = 0 \/ g % K = ((g - 1) % K) + 1
<1> DEFINE q == g \div K
           p == (g - 1) \div K
           r == g % K
           s == (g - 1) % K
<1>1. q \in Int /\ r \in 0..(K - 1) /\ g = K * q + r
  OBVIOUS
<1>2. p \in Int /\ s \in 0..(K - 1) /\ g - 1 = K * p + s
  <2>1. g - 1 \in Nat
    OBVIOUS
  <2>2. QED  BY <2>1
<1> HIDE DEF q, p, r, s
<1>3. r = 0 \/ r = s + 1
  <2>1. CASE q > p
    <3>1. K * q >= K * p + K
      BY <1>1, <1>2, <2>1
    <3>2. K * q \in Int /\ K * p \in Int
      BY <1>1, <1>2
    <3>3. QED  BY <1>1, <1>2, <3>1, <3>2
  <2>2. CASE q < p
    <3>1. K * p >= K * q + K
      BY <1>1, <1>2, <2>2
    <3>2. K * q \in Int /\ K * p \in Int
      BY <1>1, <1>2
    <3>3. QED  BY <1>1, <1>2, <3>1, <3>2
  <2>3. CASE q = p
    <3>1. K * q = K * p /\ K * q \in Int
      BY <1>1, <2>3
    <3>2. QED  BY <1>1, <1>2, <3>1
  <2>4. QED  BY <1>1, <1>2, <2>1, <2>2, <2>3
<1>4. QED  BY <1>1, <1>2, <1>3 DEF r, s

\* A full queue keeps its length when a message is offered; another grows.
LEMMA OfferLength ==
    ASSUME NEW depth \in Nat \ {0}, NEW S, NEW q \in Seq(S), Len(q) <= depth, NEW m \in S
    PROVE  Len(Offer(q, depth, m)) = IF Len(q) = depth THEN Len(q) ELSE Len(q) + 1
<1>1. Len(Append(q, m)) = Len(q) + 1 /\ Append(q, m) # <<>> /\ Append(q, m) \in Seq(S)
  BY AppendProperties
<1>2. CASE Len(q) = depth
  <2>1. Offer(q, depth, m) = Tail(Append(q, m))
    BY <1>1, <1>2 DEF Offer, KeepLast
  <2>2. Len(Tail(Append(q, m))) = Len(Append(q, m)) - 1
    BY <1>1, TakeProperties
  <2>3. QED  BY <1>1, <1>2, <2>1, <2>2
<1>3. CASE Len(q) # depth
  BY <1>1, <1>3 DEF Offer, KeepLast
<1>4. QED  BY <1>2, <1>3

-----------------------------------------------------------------------------
\* The stream with its packets is the stream.
THEOREM GopImplementsStream == GopSpec => Spec
<1>1. GopInit => Init
  BY DEF GopInit
<1>2. [GopNext]_<<vars, gopVars>> => [Next]_vars
  BY DEF GopNext, Next, NewEncoder, PublishPacket, ReceivePacket, ClearPacket, NewDecoder,
         TakePacket, DecodeClean, DecodeDamaged, DecodeRejected
<1>3. QED  BY <1>1, <1>2, PTL DEF GopSpec, Spec

-----------------------------------------------------------------------------
\* The packets, the places they are in and the decoder's state hold together.
THEOREM GopInvariant == GopSpec => [](GopTypeOK /\ GopInv)
<1>1. TypeOK /\ GopInit => GopTypeOK /\ GopInv
  <2> SUFFICES ASSUME TypeOK, GopInit PROVE GopTypeOK /\ GopInv
    OBVIOUS
  <2>1. /\ inGop = 0 /\ keys = <<>> /\ subPacket = 0 /\ decPacket = 0 /\ reference = 0
        /\ joined = FALSE /\ shown = 0 /\ picture = "none" /\ lost = {}
        /\ queue = <<>> /\ subBuf = 0 /\ dec = "off"
    BY DEF GopInit, Init, NoData
  <2>2. Len(keys) = 0 /\ keys \in Seq(BOOLEAN) /\ HeadPacket = 1
    <3>1. keys = <<>> /\ queue = <<>>
      BY <2>1
    <3>2. Len(keys) = 0 /\ Len(queue) = 0
      BY <3>1
    <3>3. HeadPacket = 1
      BY <3>2 DEF HeadPacket
    <3>4. keys \in Seq(BOOLEAN)
      BY <3>1
    <3>5. QED  BY <3>2, <3>3, <3>4
  <2>3. GopTypeOK
    <3>1. joined \in BOOLEAN /\ picture \in {"none", "clean", "damaged"}
      BY <2>1
    <3>2. 0 \in 0..Len(keys) /\ 0 \in 0..0 /\ {} \subseteq 1..Len(keys) /\ 0 \in Nat
      BY <2>2
    <3>3. QED  BY <2>1, <2>2, <3>1, <3>2 DEF GopTypeOK
  <2>4. GopInv
    BY <2>1, <2>2
    DEF GopInv, KeysAreDense, PacketsInPlace, DecoderKnows, DamageIsRecent, NoData
  <2>5. QED  BY <2>3, <2>4
<1>2. /\ TypeOK /\ Working /\ TypeOK' /\ GopTypeOK /\ GopInv
      /\ [GopNext]_<<vars, gopVars>>
      => GopTypeOK' /\ GopInv'
  <2> SUFFICES ASSUME TypeOK, Working, TypeOK', GopTypeOK, GopInv,
                      [GopNext]_<<vars, gopVars>>
               PROVE  GopTypeOK' /\ GopInv'
    OBVIOUS
  <2>0. /\ KeyInterval \in Nat \ {0} /\ Depth \in Nat \ {0}
        /\ queue \in Seq(Frame) /\ Len(queue) \in Nat /\ Len(queue) <= Depth
        /\ \A f \in Frame : f # NoData
        /\ inGop \in Nat /\ keys \in Seq(BOOLEAN) /\ Len(keys) \in Nat
        /\ subPacket \in Nat /\ decPacket \in Nat /\ reference \in Nat /\ shown \in Nat
        /\ HeadPacket \in Int /\ HeadPacket >= 1 /\ HeadPacket <= Len(keys) + 1
        /\ lost \subseteq Nat
    <3>1. KeyInterval \in Nat \ {0} /\ Depth \in Nat \ {0} /\ \A f \in Frame : f # NoData
      BY StreamAssumption, GopAssumption DEF StreamAssumption, Frame, NoData
    <3>2. queue \in Seq(Frame) /\ Len(queue) \in Nat /\ Len(queue) <= Depth
      BY DEF TypeOK
    <3>3. inGop \in Nat /\ keys \in Seq(BOOLEAN) /\ Len(keys) \in Nat
      BY DEF GopTypeOK
    <3>4. /\ subPacket \in Nat /\ decPacket \in Nat /\ reference \in Nat /\ shown \in Nat
          /\ lost \subseteq Nat
      BY <3>3 DEF GopTypeOK
    <3>5. HeadPacket \in Int /\ HeadPacket <= Len(keys) + 1
      BY <3>2, <3>3 DEF HeadPacket
    <3>6. HeadPacket >= 1
      BY <3>4, <3>5 DEF GopInv, PacketsInPlace
    <3>7. QED  BY <3>1, <3>2, <3>3, <3>4, <3>5, <3>6
  <2> USE <2>0
  <2>1. CASE NewEncoder
    <3>1. /\ inGop' = 0
          /\ UNCHANGED <<queue, subBuf, rx, dec, decLast, keys, subPacket, decoding, lost>>
      BY <2>1 DEF NewEncoder, StartPublisher, receiver, decoder
    <3>2. QED
      BY <3>1 DEF decoding, GopTypeOK, GopInv, KeysAreDense, PacketsInPlace, DecoderKnows,
                  DamageIsRecent, HeadPacket, Broken, Decodable
  <2>2. CASE PublishPacket
    <3> DEFINE key == IsKeyFrame(inGop)
               last == (inGop - 1) % KeyInterval
    <3>1. /\ keys' = Append(keys, key) /\ inGop' = inGop + 1
          /\ lost' = IF Len(queue) = Depth THEN lost \cup {HeadPacket} ELSE lost
          /\ UNCHANGED <<subBuf, rx, dec, decLast, subPacket, decoding>>
          /\ IF rx # "off" THEN queue' = Offer(queue, Depth, encFrame) /\ encFrame \in Frame
                           ELSE UNCHANGED queue
      BY <2>2 DEF PublishPacket, EncodePublish, ReaderOpen, decoder, Working
    <3>2. key \in BOOLEAN /\ (key <=> inGop % KeyInterval = 0)
      BY DEF IsKeyFrame
    <3> HIDE DEF key
    <3>3. /\ keys' \in Seq(BOOLEAN) /\ Len(keys') = Len(keys) + 1
          /\ \A i \in 1..Len(keys) : keys'[i] = keys[i]
          /\ keys'[Len(keys) + 1] = key
      BY <3>1, <3>2, AppendProperties
    <3>4. /\ \/ HeadPacket' = HeadPacket /\ lost' = lost
             \/ HeadPacket' = HeadPacket + 1 /\ lost' = lost \cup {HeadPacket}
             \/ HeadPacket' = HeadPacket + 1 /\ lost' = lost /\ dec = "off"
          /\ rx = "off" => queue' = <<>>
      <4>1. CASE rx = "off"
        <5>1. queue = <<>> /\ queue' = <<>> /\ dec = "off"
          BY <3>1, <4>1 DEF GopInv, PacketsInPlace
        <5>2. Len(queue) = 0 /\ Len(queue') = 0
          BY <5>1
        <5>3. HeadPacket' = HeadPacket + 1
          BY <3>3, <5>2 DEF HeadPacket
        <5>4. QED  BY <3>1, <5>1, <5>2, <5>3
      <4>2. CASE rx # "off"
        <5>0. /\ Len(keys') = Len(keys) + 1
              /\ lost' = IF Len(queue) = Depth THEN lost \cup {HeadPacket} ELSE lost
          BY <3>1, <3>3
        <5>1. Len(queue') = IF Len(queue) = Depth THEN Len(queue) ELSE Len(queue) + 1
          BY <3>1, <4>2, OfferLength
        <5>2. CASE Len(queue) = Depth
          <6>1. HeadPacket' = HeadPacket + 1
            BY <5>0, <5>1, <5>2 DEF HeadPacket
          <6>2. lost' = lost \cup {HeadPacket}
            BY <5>0, <5>2
          <6>3. QED  BY <4>2, <6>1, <6>2
        <5>3. CASE Len(queue) # Depth
          <6>1. HeadPacket' = HeadPacket
            <7>1. Len(queue') = Len(queue) + 1 /\ Len(keys') = Len(keys) + 1
              BY <5>0, <5>1, <5>3
            <7>2. QED  BY <7>1 DEF HeadPacket
          <6>2. lost' = lost
            BY <5>0, <5>3
          <6>3. QED  BY <4>2, <6>1, <6>2
        <5>4. QED  BY <5>2, <5>3
      <4>3. QED  BY <4>1, <4>2
    <3>5. GopTypeOK'
      BY <3>1, <3>3 DEF GopTypeOK, decoding
    <3>6. KeysAreDense'
      <4>1. inGop > 0 =>
               /\ last \in 0..(KeyInterval - 1) /\ inGop % KeyInterval \in 0..(KeyInterval - 1)
               /\ inGop % KeyInterval = 0 \/ inGop % KeyInterval = last + 1
        BY NextRemainder
      <4>2. inGop = 0 => inGop % KeyInterval = 0
        OBVIOUS
      <4>3. inGop' > 0 /\ inGop' - 1 = inGop
        BY <3>1
      <4> DEFINE r == inGop % KeyInterval
      <4>4. r \in 0..(KeyInterval - 1) /\ Len(keys') - r >= 1 /\ keys'[Len(keys') - r]
        <5>1. CASE r = 0
          BY <3>2, <3>3, <5>1
        <5>2. CASE r # 0
          <6>1. inGop > 0 /\ r = last + 1 /\ r \in 0..(KeyInterval - 1)
            BY <4>1, <4>2, <5>2
          <6>2. Len(keys) - last >= 1 /\ keys[Len(keys) - last]
            BY <6>1 DEF GopInv, KeysAreDense
          <6>3. Len(keys') - r = Len(keys) - last
            BY <3>3, <4>1, <6>1
          <6>4. Len(keys) - last \in 1..Len(keys)
            BY <4>1, <6>1, <6>2
          <6>5. QED  BY <3>3, <6>1, <6>2, <6>3, <6>4
        <5>3. QED  BY <5>1, <5>2
      <4> HIDE DEF r
      <4>5. ASSUME NEW n \in 1..Len(keys') PROVE \E k \in 1..n : n - KeyInterval < k /\ keys'[k]
        <5>1. CASE n = Len(keys')
          <6>1. Len(keys') - r \in 1..n /\ n - KeyInterval < Len(keys') - r
            BY <3>3, <4>4, <5>1
          <6>2. QED  BY <4>4, <6>1
        <5>2. CASE n # Len(keys')
          <6>1. n \in 1..Len(keys)
            BY <3>3, <5>2
          <6>2. PICK k \in 1..n : n - KeyInterval < k /\ keys[k]
            <7>1. \A m \in 1..Len(keys) : \E k \in 1..m : m - KeyInterval < k /\ keys[k]
              BY DEF GopInv, KeysAreDense
            <7>2. QED  BY <6>1, <7>1
          <6>3. k \in 1..Len(keys)
            BY <6>1
          <6>4. keys'[k]
            BY <3>3, <6>2, <6>3
          <6>5. QED  BY <6>2, <6>4
        <5>3. QED  BY <5>1, <5>2
      <4>6. KeyInterval' = KeyInterval
        OBVIOUS
      <4>7. QED  BY <4>3, <4>4, <4>5 DEF KeysAreDense, r
    <3>7. PacketsInPlace'
      <4> USE <3>1 DEF decoding, GopInv, PacketsInPlace
      <4>1. /\ subPacket' < HeadPacket' /\ decPacket' <= subPacket'
            /\ subBuf' # NoData => subPacket' >= 1 /\ subPacket' \notin lost'
        BY <3>4
      <4>2. lost' \subseteq 1..(HeadPacket' - 1)
        BY <3>4
      <4>3. (rx' = "off" => queue' = <<>>) /\ (dec' # "off" => rx' \in {"on", "stopping"})
        BY <3>4
      <4>4. dec' # "off" =>
              \A n \in 1..(HeadPacket' - 1) :
                  n <= decPacket' \/ n \in lost' \/ (subBuf' # NoData /\ n = subPacket')
        BY <3>4
      <4>5. QED  BY <4>1, <4>2, <4>3, <4>4
    <3>8. DecoderKnows'
      <4>0. decPacket <= Len(keys)
        BY DEF GopTypeOK
      <4>1. lost \subseteq lost'
        BY <3>4
      <4>2. Broken(decPacket) => Broken(decPacket)'
        <5>1. \A n \in Nat : \A k \in (n + 1)..decPacket : k \in 1..Len(keys)
          BY <4>0
        <5>2. QED  BY <3>1, <3>3, <4>1, <5>1 DEF Broken, decoding
      <4>3. decPacket >= 1 => (Decodable <=> Decodable')
        <5>1. decPacket >= 1 => decPacket \in 1..Len(keys)
          BY <4>0
        <5>2. QED  BY <3>1, <3>3, <5>1 DEF Decodable, decoding
      <4>4. QED  BY <3>1, <4>2, <4>3 DEF DecoderKnows, GopInv, decoding
    <3>9. DamageIsRecent'
      BY <3>1, <3>4 DEF decoding, GopInv, DamageIsRecent
    <3>10. QED  BY <3>5, <3>6, <3>7, <3>8, <3>9 DEF GopInv
  <2>3. CASE ReceivePacket
    <3>1. /\ queue # <<>> /\ subBuf' = Head(queue) /\ queue' = Tail(queue) /\ rx # "off"
          /\ subPacket' = HeadPacket
          /\ lost' = IF Untaken THEN lost \cup {subPacket} ELSE lost
          /\ UNCHANGED <<rx, dec, decLast, encoding, decoding>>
      BY <2>3 DEF ReceivePacket, Receive, ReaderOpen, decoder
    <3>2. /\ subBuf' # NoData /\ Len(queue) >= 1 /\ HeadPacket <= Len(keys)
          /\ HeadPacket' = HeadPacket + 1
      <4>1. Head(queue) \in Frame /\ Len(Tail(queue)) = Len(queue) - 1 /\ Len(queue) >= 1
        BY <3>1, TakeProperties
      <4>2. keys' = keys
        BY <3>1 DEF encoding
      <4>3. QED  BY <3>1, <4>1, <4>2 DEF HeadPacket
    <3>3. lost \subseteq lost' /\ lost' \subseteq 1..(HeadPacket - 1)
      BY <3>1 DEF Untaken, GopInv, PacketsInPlace
    <3>4. GopTypeOK'
      BY <3>1, <3>2, <3>3 DEF GopTypeOK, encoding, decoding
    <3>5. PacketsInPlace'
      BY <3>1, <3>2, <3>3 DEF GopInv, PacketsInPlace, Untaken, encoding, decoding
    <3>6. KeysAreDense' /\ DecoderKnows' /\ DamageIsRecent'
      BY <3>1, <3>3 DEF GopInv, KeysAreDense, DecoderKnows, DamageIsRecent, Broken, Decodable,
                        encoding, decoding
    <3>7. QED  BY <3>4, <3>5, <3>6 DEF GopInv
  <2>4. CASE ClearPacket
    <3>1. /\ subBuf' = NoData
          /\ lost' = IF Untaken THEN lost \cup {subPacket} ELSE lost
          /\ UNCHANGED <<queue, rx, dec, decLast, encoding, subPacket, decoding>>
      BY <2>4 DEF ClearPacket, WatchdogClear, decoder
    <3>2. HeadPacket' = HeadPacket
      BY <3>1 DEF HeadPacket, encoding
    <3>3. lost \subseteq lost' /\ lost' \subseteq 1..(HeadPacket - 1)
      BY <3>1 DEF Untaken, GopInv, PacketsInPlace
    <3>4. GopTypeOK'
      BY <3>1, <3>3 DEF GopTypeOK, encoding, decoding
    <3>5. PacketsInPlace'
      BY <3>1, <3>2, <3>3 DEF GopInv, PacketsInPlace, Untaken, encoding, decoding
    <3>6. KeysAreDense' /\ DecoderKnows' /\ DamageIsRecent'
      BY <3>1, <3>3 DEF GopInv, KeysAreDense, DecoderKnows, DamageIsRecent, Broken, Decodable,
                        encoding, decoding
    <3>7. QED  BY <3>4, <3>5, <3>6 DEF GopInv
  <2>5. CASE NewDecoder
    <3>1. /\ rx' = "on" /\ dec' = "poll" /\ decLast' = NoData
          /\ decPacket' = 0 /\ reference' = 0 /\ joined' = FALSE
          /\ lost' = 1..(HeadPacket - 1) \ (IF subBuf # NoData THEN {subPacket} ELSE {})
          /\ UNCHANGED <<queue, subBuf, encoding, subPacket, shown, picture>>
      BY <2>5 DEF NewDecoder, StartDecoder, receiver
    <3>2. HeadPacket' = HeadPacket
      BY <3>1 DEF HeadPacket, encoding
    <3>3. lost \subseteq lost' /\ lost' \subseteq 1..(HeadPacket - 1)
      <4>1. lost \subseteq 1..(HeadPacket - 1) /\ (subBuf # NoData => subPacket \notin lost)
        BY DEF GopInv, PacketsInPlace
      <4>2. CASE subBuf # NoData
        BY <3>1, <4>1, <4>2
      <4>3. CASE subBuf = NoData
        BY <3>1, <4>1, <4>3
      <4>4. QED  BY <4>2, <4>3
    <3>4. GopTypeOK'
      <4>1. HeadPacket - 1 <= Len(keys) /\ lost' \subseteq 1..Len(keys)
        BY <3>3
      <4>2. joined' \in BOOLEAN
        BY <3>1
      <4>3. decPacket' \in 0..Len(keys) /\ reference' \in 0..decPacket'
        BY <3>1
      <4>4. QED  BY <3>1, <4>1, <4>2, <4>3 DEF GopTypeOK, encoding
    <3>5. PacketsInPlace'
      BY <3>1, <3>2, <3>3 DEF GopInv, PacketsInPlace, encoding
    <3>6. KeysAreDense' /\ DamageIsRecent'
      BY <3>1, <3>3 DEF GopInv, KeysAreDense, DamageIsRecent, encoding
    <3>7. DecoderKnows'
      BY <3>1 DEF DecoderKnows
    <3>8. QED  BY <3>4, <3>5, <3>6, <3>7 DEF GopInv
  <2>6. CASE TakePacket
    <3>1. /\ dec = "poll" /\ dec' = "work" /\ decLast' = subBuf /\ decPacket' = subPacket
          /\ subBuf # NoData /\ subBuf # decLast
          /\ UNCHANGED <<queue, subBuf, rx, encoding, subPacket, reference, joined, shown,
                         picture, lost>>
      BY <2>6 DEF TakePacket, DecoderPoll, IsNew, receiver
    <3>2. HeadPacket' = HeadPacket
      BY <3>1 DEF HeadPacket, encoding
    <3>3. /\ decPacket < subPacket /\ subPacket < HeadPacket
          /\ \A n \in (decPacket + 1)..(subPacket - 1) : n \in lost
      BY <3>1 DEF GopInv, PacketsInPlace
    <3>4. GopTypeOK'
      BY <3>1, <3>3 DEF GopTypeOK, encoding
    <3>5. PacketsInPlace'
      BY <3>1, <3>2, <3>3 DEF GopInv, PacketsInPlace, encoding
    <3>6. KeysAreDense' /\ DamageIsRecent'
      BY <3>1 DEF GopInv, KeysAreDense, DamageIsRecent, encoding
    <3>7. \/ keys[subPacket]
          \/ reference # 0 /\ reference = subPacket - 1
          \/ Broken(subPacket)
      <4>1. CASE subPacket > decPacket + 1
        <5>1. subPacket - 1 \in lost /\ (subPacket - 1) + 1 = subPacket
          BY <3>3, <4>1
        <5>2. QED  BY <5>1 DEF Broken
      <4>2. CASE subPacket = decPacket + 1 /\ Broken(decPacket)
        <5>1. PICK n \in lost : n < decPacket /\ \A k \in (n + 1)..decPacket : ~keys[k]
          BY <4>2 DEF Broken
        <5>2. ~keys[subPacket] => \A k \in (n + 1)..subPacket : ~keys[k]
          BY <4>2, <5>1
        <5>3. n < subPacket
          BY <4>2, <5>1
        <5>4. QED  BY <5>2, <5>3 DEF Broken
      <4>3. CASE subPacket = decPacket + 1 /\ reference = decPacket
        <5>1. CASE decPacket # 0
          BY <4>3, <5>1
        <5>2. CASE decPacket = 0
          <6>1. 1 \in 1..Len(keys) /\ subPacket = 1
            BY <3>3, <4>3, <5>2
          <6>2. PICK k \in 1..1 : keys[k]
            BY <6>1 DEF GopInv, KeysAreDense
          <6>3. QED  BY <6>1, <6>2
        <5>3. QED  BY <5>1, <5>2
      <4>4. QED  BY <3>1, <3>3, <4>1, <4>2, <4>3 DEF GopInv, DecoderKnows
    <3>8. DecoderKnows'
      BY <3>1, <3>3, <3>7 DEF DecoderKnows, Decodable, Broken, encoding
    <3>9. QED  BY <3>4, <3>5, <3>6, <3>8 DEF GopInv
  <2>7. CASE DecodeClean
    <3>1. /\ dec' = "poll" /\ dec = "work" /\ reference' = decPacket /\ joined' = TRUE
          /\ shown' = decPacket /\ picture' = "clean"
          /\ UNCHANGED <<queue, subBuf, rx, decLast, encoding, subPacket, decPacket, lost>>
      BY <2>7 DEF DecodeClean, Decode, receiver
    <3>2. HeadPacket' = HeadPacket
      BY <3>1 DEF HeadPacket, encoding
    <3>3. GopTypeOK'
      BY <3>1 DEF GopTypeOK, encoding
    <3>4. QED
      BY <3>1, <3>2, <3>3
      DEF GopInv, KeysAreDense, PacketsInPlace, DecoderKnows, DamageIsRecent, encoding
  <2>8. CASE DecodeDamaged
    <3>1. /\ dec' = "poll" /\ dec = "work" /\ ~Decodable /\ reference' = 0
          /\ shown' = decPacket /\ picture' = "damaged"
          /\ UNCHANGED <<queue, subBuf, rx, decLast, encoding, subPacket, decPacket, joined,
                         lost>>
      BY <2>8 DEF DecodeDamaged, Decode, receiver
    <3>2. HeadPacket' = HeadPacket
      BY <3>1 DEF HeadPacket, encoding
    <3>3. GopTypeOK'
      BY <3>1 DEF GopTypeOK, encoding
    <3>4. Broken(decPacket) /\ decPacket >= 1 /\ decPacket <= Len(keys)
      BY <3>1 DEF GopInv, DecoderKnows, GopTypeOK
    <3>5. \E n \in lost : decPacket - KeyInterval < n /\ n < decPacket
      <4>1. PICK n \in lost : n < decPacket /\ \A k \in (n + 1)..decPacket : ~keys[k]
        BY <3>4 DEF Broken
      <4>2. PICK k \in 1..decPacket : decPacket - KeyInterval < k /\ keys[k]
        BY <3>4 DEF GopInv, KeysAreDense
      <4>3. k <= n
        BY <4>1, <4>2
      <4>4. QED  BY <4>1, <4>2, <4>3
    <3>6. QED
      BY <3>1, <3>2, <3>3, <3>4, <3>5
      DEF GopInv, KeysAreDense, PacketsInPlace, DecoderKnows, DamageIsRecent, Broken, encoding
  <2>9. CASE DecodeRejected
    <3>1. /\ dec' = "poll" /\ dec = "work" /\ ~Decodable /\ reference' = 0
          /\ UNCHANGED <<queue, subBuf, rx, decLast, encoding, subPacket, decPacket, joined,
                         shown, picture, lost>>
      BY <2>9 DEF DecodeRejected, DecodeNothing, receiver
    <3>2. HeadPacket' = HeadPacket
      BY <3>1 DEF HeadPacket, encoding
    <3>3. GopTypeOK'
      BY <3>1 DEF GopTypeOK, encoding
    <3>4. Broken(decPacket)
      BY <3>1 DEF GopInv, DecoderKnows
    <3>5. QED
      BY <3>1, <3>2, <3>3, <3>4
      DEF GopInv, KeysAreDense, PacketsInPlace, DecoderKnows, DamageIsRecent, Broken, encoding
  <2>10. CASE UNCHANGED gopVars /\ CloseSubscriber
    <3>1. /\ queue' = <<>> /\ dec = "off" /\ rx' = "off"
          /\ UNCHANGED <<subBuf, dec, decLast, encoding, decoding, subPacket, lost>>
      BY <2>10 DEF CloseSubscriber, gopVars, decoder, GopInv, PacketsInPlace
    <3>2. HeadPacket <= HeadPacket'
      <4>1. Len(queue') = 0 /\ keys' = keys
        BY <3>1 DEF encoding
      <4>2. QED  BY <4>1 DEF HeadPacket
    <3>3. HeadPacket' \in Int
      <4>1. queue' \in Seq(Frame) /\ keys' = keys
        BY <3>1 DEF encoding
      <4>2. QED  BY <4>1 DEF HeadPacket
    <3>4. GopTypeOK'
      BY <3>1 DEF GopTypeOK, encoding, decoding
    <3>5. lost \subseteq 1..(HeadPacket' - 1)
      <4>1. lost \subseteq 1..(HeadPacket - 1)
        BY DEF GopInv, PacketsInPlace
      <4>2. ASSUME NEW a \in Int, NEW b \in Int, a <= b PROVE 1..(a - 1) \subseteq 1..(b - 1)
        BY <4>2
      <4>3. QED  BY <3>2, <3>3, <4>1, <4>2
    <3>6. PacketsInPlace'
      <4>1. /\ subPacket < HeadPacket /\ decPacket <= subPacket
            /\ subBuf # NoData => subPacket >= 1 /\ subPacket \notin lost
        BY DEF GopInv, PacketsInPlace
      <4>2. subPacket < HeadPacket'
        BY <3>2, <3>3, <4>1
      <4>3. /\ UNCHANGED <<subBuf, subPacket, decPacket, lost>>
            /\ queue' = <<>> /\ dec' = "off" /\ rx' = "off"
        BY <3>1 DEF decoding
      <4>4. QED  BY <3>5, <4>1, <4>2, <4>3 DEF PacketsInPlace
    <3>7. KeysAreDense' /\ DamageIsRecent' /\ DecoderKnows'
      BY <3>1 DEF GopInv, KeysAreDense, DamageIsRecent, DecoderKnows, encoding, decoding
    <3>8. QED  BY <3>4, <3>6, <3>7 DEF GopInv
  <2>11. CASE /\ UNCHANGED <<gopVars, queue, subBuf, decLast>>
              /\ \/ UNCHANGED <<rx, dec>>
                 \/ rx = "off" /\ rx' = "open" /\ UNCHANGED dec
                 \/ rx = "on" /\ rx' = "stopping" /\ UNCHANGED dec
                 \/ dec' = "off" /\ UNCHANGED rx
    <3>1. UNCHANGED <<encoding, decoding, subPacket, lost, queue, subBuf, decLast>>
      BY <2>11 DEF gopVars
    <3>2. HeadPacket' = HeadPacket
      BY <3>1 DEF HeadPacket, encoding
    <3>3. GopTypeOK'
      BY <3>1 DEF GopTypeOK, encoding, decoding
    <3>4. PacketsInPlace'
      BY <2>11, <3>1, <3>2 DEF GopInv, PacketsInPlace, decoding
    <3>5. KeysAreDense' /\ DamageIsRecent' /\ DecoderKnows'
      BY <2>11, <3>1
      DEF GopInv, KeysAreDense, DamageIsRecent, DecoderKnows, Broken, Decodable, encoding,
          decoding
    <3>6. QED  BY <3>3, <3>4, <3>5 DEF GopInv
  <2>12. QED
    BY <2>1, <2>2, <2>3, <2>4, <2>5, <2>6, <2>7, <2>8, <2>9, <2>10, <2>11
    DEF GopNext, vars, capture, sender, receiver, decoder, CaptureFrame, CaptureDies,
        StartCapture, PublisherFails, StopPublisher, StopCapture, EncoderPoll, EncoderExit,
        CountPublished, EncodeNothing, SecondOfSilence, WatchdogLook, OpenSubscriber, StopDecoder,
        DecoderExit, Horizon
<1>3. QED  BY <1>1, <1>2, GopImplementsStream, StreamTypeCorrect, PTL DEF GopSpec

\* A damaged picture is due to a packet lost less than KeyInterval packets
\* before it, for every queue depth and key frame interval.
THEOREM GopDamageIsRecent == GopSpec => []DamageIsRecent
BY GopInvariant, PTL DEF GopInv

\* The types of ColorGop.
THEOREM GopTypeCorrect == GopSpec => []GopTypeOK
BY GopInvariant, PTL
=============================================================================
