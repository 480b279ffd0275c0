------------------------ MODULE UwbTransmitterProofs ------------------------
(***************************************************************************)
(* What holds of UwbTransmitter for every bound: type correctness; the topic *)
(* is a chain of latest-wins buffers over the fixes; the read loop stores    *)
(* every fix wherever the reads cut the text; and the publisher publishes no *)
(* more than was parsed and one replay for each restart.                     *)
(*                                                                         *)
(* The text on its way from the device is in two places, the lines that were *)
(* extracted and the line that is unread.  The fixes in them ascend, and     *)
(* while the port is good those that read_loop can find are exactly the      *)
(* fixes after session.                                                      *)
(***************************************************************************)
EXTENDS UwbTransmitter, TLAPS

\* How many commands were written since the last read.
Written == IF reader = "wait" THEN 2 ELSE IF reader \in {"enter again", "ack"} THEN 1 ELSE 0

\* Where the reader thread may be, and what it leaves behind.
Places ==
    /\ owner \in {"off", "starting", "closing"} => reader = "off"
    /\ reader \in {"off", "open", "retry"} => fd = "closed"
    /\ fd = "closed" => line = <<>> /\ first = "whole"
    /\ reader # "read" => ~held /\ lines = <<>>
    /\ Len(line) + Len(inbox) <= MaxLine + MaxInbox + Written

Ascending(tokens) ==
    \A m, n \in 1..Len(tokens) :
        m < n /\ HasFix(tokens[m]) /\ HasFix(tokens[n]) => tokens[m] < tokens[n]

\* Older fixes are further on their way.
Order ==
    /\ Ascending(line) /\ Ascending(lines)
    /\ \A n \in 1..Len(line) : HasFix(line[n]) => sample < line[n] /\ line[n] <= fixes
    /\ \A m \in 1..Len(lines) : HasFix(lines[m]) => sample < lines[m] /\ lines[m] <= fixes
    /\ \A m \in 1..Len(lines), n \in 1..Len(line) :
          HasFix(lines[m]) /\ HasFix(line[n]) => lines[m] < line[n]
    /\ topic <= sample /\ pubLast <= sample /\ sample <= fixes /\ parsed <= sample
    /\ session <= fixes

\* The unread line has every fix from its first one on.
LineIsGapless ==
    fd = "good" =>
        \A n \in 1..Len(line) : HasFix(line[n]) =>
            \A f \in line[n]..fixes : \E k \in 1..Len(line) : line[k] = f

\* Of the unread line read_loop can make out all but a rest without its head.
InSight(n) == n > 1 \/ first # "rest" \/ held

\* What read_loop has still to store begins after session without a gap.
Gapless ==
    reader = "read" =>
        /\ \A m \in 1..Len(lines) : HasFix(lines[m]) =>
              /\ session < lines[m]
              /\ \A f \in (session + 1)..lines[m] : \E k \in 1..Len(lines) : lines[k] = f
        /\ \A n \in 1..Len(line) : HasFix(line[n]) /\ InSight(n) => session < line[n]
        /\ fd = "good" => \A f \in (session + 1)..fixes :
              \/ \E m \in 1..Len(lines) : lines[m] = f
              \/ \E n \in 1..Len(line) : line[n] = f /\ InSight(n)

UwbInv == Places /\ Order /\ LineIsGapless /\ Gapless

-----------------------------------------------------------------------------
\* The parts of a sequence that the actions take.
LEMMA FrontLast ==
    ASSUME NEW S, NEW s \in Seq(S), s # <<>>
    PROVE  /\ Front(s) \in Seq(S) /\ Len(Front(s)) = Len(s) - 1
           /\ \A n \in 1..(Len(s) - 1) : Front(s)[n] = s[n]
           /\ Last(s) = s[Len(s)] /\ Last(s) \in S /\ Len(s) \in Nat \ {0}
<1>1. Len(s) \in Nat \ {0} /\ \A n \in 1..Len(s) : s[n] \in S
  OBVIOUS
<1>2. Last(s) = s[Len(s)] /\ Last(s) \in S
  BY <1>1 DEF Last
<1>3. Front(s) \in Seq(S) /\ \A n \in 1..(Len(s) - 1) : Front(s)[n] = s[n]
  BY DEF Front
<1>4. Len(Front(s)) = Len(s) - 1
  <2>1. PICK k \in Nat : k = Len(s) - 1
    BY <1>1
  <2>2. Front(s) = SubSeq(s, 1, k)
    BY <2>1 DEF Front
  <2>3. Len(SubSeq(s, 1, k)) = k
    BY <2>1
  <2>4. QED  BY <2>1, <2>2, <2>3
<1>5. QED  BY <1>1, <1>2, <1>3, <1>4

\* Head and tail of a line that is not empty.
LEMMA HeadTail ==
    ASSUME NEW S, NEW s \in Seq(S), s # <<>>
    PROVE  /\ Head(s) = s[1] /\ Head(s) \in S
           /\ Tail(s) \in Seq(S) /\ Len(Tail(s)) = Len(s) - 1 /\ Len(s) \in Nat \ {0}
           /\ \A n \in 1..(Len(s) - 1) : Tail(s)[n] = s[n + 1]
  OBVIOUS

\* Fixes after a later one are after an earlier one, and up to an earlier one
\* up to a later one.
LEMMA LaterFixes ==
    ASSUME NEW s1 \in Int, NEW s2 \in Int, s1 <= s2, NEW t \in Int
    PROVE  /\ (s2 + 1)..t \subseteq (s1 + 1)..t
           /\ \A u \in Int : t <= u => (s2 + 1)..t \subseteq (s2 + 1)..u
  OBVIOUS

\* What a read leaves on the line, and what it takes: everything, or all but
\* the tail of the last line.
LEMMA ReadEffects ==
    ASSUME TypeOK, NEW tokens
    PROVE  /\ ReadsAll(tokens) => tokens = line /\ line' = <<>> /\ first' = "whole"
           /\ ReadsUpToHead(tokens) =>
                 /\ line # <<>> /\ tokens = Front(line) /\ line' = <<Last(line)>>
                 /\ first' \in {"tail", "rest"}
                 /\ Last(line) # Prompt /\ (Len(line) = 1 => first = "whole")
  BY DEF ReadsAll, ReadsUpToHead, IsData

\* The handshake's reads.
LEMMA SeesEffects ==
    ASSUME TypeOK, NEW seen, Sees(seen)
    PROVE  /\ fd = "good"
           /\ \/ line' = <<>> /\ first' = "whole"
              \/ /\ line # <<>> /\ line' = <<Last(line)>> /\ first' \in {"tail", "rest"}
                 /\ Last(line) # Prompt
<1>1. PICK tokens : ReadsAll(tokens) \/ ReadsUpToHead(tokens)
  BY DEF Sees
<1>2. QED  BY <1>1, ReadEffects DEF ReadsAll, ReadsUpToHead

\* The last unread line, if it has a fix, has the newest one.
LEMMA LastIsNewest ==
    ASSUME TypeOK, UwbInv, fd = "good", line # <<>>
    PROVE  /\ Last(line) \in Token /\ (HasFix(Last(line)) => Last(line) = fixes)
           /\ <<Last(line)>> \in Seq(Token) /\ Len(<<Last(line)>>) = 1
           /\ <<Last(line)>>[1] = Last(line)
<1>1. line \in Seq(Token) /\ Len(line) \in Nat \ {0} /\ Last(line) = line[Len(line)]
      /\ Last(line) \in Token /\ fixes \in 0..MaxFixes /\ MaxFixes \in Nat
  BY FrontLast, UwbAssumption DEF TypeOK, UwbAssumption
<1>2. ASSUME HasFix(Last(line)) PROVE Last(line) = fixes
  <2>1. Last(line) \in 1..fixes
    BY <1>1, <1>2 DEF UwbInv, Order, HasFix
  <2>2. PICK k \in 1..Len(line) : line[k] = fixes
    BY <1>1, <1>2, <2>1 DEF UwbInv, LineIsGapless
  <2>3. k < Len(line) => line[k] < Last(line)
    BY <1>1, <1>2, <2>1, <2>2 DEF UwbInv, Order, Ascending, HasFix
  <2>4. QED  BY <1>1, <2>1, <2>2, <2>3
<1>3. QED  BY <1>1, <1>2

\* Extracted takes the tokens in sight: all, or all but the first.
LEMMA ExtractedInSight ==
    ASSUME TypeOK, line # <<>>, NEW tokens \in Seq(Token), Len(tokens) <= Len(line),
           \A n \in 1..Len(tokens) : tokens[n] = line[n],
           tokens = <<>> => first # "rest"
    PROVE  \E d \in 0..1 :
              /\ Extracted(tokens) \in Seq(Token) /\ Len(Extracted(tokens)) = Len(tokens) - d
              /\ \A m \in 1..(Len(tokens) - d) : Extracted(tokens)[m] = line[m + d]
              /\ \A n \in 1..Len(line) : InSight(n) <=> n > d
<1>1. Len(line) \in Nat /\ Len(tokens) \in Nat
  BY DEF TypeOK
<1>2. CASE first = "rest" /\ ~held
  <2>1. Extracted(tokens) = Tail(tokens) /\ tokens # <<>>
    BY <1>2 DEF Extracted
  <2>2. /\ Tail(tokens) \in Seq(Token) /\ Len(Tail(tokens)) = Len(tokens) - 1
        /\ \A m \in 1..(Len(tokens) - 1) : Tail(tokens)[m] = tokens[m + 1]
    BY <2>1, HeadTail
  <2>3. \A n \in 1..Len(line) : InSight(n) <=> n > 1
    BY <1>2 DEF InSight
  <2>4. WITNESS 1 \in 0..1
  <2>5. QED  BY <1>1, <2>1, <2>2, <2>3
<1>3. CASE ~(first = "rest" /\ ~held)
  <2>1. Extracted(tokens) = tokens
    BY <1>3 DEF Extracted
  <2>2. \A n \in 1..Len(line) : InSight(n) <=> n > 0
    BY <1>3 DEF InSight
  <2>3. WITNESS 0 \in 0..1
  <2>4. QED  BY <1>1, <2>1, <2>2
<1>4. QED  BY <1>2, <1>3

\* The first extracted line, if it has a fix, has the next one.
LEMMA HeadIsNext ==
    ASSUME TypeOK, UwbInv, reader = "read", lines # <<>>, HasFix(Head(lines))
    PROVE  Head(lines) = session + 1
<1>1. lines \in Seq(Token) /\ Len(lines) \in Nat \ {0} /\ Head(lines) = lines[1]
      /\ session \in 0..MaxFixes /\ MaxFixes \in Nat
  BY HeadTail, UwbAssumption DEF TypeOK, UwbAssumption
<1>2. lines[1] \in 1..MaxFixes /\ session < lines[1]
      /\ \A f \in (session + 1)..lines[1] : \E k \in 1..Len(lines) : lines[k] = f
  BY <1>1 DEF UwbInv, Gapless, HasFix
<1>3. PICK k \in 1..Len(lines) : lines[k] = session + 1
  BY <1>1, <1>2
<1>4. k > 1 => lines[1] < session + 1
  BY <1>1, <1>2, <1>3 DEF UwbInv, Order, Ascending, HasFix
<1>5. QED  BY <1>1, <1>2, <1>3, <1>4

\* A prompt, or a data line without a fix, changes nothing about the fixes.
LEMMA MarkKeepsText ==
    ASSUME TypeOK, Order, LineIsGapless, Gapless, NEW mark \in {0, NoFix},
           line' = Append(line, mark),
           UNCHANGED <<first, held, lines, session, sample, parsed, topic, pubLast, fd, reader,
                       fixes>>
    PROVE  Order' /\ LineIsGapless' /\ Gapless'
<1>1. /\ line \in Seq(Token) /\ Len(line) \in Nat /\ Len(line') = Len(line) + 1
      /\ \A n \in 1..Len(line) : line'[n] = line[n]
      /\ ~HasFix(line'[Len(line) + 1])
  BY DEF TypeOK, HasFix, NoFix
<1>2. \A n \in 1..Len(line') : HasFix(line'[n]) => n \in 1..Len(line)
  BY <1>1
<1>3. \A n \in 1..Len(line) : InSight(n)' = InSight(n)
  BY DEF InSight
<1>4. Order'
  BY <1>1, <1>2 DEF Order, Ascending
<1>5. LineIsGapless'
  BY <1>1, <1>2 DEF LineIsGapless
<1>6. Gapless'
  BY <1>1, <1>2, <1>3 DEF Gapless
<1>7. QED  BY <1>4, <1>5, <1>6
-----------------------------------------------------------------------------
\* Every variable stays in its type, and the text on its way is in order and
\* without a gap.
THEOREM UwbInvariant == Spec => [](TypeOK /\ UwbInv)
<1>1. Init => TypeOK /\ UwbInv
  <2> SUFFICES ASSUME Init PROVE TypeOK /\ UwbInv
    OBVIOUS
  <2>1. Len(line) = 0 /\ Len(lines) = 0 /\ Len(inbox) = 0 /\ line \in Seq(Token)
        /\ lines \in Seq(Token) /\ inbox \in Seq({"enter", "lec"})
    BY DEF Init
  <2>2. TypeOK
    <3>1. MaxUnplugs \in Nat /\ MaxFixes \in Nat /\ MaxStarts \in Nat /\ MaxLine \in Nat
          /\ MaxInbox \in Nat
      BY UwbAssumption DEF UwbAssumption
    <3>2. responsive \in BOOLEAN /\ plugged \in BOOLEAN /\ held \in BOOLEAN /\ ~held
      BY DEF Init
    <3>3. /\ unplugs \in 0..MaxUnplugs /\ fixes \in 0..MaxFixes /\ session \in 0..MaxFixes
          /\ sample \in 0..MaxFixes /\ pubLast \in 0..MaxFixes /\ topic \in 0..MaxFixes
          /\ parsed \in 0..MaxFixes /\ pubs \in Nat /\ starts \in 0..MaxStarts
      BY <3>1 DEF Init, NoData
    <3>4. Len(inbox) <= MaxInbox /\ Len(line) <= MaxText /\ Len(lines) <= MaxText
      BY <2>1, <3>1 DEF MaxText
    <3>5. QED  BY <2>1, <3>2, <3>3, <3>4 DEF Init, TypeOK
  <2>3. UwbInv
    BY <2>1, UwbAssumption
    DEF Init, UwbInv, Places, Written, Order, Ascending, LineIsGapless, Gapless, UwbAssumption, NoData
  <2>4. QED  BY <2>2, <2>3
<1>2. TypeOK /\ UwbInv /\ [Next]_vars => TypeOK' /\ UwbInv'
  <2> SUFFICES ASSUME TypeOK, UwbInv, [Next]_vars PROVE TypeOK' /\ UwbInv'
    OBVIOUS
  <2>0. /\ MaxFixes \in Nat /\ MaxLine \in Nat \ {0} /\ MaxInbox \in Nat \ {0}
        /\ line \in Seq(Token) /\ Len(line) \in Nat
        /\ lines \in Seq(Token) /\ Len(lines) \in Nat
        /\ inbox \in Seq({"enter", "lec"}) /\ Len(inbox) \in Nat
        /\ fixes \in 0..MaxFixes /\ session \in 0..MaxFixes /\ sample \in 0..MaxFixes
        /\ topic \in 0..MaxFixes /\ pubLast \in 0..MaxFixes /\ parsed \in 0..MaxFixes
    BY UwbAssumption DEF UwbAssumption, TypeOK
  <2>01. /\ Written \in {0, 1, 2} /\ Written' \in {0, 1, 2}
         /\ reader' = reader => Written' = Written
    <3>1. Written \in {0, 1, 2}
      BY DEF Written
    <3>2. Written' \in {0, 1, 2}
      BY DEF Written
    <3>3. ASSUME reader' = reader PROVE Written' = Written
      BY <3>3 DEF Written
    <3>4. QED  BY <3>1, <3>2, <3>3
  <2>02. MaxText = MaxLine + MaxInbox + 2
    BY DEF MaxText
  <2>00. /\ \A n \in 1..Len(line) : line[n] \in Token
         /\ \A n \in 1..Len(lines) : lines[n] \in Token
         /\ Token \subseteq Int
    BY <2>0 DEF Token, NoFix
  <2> USE <2>0, <2>00
  <2>1. CASE ReaderExit \/ OpenFails \/ IOError \/ HandshakeTimeout
    <3>1. /\ reader' \in {"off", "retry"}
          /\ fd' = "closed" /\ line' = <<>> /\ first' = "whole" /\ held' = FALSE
          /\ session' = 0
          /\ UNCHANGED <<responsive, plugged, unplugs, dev, inbox, fixes, lines, sample,
                         parsed, publisher, assembly>>
          /\ owner \notin {"off", "starting", "closing"}
      BY <2>1
      DEF ReaderExit, OpenFails, IOError, HandshakeTimeout, Throw, Close, NoData, TypeOK,
          UwbInv, Places
    <3>2. lines = <<>>
      BY <2>1 DEF ReaderExit, OpenFails, IOError, HandshakeTimeout, UwbInv, Places
    <3>3. Len(line') = 0 /\ Len(lines') = 0 /\ line' \in Seq(Token)
      BY <3>1, <3>2
    <3>4. TypeOK'
      <4>1. Len(line') <= MaxText /\ session' \in 0..MaxFixes
        BY <2>02, <3>1, <3>3
      <4>2. ~held' /\ held' \in BOOLEAN
        BY <3>1
      <4>3. QED  BY <3>1, <3>3, <4>1, <4>2 DEF TypeOK, publisher, assembly
    <3>5. Places'
      <4>1. Len(line') + Len(inbox') <= MaxLine + MaxInbox + Written'
        BY <2>01, <3>1, <3>3 DEF TypeOK
      <4>2. QED  BY <3>1, <3>2, <3>3, <4>1 DEF UwbInv, Places, TypeOK, assembly
    <3>6. Order' /\ LineIsGapless' /\ Gapless'
      BY <3>1, <3>3
      DEF UwbInv, Order, Ascending, LineIsGapless, Gapless, publisher
    <3>7. QED  BY <3>4, <3>5, <3>6 DEF UwbInv
  <2>2. CASE Command
    <3>1. /\ inbox # <<>> /\ inbox' = Tail(inbox)
          /\ dev' \in {"silent", "half", "prompt", "stream"}
          /\ line' = line \/ (fd = "good" /\ line' = Append(line, Prompt))
          /\ UNCHANGED <<responsive, plugged, unplugs, first, fixes, serial, publisher,
                         assembly>>
      BY <2>2 DEF Command, Prints, TypeOK
    <3>2. /\ inbox' \in Seq({"enter", "lec"}) /\ Len(inbox') = Len(inbox) - 1
          /\ Len(line') <= Len(line) + 1 /\ line' \in Seq(Token) /\ Len(line') >= Len(line)
      <4>1. Prompt \in Token
        BY DEF Token, Prompt, NoFix
      <4>2. inbox' \in Seq({"enter", "lec"}) /\ Len(inbox') = Len(inbox) - 1
        BY <3>1, HeadTail
      <4>3. Append(line, Prompt) \in Seq(Token) /\ Len(Append(line, Prompt)) = Len(line) + 1
        BY <4>1
      <4>4. Len(line') <= Len(line) + 1 /\ line' \in Seq(Token) /\ Len(line') >= Len(line)
        <5>1. CASE line' = line
          BY <5>1
        <5>2. CASE line' = Append(line, Prompt)
          BY <4>3, <5>2
        <5>3. QED  BY <3>1, <5>1, <5>2
      <4>5. QED  BY <4>2, <4>4
    <3>3. TypeOK'
      <4>1. Len(inbox') <= MaxInbox /\ Len(line') <= MaxText
        <5>1. Len(line) + Len(inbox) <= MaxLine + MaxInbox + Written
          BY DEF UwbInv, Places
        <5>2. QED  BY <2>01, <2>02, <3>2, <5>1 DEF TypeOK
      <4>2. line' = <<>> => line = <<>>
        BY <3>2
      <4>3. held' = held
        BY <3>1 DEF serial, text
      <4>4. QED
        BY <3>1, <3>2, <4>1, <4>2, <4>3 DEF TypeOK, serial, text, publisher, assembly
    <3>4. Places'
      <4>1. Len(line) + Len(inbox) <= MaxLine + MaxInbox + Written /\ reader' = reader
        BY <3>1 DEF UwbInv, Places, serial
      <4>2. Len(line') + Len(inbox') <= MaxLine + MaxInbox + Written'
        BY <2>01, <3>2, <4>1
      <4>3. QED  BY <3>1, <3>2, <4>2 DEF UwbInv, Places, serial, text, assembly
    <3>5. CASE line' = line
      BY <3>1, <3>3, <3>4, <3>5
      DEF UwbInv, Order, Ascending, LineIsGapless, Gapless, InSight, serial, text, publisher
    <3>6. CASE fd = "good" /\ line' = Append(line, Prompt)
      <4>1. Order' /\ LineIsGapless' /\ Gapless'
        BY <3>1, <3>6, MarkKeepsText DEF UwbInv, serial, text, publisher, Prompt
      <4>2. QED  BY <3>3, <3>4, <4>1 DEF UwbInv
    <3>7. QED  BY <3>1, <3>5, <3>6
  <2>3. CASE PrintLine
    <3>1. /\ fd = "good" /\ Len(line) < MaxLine
          /\ \/ fixes < MaxFixes /\ fixes' = fixes + 1 /\ line' = Append(line, fixes + 1)
             \/ UNCHANGED fixes /\ line' = Append(line, NoFix)
          /\ UNCHANGED <<responsive, plugged, unplugs, dev, inbox, first, serial, publisher,
                         assembly>>
      BY <2>3 DEF PrintLine
    <3>2. Len(line') = Len(line) + 1 /\ line' \in Seq(Token) /\ fixes' \in 0..MaxFixes
      <4>1. NoFix \in Token /\ (fixes < MaxFixes => fixes + 1 \in Token)
        BY DEF Token, NoFix
      <4>2. fixes' \in 0..MaxFixes
        BY <3>1
      <4>3. CASE fixes < MaxFixes /\ line' = Append(line, fixes + 1)
        BY <4>1, <4>2, <4>3
      <4>4. CASE line' = Append(line, NoFix)
        BY <4>1, <4>2, <4>4
      <4>5. QED  BY <3>1, <4>3, <4>4
    <3>3. TypeOK'
      <4>1. held' = held
        BY <3>1 DEF serial, text
      <4>2. Len(line') <= MaxText
        BY <2>02, <3>1, <3>2
      <4>3. QED  BY <3>1, <3>2, <4>1, <4>2 DEF TypeOK, serial, text, publisher, assembly
    <3>4. Places'
      <4>1. Len(line') + Len(inbox') <= MaxLine + MaxInbox + Written'
        BY <2>01, <3>1, <3>2 DEF TypeOK
      <4>2. QED  BY <3>1, <4>1 DEF UwbInv, Places, serial, text, assembly
    <3>5. CASE UNCHANGED fixes /\ line' = Append(line, NoFix)
      <4>1. Order' /\ LineIsGapless' /\ Gapless'
        BY <3>1, <3>5, MarkKeepsText DEF UwbInv, serial, text, publisher
      <4>2. QED  BY <3>3, <3>4, <4>1 DEF UwbInv
    <3>6. CASE fixes < MaxFixes /\ fixes' = fixes + 1 /\ line' = Append(line, fixes + 1)
      <4>1. /\ UNCHANGED <<first, held, lines, session, sample, parsed, topic, pubLast, fd,
                           reader>>
            /\ \A n \in 1..Len(line) : line'[n] = line[n]
            /\ line'[Len(line) + 1] = fixes + 1 /\ HasFix(fixes + 1)
        BY <3>1, <3>6 DEF serial, text, publisher, HasFix
      <4>2. Order'
        BY <3>2, <3>6, <4>1 DEF UwbInv, Order, Ascending, HasFix
      <4>3. LineIsGapless'
        <5> SUFFICES ASSUME NEW n \in 1..(Len(line) + 1), HasFix(line'[n]),
                            NEW f \in line'[n]..(fixes + 1)
                     PROVE  \E k \in 1..(Len(line) + 1) : line'[k] = f
          BY <3>2, <3>6, <4>1 DEF LineIsGapless, HasFix
        <5>1. CASE f = fixes + 1
          BY <4>1, <5>1
        <5>2. CASE f # fixes + 1
          <6>1. n \in 1..Len(line) /\ line[n] = line'[n] /\ f \in line[n]..fixes
            BY <4>1, <5>2 DEF HasFix
          <6>2. PICK k \in 1..Len(line) : line[k] = f
            BY <3>1, <6>1 DEF UwbInv, LineIsGapless
          <6>3. QED  BY <4>1, <6>2
        <5>3. QED  BY <5>1, <5>2
      <4>4. Gapless'
        <5> SUFFICES ASSUME reader = "read" PROVE Gapless'
          BY <4>1 DEF Gapless
        <5>1. InSight(Len(line) + 1) /\ \A n \in 1..(Len(line) + 1) : InSight(n)' = InSight(n)
          <6>1. Len(line) = 0 => first = "whole"
            BY DEF TypeOK
          <6>2. QED  BY <4>1, <6>1 DEF InSight
        <5>2. \A n \in 1..(Len(line) + 1) : HasFix(line'[n]) /\ InSight(n) => session < line'[n]
          <6>1. \A n \in 1..Len(line) : HasFix(line[n]) /\ InSight(n) => session < line[n]
            BY DEF UwbInv, Gapless
          <6>2. session < fixes + 1
            BY DEF UwbInv, Order
          <6>3. QED  BY <4>1, <6>1, <6>2
        <5>3. ASSUME NEW f \in (session + 1)..(fixes + 1)
              PROVE  \/ \E m \in 1..Len(lines) : lines[m] = f
                     \/ \E n \in 1..(Len(line) + 1) : line'[n] = f /\ InSight(n)
          <6>1. CASE f = fixes + 1
            BY <4>1, <5>1, <6>1
          <6>2. CASE f # fixes + 1
            <7>1. f \in (session + 1)..fixes
              BY <6>2
            <7>2. \/ \E m \in 1..Len(lines) : lines[m] = f
                  \/ \E n \in 1..Len(line) : line[n] = f /\ InSight(n)
              BY <3>1, <7>1 DEF UwbInv, Gapless
            <7>3. QED  BY <4>1, <7>2
          <6>3. QED  BY <6>1, <6>2
        <5>4. QED
          BY <3>2, <3>6, <4>1, <5>1, <5>2, <5>3 DEF UwbInv, Gapless, HasFix
      <4>5. QED  BY <3>3, <3>4, <4>2, <4>3, <4>4 DEF UwbInv
    <3>7. QED  BY <3>1, <3>5, <3>6
  <2>4. CASE Unplug
    <3>1. /\ plugged' = FALSE /\ unplugs' = unplugs + 1 /\ unplugs < MaxUnplugs
          /\ dev' = "silent" /\ inbox' = <<>> /\ line' = <<>> /\ first' = "whole"
          /\ fd' \in IF fd = "good" THEN {"dead", "hung"} ELSE {fd}
          /\ UNCHANGED <<responsive, fixes, reader, text, sample, parsed, publisher,
                         assembly>>
      BY <2>4 DEF Unplug
    <3>2. Len(line') = 0 /\ Len(inbox') = 0 /\ line' \in Seq(Token)
          /\ inbox' \in Seq({"enter", "lec"}) /\ unplugs' \in 0..MaxUnplugs
      BY <3>1, UwbAssumption DEF UwbAssumption, TypeOK
    <3>3. held => fd' \in {"dead", "hung"}
      BY <3>1 DEF TypeOK, UwbInv, Places
    <3>4. TypeOK'
      <4>1. Len(line') <= MaxText /\ Len(inbox') <= MaxInbox
            /\ fd' \in {"closed", "good", "dead", "hung"}
        BY <2>02, <3>1, <3>2 DEF TypeOK
      <4>2. held' = held
        BY <3>1 DEF text
      <4>3. plugged' \in BOOLEAN
        BY <3>1
      <4>4. QED  BY <3>1, <3>2, <3>3, <4>1, <4>2, <4>3 DEF TypeOK, publisher, assembly, text
    <3>5. Places'
      <4>1. Len(line') + Len(inbox') <= MaxLine + MaxInbox + Written'
        <5>1. Len(line') = 0 /\ Len(inbox') = 0
          BY <3>2
        <5>2. \A w \in {0, 1, 2} : 0 + 0 <= MaxLine + MaxInbox + w
          OBVIOUS
        <5>3. QED  BY <2>01, <5>1, <5>2
      <4>2. QED  BY <3>1, <3>2, <4>1 DEF UwbInv, Places, assembly, text
    <3>6. Order' /\ LineIsGapless' /\ Gapless'
      BY <3>1, <3>2
      DEF UwbInv, Order, Ascending, LineIsGapless, Gapless, InSight, publisher, text
    <3>7. QED  BY <3>4, <3>5, <3>6 DEF UwbInv
  <2>5. CASE OpenPort
    <3>1. /\ reader = "open" /\ owner # "stopping" /\ fd' = "good" /\ reader' = "hello"
          /\ dev' \in {dev, "silent"}
          /\ UNCHANGED <<responsive, plugged, unplugs, inbox, line, first, fixes, text,
                         sample, parsed, publisher, assembly>>
      BY <2>5 DEF OpenPort, Stopping
    <3>2. line = <<>> /\ Len(line) = 0 /\ ~held
      BY <3>1 DEF UwbInv, Places
    <3>3. TypeOK'
      BY <3>1, <3>2 DEF TypeOK, publisher, assembly, text
    <3>4. Places'
      <4>1. Len(line') + Len(inbox') <= MaxLine + MaxInbox + Written'
        BY <2>01, <3>1, <3>2 DEF TypeOK
      <4>2. QED  BY <3>1, <3>2, <4>1 DEF UwbInv, Places, assembly, text
    <3>5. Order' /\ LineIsGapless' /\ Gapless'
      BY <3>1, <3>2
      DEF UwbInv, Order, Ascending, LineIsGapless, Gapless, publisher, text
    <3>6. QED  BY <3>3, <3>4, <3>5 DEF UwbInv
  <2>6. CASE Hello \/ AwaitPrompt \/ AwaitAck
    <3>1. /\ reader \in {"hello", "wait", "ack"} /\ reader' \in {"wait", "ack", "read"} \cup Writing
          /\ (session' = session /\ reader' # "read") \/ StartsSession
          /\ UNCHANGED <<responsive, plugged, unplugs, dev, inbox, fixes, fd, held,
                         lines, sample, parsed, publisher, assembly>>
      BY <2>6 DEF Hello, AwaitPrompt, AwaitAck, Writing, text
    <3>2. /\ fd = "good"
          /\ \/ line' = <<>> /\ first' = "whole"
             \/ /\ line # <<>> /\ line' = <<Last(line)>> /\ first' \in {"tail", "rest"}
                /\ Last(line) # Prompt
      <4>1. PICK seen : Sees(seen)
        BY <2>6 DEF Hello, AwaitPrompt, AwaitAck
      <4>2. QED  BY <4>1, SeesEffects
    <3>3. lines = <<>> /\ Len(lines) = 0 /\ ~held
      BY <3>1 DEF UwbInv, Places
    <3>4. /\ line' \in Seq(Token) /\ Len(line') <= 1 /\ first' \in {"whole", "tail", "rest"}
          /\ line' = <<>> => first' = "whole"
          /\ \A n \in 1..Len(line') :
                /\ line # <<>> /\ n = 1 /\ line'[n] = Last(line) /\ first' # "whole"
                /\ Last(line) \in Token /\ Last(line) # Prompt
                /\ HasFix(Last(line)) => Last(line) = fixes
      <4>1. CASE line' = <<>> /\ first' = "whole"
        BY <4>1
      <4>2. CASE line # <<>> /\ line' = <<Last(line)>> /\ first' \in {"tail", "rest"}
        <5>1. line' \in Seq(Token) /\ Len(line') = 1 /\ line'[1] = Last(line)
              /\ Last(line) \in Token /\ (HasFix(Last(line)) => Last(line) = fixes)
          BY <3>2, <4>2, LastIsNewest
        <5>2. QED  BY <3>2, <4>2, <5>1
      <4>3. QED  BY <3>2, <4>1, <4>2
    <3>5. session' \in 0..fixes /\ (reader' = "read" => StartsSession)
      <4>1. CASE session' = session /\ reader' # "read"
        BY <4>1 DEF UwbInv, Order
      <4>2. CASE StartsSession
        <5>1. ASSUME first' = "tail", Head(line') # NoFix PROVE fixes \in Nat \ {0}
          <6>1. /\ line # <<>> /\ line' = <<Last(line)>> /\ Last(line) # Prompt
                /\ Last(line) # NoFix
            BY <3>2, <5>1
          <6>2. HasFix(Last(line)) /\ Last(line) = fixes
            BY <3>2, <6>1, LastIsNewest DEF Token, HasFix, NoFix, Prompt
          <6>3. QED  BY <6>2 DEF HasFix
        <5>2. session \in 0..fixes
          BY DEF UwbInv, Order
        <5>3. QED  BY <4>2, <5>1, <5>2 DEF StartsSession
      <4>3. QED  BY <3>1, <4>1, <4>2
    <3>6. inbox' = inbox /\ Len(inbox) <= MaxInbox
      BY <3>1 DEF TypeOK
    <3>7. TypeOK'
      <4>1. Len(line') <= MaxText /\ session' \in 0..MaxFixes
        BY <2>02, <3>4, <3>5
      <4>2. held' = held
        BY <3>1
      <4>3. QED  BY <3>1, <3>3, <3>4, <3>6, <4>1, <4>2 DEF TypeOK, publisher, assembly
    <3>8. Places'
      <4>1. Len(line') + Len(inbox') <= MaxLine + MaxInbox + Written'
        BY <2>01, <3>4, <3>6
      <4>2. QED  BY <3>1, <3>2, <3>3, <4>1 DEF UwbInv, Places, Writing, assembly
    <3>9. Order'
      <4>1. \A n \in 1..Len(line') : HasFix(line'[n]) => sample < line'[n] /\ line'[n] <= fixes
        BY <3>4, FrontLast DEF UwbInv, Order, HasFix
      <4>2. Ascending(line') /\ Ascending(lines')
        BY <3>1, <3>3, <3>4 DEF Ascending
      <4>3. QED  BY <3>1, <3>3, <3>5, <4>1, <4>2 DEF UwbInv, Order, publisher
    <3>10. LineIsGapless'
      BY <3>1, <3>4 DEF LineIsGapless, HasFix
    <3>11. ASSUME reader' = "read" PROVE Gapless'
      <4>1. ASSUME NEW n \in 1..Len(line'), HasFix(line'[n]), InSight(n)'
            PROVE  first' = "tail" /\ session' = fixes - 1 /\ line'[n] = fixes
        <5>1. n = 1 /\ line'[1] = Last(line) /\ Last(line) = fixes /\ first' = "tail"
          BY <3>1, <3>3, <3>4, <4>1 DEF InSight
        <5>2. Head(line') = Last(line) /\ Last(line) # NoFix
          BY <3>4, <4>1, <5>1 DEF HasFix, NoFix
        <5>3. QED  BY <3>5, <3>11, <5>1, <5>2 DEF StartsSession
      <4>2. ASSUME NEW f \in (session' + 1)..fixes
            PROVE  \E n \in 1..Len(line') : line'[n] = f /\ InSight(n)'
        <5>1. first' = "tail" /\ Head(line') # NoFix /\ session' = fixes - 1
          <6>1. session' # fixes
            BY <4>2
          <6>2. QED  BY <3>5, <3>11, <6>1 DEF StartsSession
        <5>2. line # <<>> /\ line' = <<Last(line)>> /\ Last(line) # Prompt /\ Last(line) # NoFix
          BY <3>2, <5>1
        <5>3. Last(line) = fixes /\ line'[1] = fixes /\ Len(line') = 1
          BY <3>2, <5>2, LastIsNewest DEF Token, HasFix, NoFix, Prompt
        <5>4. QED  BY <4>2, <5>1, <5>3 DEF InSight
      <4>3. \A n \in 1..Len(line') : HasFix(line'[n]) /\ InSight(n)' => session' < line'[n]
        BY <4>1
      <4>4. Len(lines') = 0 /\ fixes' = fixes
        BY <3>1, <3>3
      <4>5. QED  BY <4>2, <4>3, <4>4 DEF Gapless
    <3>12. Gapless'
      BY <3>11 DEF Gapless
    <3>13. QED  BY <3>7, <3>8, <3>9, <3>10, <3>12 DEF UwbInv
  <2>7. CASE ReadPending
    <3>1. /\ reader = "read" /\ lines = <<>> /\ line # <<>> /\ fd = "good"
          /\ UNCHANGED <<responsive, plugged, unplugs, dev, inbox, fixes, fd, reader,
                         session, sample, parsed, publisher, assembly>>
      BY <2>7 DEF ReadPending, ReadsAll, ReadsUpToHead
    <3>2. Len(lines) = 0 /\ Len(line) \in Nat \ {0}
      BY <3>1
    <3>3. PICK p \in {Len(line) - 1, Len(line)}, d \in 0..1 :
              /\ lines' \in Seq(Token) /\ Len(lines') = p - d
              /\ \A m \in 1..(p - d) : lines'[m] = line[m + d]
              /\ \A n \in 1..Len(line) : InSight(n) <=> n > d
              /\ d <= p
              /\ \/ p = Len(line) /\ line' = <<>> /\ first' = "whole" /\ held' = FALSE
                 \/ /\ p = Len(line) - 1 /\ line' = <<Last(line)>>
                    /\ first' \in {"tail", "rest"} /\ held' = TRUE
      <4>1. CASE \E tokens \in {line} :
                   ReadsAll(tokens) /\ lines' = Extracted(tokens) /\ held' = FALSE
        <5>1. lines' = Extracted(line) /\ held' = FALSE /\ line' = <<>> /\ first' = "whole"
          BY <4>1, ReadEffects
        <5>2. PICK d \in 0..1 :
              /\ Extracted(line) \in Seq(Token) /\ Len(Extracted(line)) = Len(line) - d
              /\ \A m \in 1..(Len(line) - d) : Extracted(line)[m] = line[m + d]
              /\ \A n \in 1..Len(line) : InSight(n) <=> n > d
          BY <3>1, ExtractedInSight
        <5>3. QED  BY <3>2, <5>1, <5>2
      <4>2. CASE \E tokens \in {Front(line)} :
                   ReadsUpToHead(tokens) /\ lines' = Extracted(tokens) /\ held' = TRUE
        <5>1. /\ lines' = Extracted(Front(line)) /\ held' = TRUE /\ line' = <<Last(line)>>
              /\ first' \in {"tail", "rest"} /\ (Len(line) = 1 => first = "whole")
          BY <4>2, ReadEffects
        <5>2. /\ Front(line) \in Seq(Token) /\ Len(Front(line)) = Len(line) - 1
              /\ \A n \in 1..(Len(line) - 1) : Front(line)[n] = line[n]
          BY <3>1, FrontLast
        <5>3. Front(line) = <<>> => first # "rest"
          BY <3>2, <5>1, <5>2
        <5>4. PICK d \in 0..1 :
              /\ Extracted(Front(line)) \in Seq(Token)
              /\ Len(Extracted(Front(line))) = (Len(line) - 1) - d
              /\ \A m \in 1..((Len(line) - 1) - d) : Extracted(Front(line))[m] = line[m + d]
              /\ \A n \in 1..Len(line) : InSight(n) <=> n > d
          BY <3>1, <3>2, <5>2, <5>3, ExtractedInSight
        <5>5. Len(Extracted(Front(line))) \in Nat
          BY <5>4
        <5>6. QED  BY <3>2, <5>1, <5>4, <5>5
      <4>3. QED  BY <2>7, <4>1, <4>2 DEF ReadPending
    <3>4. /\ line' \in Seq(Token) /\ Len(line') = Len(line) - p
          /\ line' = <<>> => first' = "whole"
          /\ \A n \in 1..Len(line') :
                /\ p = Len(line) - 1 /\ n = 1 /\ line'[n] = line[Len(line)]
                /\ HasFix(line[Len(line)]) => line[Len(line)] = fixes
      <4>1. CASE p = Len(line) /\ line' = <<>> /\ first' = "whole"
        <5>1. Len(line') = 0
          BY <4>1
        <5>2. QED  BY <3>2, <4>1, <5>1
      <4>2. CASE /\ p = Len(line) - 1 /\ line' = <<Last(line)>>
                 /\ first' \in {"tail", "rest"} /\ held' = TRUE
        <5>1. /\ line' \in Seq(Token) /\ Len(line') = 1 /\ line'[1] = line[Len(line)]
              /\ HasFix(line[Len(line)]) => line[Len(line)] = fixes
          BY <3>1, <4>2, LastIsNewest, FrontLast
        <5>2. line' # <<>> /\ Len(line') = Len(line) - p
          BY <3>2, <4>2, <5>1
        <5>3. QED  BY <4>2, <5>1, <5>2
      <4>3. QED  BY <3>3, <4>1, <4>2
    <3>41. /\ \A m \in 1..(p - d) : m + d \in 1..Len(line) /\ m + d <= p /\ lines'[m] = line[m + d]
           /\ p - d <= Len(line) /\ Len(line) - p <= 1
      BY <3>2, <3>3
    <3>42. p = Len(line) - 1 => held' = TRUE
      BY <3>2, <3>3
    <3>5. TypeOK'
      <4>1. Len(line') <= MaxText /\ Len(lines') <= MaxText
        <5>1. Len(line) <= MaxText
          BY DEF TypeOK
        <5>2. Len(lines') = p - d /\ Len(line') = Len(line) - p
          BY <3>3, <3>4
        <5>3. QED  BY <2>02, <3>2, <3>41, <5>1, <5>2
      <4>2. held' \in BOOLEAN /\ first' \in {"whole", "tail", "rest"}
            /\ (held' => first' # "whole")
        BY <3>3
      <4>3. QED  BY <3>1, <3>3, <3>4, <4>1, <4>2 DEF TypeOK, publisher, assembly
    <3>6. Places'
      <4>1. Len(line') + Len(inbox') <= MaxLine + MaxInbox + Written'
        <5>1. Len(line) + Len(inbox) <= MaxLine + MaxInbox + Written
          BY DEF UwbInv, Places
        <5>2. QED  BY <2>01, <3>1, <3>2, <3>4, <5>1
      <4>2. QED  BY <3>1, <4>1 DEF UwbInv, Places, assembly
    <3>7. Order'
      <4>0. /\ \A m, n \in 1..Len(line) :
                  m < n /\ HasFix(line[m]) /\ HasFix(line[n]) => line[m] < line[n]
            /\ \A n \in 1..Len(line) : HasFix(line[n]) => sample < line[n] /\ line[n] <= fixes
        BY DEF UwbInv, Order, Ascending
      <4>1. Ascending(line') /\ Ascending(lines')
        <5>1. \A m, n \in 1..(p - d) : m < n /\ HasFix(lines'[m]) /\ HasFix(lines'[n])
                 => lines'[m] < lines'[n]
          <6>1. \A m, n \in 1..(p - d) : m < n => m + d < n + d
            BY <3>2
          <6>2. QED  BY <3>41, <4>0, <6>1
        <5>2. QED  BY <3>3, <3>4, <5>1 DEF Ascending
      <4>2. \A n \in 1..Len(line') : HasFix(line'[n]) => sample < line'[n] /\ line'[n] <= fixes
        <5>1. Len(line) \in 1..Len(line)
          BY <3>2
        <5>2. QED  BY <3>4, <4>0, <5>1
      <4>3. \A m \in 1..Len(lines') : HasFix(lines'[m]) =>
                sample < lines'[m] /\ lines'[m] <= fixes
        BY <3>3, <3>41, <4>0
      <4>4. \A m \in 1..Len(lines'), n \in 1..Len(line') :
                HasFix(lines'[m]) /\ HasFix(line'[n]) => lines'[m] < line'[n]
        <5>1. \A m \in 1..(p - d) : p = Len(line) - 1 => m + d < Len(line)
          BY <3>2, <3>41
        <5>2. Len(line) \in 1..Len(line)
          BY <3>2
        <5>3. QED  BY <3>3, <3>4, <3>41, <4>0, <5>1, <5>2
      <4>5. QED
        BY <3>1, <4>1, <4>2, <4>3, <4>4 DEF UwbInv, Order, publisher
    <3>8. LineIsGapless'
      BY <3>1, <3>4 DEF LineIsGapless, HasFix
    <3>9. Gapless'
      <4>0. /\ \A n \in 1..Len(line) : HasFix(line[n]) /\ InSight(n) => session < line[n]
            /\ \A f \in (session + 1)..fixes : \E n \in 1..Len(line) : line[n] = f /\ InSight(n)
            /\ \A m, n \in 1..Len(line) :
                  m < n /\ HasFix(line[m]) /\ HasFix(line[n]) => line[m] < line[n]
            /\ \A n \in 1..Len(line) : HasFix(line[n]) => line[n] <= fixes
            /\ \A f \in (session + 1)..fixes : HasFix(f)
        <5>1. \A f \in (session + 1)..fixes : HasFix(f)
          BY DEF HasFix
        <5>2. QED  BY <3>1, <3>2, <5>1 DEF UwbInv, Gapless, Order, Ascending
      <4>1. ASSUME NEW f \in (session + 1)..fixes
            PROVE  \/ \E k \in 1..Len(lines') : lines'[k] = f
                   \/ p = Len(line) - 1 /\ line[Len(line)] = f
        <5>1. PICK n \in 1..Len(line) : line[n] = f /\ n > d
          BY <3>3, <4>0
        <5>2. CASE n <= p
          <6>1. n - d \in 1..(p - d) /\ (n - d) + d = n
            BY <3>2, <3>3, <5>1, <5>2
          <6>2. QED  BY <3>3, <5>1, <6>1
        <5>3. CASE n > p
          BY <3>2, <5>1, <5>3
        <5>4. QED  BY <3>2, <5>2, <5>3
      <4>2. ASSUME NEW m \in 1..Len(lines'), HasFix(lines'[m])
            PROVE  /\ session < lines'[m]
                   /\ \A f \in (session + 1)..lines'[m] : \E k \in 1..Len(lines') : lines'[k] = f
        <5>1. /\ m + d \in 1..Len(line) /\ m + d > d /\ m + d <= p /\ lines'[m] = line[m + d]
              /\ HasFix(line[m + d])
          BY <3>2, <3>3, <4>2
        <5>2. session < line[m + d] /\ line[m + d] <= fixes
          BY <3>3, <4>0, <5>1
        <5>3. ASSUME NEW f \in (session + 1)..line[m + d]
              PROVE  \E k \in 1..Len(lines') : lines'[k] = f
          <6>1. f \in (session + 1)..fixes /\ HasFix(f) /\ f <= line[m + d]
            BY <4>0, <5>1, <5>2 DEF HasFix
          <6>2. p = Len(line) - 1 /\ line[Len(line)] = f => line[m + d] < f
            BY <3>2, <4>0, <5>1, <6>1
          <6>3. line[m + d] \in Int /\ f \in Int
            BY <5>1, <6>1 DEF HasFix
          <6>4. QED  BY <4>1, <6>1, <6>2, <6>3
        <5>4. QED  BY <5>1, <5>2, <5>3
      <4>3. \A n \in 1..Len(line') : InSight(n)'
        BY <3>4, <3>42 DEF InSight
      <4>4. ASSUME NEW n \in 1..Len(line'), HasFix(line'[n]) PROVE session < line'[n]
        <5>1. p = Len(line) - 1 /\ line'[n] = line[Len(line)]
          BY <3>4
        <5>2. Len(line) \in 1..Len(line) /\ Len(line) > d
          BY <3>2, <3>3, <5>1
        <5>3. QED  BY <3>3, <4>0, <4>4, <5>1, <5>2
      <4>5. ASSUME NEW f \in (session + 1)..fixes
            PROVE  \/ \E m \in 1..Len(lines') : lines'[m] = f
                   \/ \E n \in 1..Len(line') : line'[n] = f /\ InSight(n)'
        <5>1. CASE p = Len(line) - 1 /\ line[Len(line)] = f
          <6>1. 1 \in 1..Len(line')
            BY <3>2, <3>4, <5>1
          <6>2. QED  BY <3>4, <4>3, <5>1, <6>1
        <5>2. QED  BY <4>1, <5>1
      <4>6. session' = session /\ fixes' = fixes
        BY <3>1
      <4>7. QED  BY <4>2, <4>4, <4>5, <4>6 DEF Gapless
    <3>10. QED  BY <3>5, <3>6, <3>7, <3>8, <3>9 DEF UwbInv
  <2>8. CASE ParseLine
    <3>1. /\ reader = "read" /\ lines # <<>> /\ lines' = Tail(lines)
          /\ IF HasFix(Head(lines))
             THEN sample' = Head(lines) /\ session' = sample' /\ parsed' = parsed + 1
             ELSE UNCHANGED <<sample, session, parsed>>
          /\ UNCHANGED <<device, fd, reader, held, publisher, assembly>>
      BY <2>8 DEF ParseLine
    <3>2. /\ lines' \in Seq(Token) /\ Len(lines') = Len(lines) - 1 /\ Head(lines) = lines[1]
          /\ \A n \in 1..(Len(lines) - 1) : lines'[n] = lines[n + 1]
          /\ Len(lines) \in Nat \ {0}
      BY <3>1, HeadTail
    <3>3. UNCHANGED <<responsive, plugged, unplugs, dev, inbox, line, first, fixes, fd, reader,
                      held, pub, pubLast, topic, pubs, owner, starts>>
      BY <3>1 DEF device, publisher, assembly
    <3>4. /\ sample' \in 0..fixes /\ session' \in 0..fixes /\ parsed' \in 0..MaxFixes
          /\ sample <= sample' /\ session <= session' /\ parsed' <= sample'
          /\ \A m \in 2..Len(lines) : HasFix(lines[m]) => sample' < lines[m] /\ session' < lines[m]
          /\ \A n \in 1..Len(line) : HasFix(line[n]) => sample' < line[n]
          /\ \A n \in 1..Len(line) : HasFix(line[n]) /\ InSight(n) => session' < line[n]
          /\ \A f \in (session' + 1)..fixes : lines[1] # f
      <4>0. /\ \A m \in 1..Len(lines) : HasFix(lines[m]) =>
                  sample < lines[m] /\ session < lines[m] /\ lines[m] <= fixes
            /\ \A n \in 1..Len(line) : HasFix(line[n]) => sample < line[n]
            /\ \A n \in 1..Len(line) : HasFix(line[n]) /\ InSight(n) => session < line[n]
            /\ sample <= fixes /\ session <= fixes /\ parsed <= sample
        BY <3>1 DEF UwbInv, Order, Gapless
      <4>1. CASE HasFix(lines[1])
        <5>1. /\ lines[1] \in 1..MaxFixes /\ sample' = lines[1] /\ session' = lines[1]
              /\ parsed' = parsed + 1
          BY <3>1, <3>2, <4>1 DEF HasFix
        <5>2. \A m \in 2..Len(lines) : HasFix(lines[m]) => lines[1] < lines[m]
          BY <3>2, <4>1 DEF UwbInv, Order, Ascending
        <5>3. \A n \in 1..Len(line) : HasFix(line[n]) => lines[1] < line[n]
          BY <3>2, <4>1 DEF UwbInv, Order
        <5>4. sample < lines[1] /\ session < lines[1] /\ lines[1] <= fixes
          BY <3>2, <4>0, <4>1
        <5>5. QED  BY <4>0, <5>1, <5>2, <5>3, <5>4
      <4>2. CASE ~HasFix(lines[1])
        <5>1. UNCHANGED <<sample, session, parsed>>
          BY <3>1, <3>2, <4>2
        <5>2. \A f \in (session + 1)..fixes : lines[1] # f
          BY <4>2 DEF HasFix
        <5>3. QED  BY <4>0, <5>1, <5>2
      <4>3. QED  BY <4>1, <4>2
    <3>5. TypeOK'
      <4>1. Len(lines') <= MaxText
        <5>1. Len(lines) <= MaxText
          BY DEF TypeOK
        <5>2. QED  BY <2>02, <3>2, <5>1
      <4>2. /\ sample' \in 0..MaxFixes /\ session' \in 0..MaxFixes
        BY <3>4
      <4>3. held' = held /\ plugged' = plugged /\ responsive' = responsive
        BY <3>3
      <4>4. QED  BY <3>2, <3>3, <3>4, <4>1, <4>2, <4>3 DEF TypeOK
    <3>6. Places'
      <4>1. Len(line') + Len(inbox') <= MaxLine + MaxInbox + Written'
        BY <2>01, <3>3 DEF UwbInv, Places
      <4>2. QED  BY <3>1, <3>3, <4>1 DEF UwbInv, Places
    <3>7. Order' /\ LineIsGapless'
      <4>1. Ascending(line') /\ Ascending(lines')
        <5>1. \A m, n \in 1..Len(lines) :
                 m < n /\ HasFix(lines[m]) /\ HasFix(lines[n]) => lines[m] < lines[n]
          BY DEF UwbInv, Order, Ascending
        <5>2. ASSUME NEW m \in 1..(Len(lines) - 1), NEW n \in 1..(Len(lines) - 1), m < n,
                     HasFix(lines[m + 1]), HasFix(lines[n + 1])
              PROVE  lines[m + 1] < lines[n + 1]
          <6>1. m + 1 \in 1..Len(lines) /\ n + 1 \in 1..Len(lines) /\ m + 1 < n + 1
            BY <5>2
          <6>2. QED  BY <5>1, <5>2, <6>1
        <5>3. QED  BY <3>2, <3>3, <5>2 DEF UwbInv, Order, Ascending
      <4>2. \A m \in 1..(Len(lines) - 1) : HasFix(lines[m + 1]) =>
                sample' < lines[m + 1] /\ lines[m + 1] <= fixes
        BY <3>2, <3>4 DEF UwbInv, Order
      <4>3. \A m \in 1..(Len(lines) - 1), n \in 1..Len(line) :
                HasFix(lines[m + 1]) /\ HasFix(line[n]) => lines[m + 1] < line[n]
        <5>1. \A m \in 1..(Len(lines) - 1) : m + 1 \in 1..Len(lines)
          BY <3>2
        <5>2. QED  BY <5>1 DEF UwbInv, Order
      <4>4. LineIsGapless'
        BY <3>3 DEF UwbInv, LineIsGapless
      <4>5. topic <= sample' /\ pubLast <= sample'
        BY <3>4 DEF UwbInv, Order
      <4>6. QED
        BY <3>2, <3>3, <3>4, <4>1, <4>2, <4>3, <4>4, <4>5 DEF UwbInv, Order
    <3>8. Gapless'
      <4>0. session \in Int /\ session' \in Int /\ fixes \in Int /\ session <= session'
        <5>1. session \in Int /\ fixes \in Int
          OBVIOUS
        <5>2. session' \in 0..fixes
          BY <3>4
        <5>3. session' \in Int
          BY <5>1, <5>2
        <5>4. QED  BY <3>4, <5>1, <5>3
      <4>1. ASSUME NEW k \in 1..Len(lines), NEW f \in (session' + 1)..fixes, lines[k] = f
            PROVE  k - 1 \in 1..(Len(lines) - 1) /\ lines'[k - 1] = f
        <5>1. k # 1
          BY <3>4, <4>1
        <5>2. k - 1 \in 1..(Len(lines) - 1) /\ (k - 1) + 1 = k
          BY <5>1
        <5>3. QED  BY <3>2, <4>1, <5>2
      <4>2. ASSUME NEW m \in 1..(Len(lines) - 1), HasFix(lines[m + 1])
            PROVE  /\ session' < lines[m + 1]
                   /\ \A f \in (session' + 1)..lines[m + 1] :
                         \E k \in 1..(Len(lines) - 1) : lines'[k] = f
        <5>1. session' < lines[m + 1] /\ lines[m + 1] <= fixes
          BY <3>2, <3>4, <4>2 DEF UwbInv, Order
        <5>2. \A f \in (session + 1)..lines[m + 1] : \E k \in 1..Len(lines) : lines[k] = f
          BY <3>1, <3>2, <4>2 DEF UwbInv, Gapless
        <5>3. ASSUME NEW f \in (session' + 1)..lines[m + 1]
              PROVE  \E k \in 1..(Len(lines) - 1) : lines'[k] = f
          <6>1. f \in (session + 1)..lines[m + 1] /\ f \in (session' + 1)..fixes
            <7>1. lines[m + 1] \in Int /\ lines[m + 1] <= fixes
              BY <4>2, <5>1 DEF HasFix
            <7>2. /\ (session' + 1)..lines[m + 1] \subseteq (session + 1)..lines[m + 1]
                  /\ (session' + 1)..lines[m + 1] \subseteq (session' + 1)..fixes
              BY <4>0, <7>1, LaterFixes
            <7>3. QED  BY <7>2
          <6>2. PICK k \in 1..Len(lines) : lines[k] = f
            BY <5>2, <6>1
          <6>3. QED  BY <4>1, <6>1, <6>2
        <5>4. QED  BY <5>1, <5>3
      <4>3. ASSUME fd = "good", NEW f \in (session' + 1)..fixes
            PROVE  \/ \E m \in 1..(Len(lines) - 1) : lines'[m] = f
                   \/ \E n \in 1..Len(line) : line[n] = f /\ InSight(n)
        <5>1. f \in (session + 1)..fixes
          <6>1. (session' + 1)..fixes \subseteq (session + 1)..fixes
            BY <4>0, LaterFixes
          <6>2. QED  BY <6>1
        <5>2. \/ \E m \in 1..Len(lines) : lines[m] = f
              \/ \E n \in 1..Len(line) : line[n] = f /\ InSight(n)
          BY <3>1, <4>3, <5>1 DEF UwbInv, Gapless
        <5>3. QED  BY <4>1, <5>2
      <4>4. \A n \in Nat : InSight(n)' = InSight(n)
        BY <3>3 DEF InSight
      <4>5. \A m \in 1..Len(lines') : HasFix(lines'[m]) =>
              /\ session' < lines'[m]
              /\ \A f \in (session' + 1)..lines'[m] : \E k \in 1..Len(lines') : lines'[k] = f
        BY <3>2, <4>2
      <4>6. \A n \in 1..Len(line') : HasFix(line'[n]) /\ InSight(n)' => session' < line'[n]
        BY <3>3, <3>4, <4>4
      <4>7. fd' = "good" => \A f \in (session' + 1)..fixes' :
              \/ \E m \in 1..Len(lines') : lines'[m] = f
              \/ \E n \in 1..Len(line') : line'[n] = f /\ InSight(n)'
        BY <3>2, <3>3, <4>3, <4>4
      <4>8. QED  BY <4>5, <4>6, <4>7 DEF Gapless
    <3>9. QED  BY <3>5, <3>6, <3>7, <3>8 DEF UwbInv
  <2>9. CASE \/ Plug \/ Retry \/ PublishLoop \/ Poll \/ StartPublisher \/ StartReader
             \/ StopReader \/ StopPublisher \/ Stopped \/ Horizon \/ UNCHANGED vars
    <3>1. UNCHANGED <<responsive, unplugs, dev, inbox, line, first, fixes, fd, held, lines,
                      session, sample, parsed>>
      BY <2>9
      DEF Plug, Retry, PublishLoop, Poll, StartPublisher, StartReader, StopReader,
          StopPublisher, Stopped, Horizon, vars, device, serial, text
    <3>2. \/ UNCHANGED <<reader, owner>>
          \/ reader = "retry" /\ reader' = "open" /\ UNCHANGED owner
          \/ owner = "starting" /\ owner' = "on" /\ reader' = "open"
          \/ /\ UNCHANGED reader
             /\ \/ owner = "off" /\ owner' = "starting"
                \/ owner = "on" /\ owner' = "stopping"
                \/ owner = "stopping" /\ owner' = "closing" /\ reader = "off"
                \/ owner = "closing" /\ owner' = "off"
      BY <2>9
      DEF Plug, Retry, PublishLoop, Poll, StartPublisher, StartReader, StopReader,
          StopPublisher, Stopped, Horizon, vars, serial, assembly
    <3>3. \/ UNCHANGED <<topic, pubLast>>
          \/ topic' = sample /\ pubLast' = sample
          \/ UNCHANGED topic /\ pubLast' = 0
      BY <2>9
      DEF Plug, Retry, PublishLoop, Poll, StartPublisher, StartReader, StopReader,
          StopPublisher, Stopped, Horizon, vars, publisher, NoData
    <3>4. TypeOK'
      <4>1. plugged' \in BOOLEAN
        BY <2>9
        DEF Plug, Retry, PublishLoop, Poll, StartPublisher, StartReader, StopReader,
            StopPublisher, Stopped, Horizon, vars, device, TypeOK
      <4>2. pub' \in {"off", "head", "poll"}
        BY <2>9
        DEF Plug, Retry, PublishLoop, Poll, StartPublisher, StartReader, StopReader,
            StopPublisher, Stopped, Horizon, vars, serial, publisher, TypeOK
      <4>3. starts' \in 0..MaxStarts
        <5>1. starts' = starts \/ (starts < MaxStarts /\ starts' = starts + 1)
          BY <2>9
          DEF Plug, Retry, PublishLoop, Poll, StartPublisher, StartReader, StopReader,
              StopPublisher, Stopped, Horizon, vars, assembly
        <5>2. QED  BY <5>1, UwbAssumption DEF TypeOK, UwbAssumption
      <4>4. pubs' \in Nat
        <5>1. pubs' = pubs \/ pubs' = pubs + 1
          BY <2>9
          DEF Plug, Retry, PublishLoop, Poll, StartPublisher, StartReader, StopReader,
              StopPublisher, Stopped, Horizon, vars, publisher
        <5>2. QED  BY <5>1 DEF TypeOK
      <4>5. /\ reader' \in {"off", "open", "hello", "wait", "ack", "read", "retry"} \cup Writing
            /\ owner' \in {"off", "starting", "on", "stopping", "closing"}
            /\ topic' \in 0..MaxFixes /\ pubLast' \in 0..MaxFixes
        BY <3>2, <3>3 DEF TypeOK
      <4>6. held' = held /\ responsive' = responsive
        BY <3>1
      <4>7. QED  BY <3>1, <4>1, <4>2, <4>3, <4>4, <4>5, <4>6 DEF TypeOK
    <3>5. Places'
      <4>1. Written' >= Written
        <5>1. reader \in {"off", "open", "retry"} => Written = 0
          BY DEF Written
        <5>2. reader' = reader \/ reader \in {"off", "open", "retry"}
          BY <3>2 DEF UwbInv, Places
        <5>3. QED  BY <2>01, <5>1, <5>2
      <4>2. Len(line') + Len(inbox') <= MaxLine + MaxInbox + Written'
        BY <2>01, <3>1, <4>1 DEF UwbInv, Places
      <4>3. QED  BY <3>1, <3>2, <4>2 DEF UwbInv, Places
    <3>6. Order' /\ LineIsGapless'
      BY <3>1, <3>3 DEF UwbInv, Order, Ascending, LineIsGapless
    <3>7. Gapless'
      BY <3>1, <3>2 DEF UwbInv, Gapless, InSight, Places
    <3>8. QED  BY <3>4, <3>5, <3>6, <3>7 DEF UwbInv
  <2>10. CASE WriteAll
    <3>1. /\ reader \in Writing /\ reader' = After(reader)
          /\ UNCHANGED <<responsive, plugged, unplugs, dev, line, first, fixes, fd, text,
                         sample, parsed, publisher, assembly>>
      BY <2>10 DEF WriteAll
    <3>2. /\ reader' \in {"enter again", "wait", "ack"} /\ lines = <<>> /\ ~held
          /\ owner \notin {"off", "starting", "closing"} /\ reader # "read"
      BY <3>1 DEF Writing, After, UwbInv, Places
    <3>21. Written' >= Written + 1
      <4>1. CASE reader = "enter again"
        <5>1. Written = 1
          BY <4>1 DEF Written
        <5>2. reader' = "wait"
          BY <3>1, <4>1 DEF After
        <5>3. Written' = 2
          BY <5>2 DEF Written
        <5>4. QED  BY <5>1, <5>3
      <4>2. CASE reader \in {"enter", "toggle", "lec"}
        <5>1. Written = 0
          BY <4>2 DEF Written
        <5>2. Written' \in {1, 2}
          BY <3>2 DEF Written
        <5>3. QED  BY <5>1, <5>2
      <4>3. QED  BY <3>1, <4>1, <4>2 DEF Writing
    <3>3. /\ inbox' \in Seq({"enter", "lec"}) /\ Len(inbox') <= MaxInbox
          /\ Len(inbox') <= Len(inbox) + 1
      <4>1. CASE inbox' = inbox
        BY <4>1 DEF TypeOK
      <4>2. ASSUME NEW c \in {"enter", "lec"}, inbox' = Append(inbox, c), Len(inbox) < MaxInbox
            PROVE  /\ inbox' \in Seq({"enter", "lec"}) /\ Len(inbox') <= MaxInbox
                   /\ Len(inbox') <= Len(inbox) + 1
        BY <4>2
      <4>3. QED  BY <2>10, <4>1, <4>2 DEF WriteAll
    <3>4. TypeOK'
      <4>1. UNCHANGED <<responsive, plugged, unplugs, dev, line, first, fixes, fd, lines,
                        session, sample, parsed, pub, pubLast, topic, pubs, owner, starts>>
        BY <3>1 DEF text, publisher, assembly
      <4>2. held' = held
        BY <3>1 DEF text
      <4>3. reader' \in {"off", "open", "hello", "wait", "ack", "read", "retry"} \cup Writing
        BY <3>2 DEF Writing
      <4>4. held' \in BOOLEAN /\ (held' => first' # "whole" \/ fd' \in {"dead", "hung"})
        BY <3>2, <4>2 DEF TypeOK
      <4>5. QED  BY <3>3, <4>1, <4>3, <4>4 DEF TypeOK
    <3>5. Places'
      <4>1. Len(line') + Len(inbox') <= MaxLine + MaxInbox + Written'
        BY <2>01, <3>1, <3>21, <3>3 DEF UwbInv, Places
      <4>2. QED  BY <3>1, <3>2, <4>1 DEF UwbInv, Places, text, assembly
    <3>6. Order' /\ LineIsGapless' /\ Gapless'
      BY <3>1, <3>2
      DEF UwbInv, Order, Ascending, LineIsGapless, Gapless, publisher, text
    <3>7. QED  BY <3>4, <3>5, <3>6 DEF UwbInv
  <2>11. QED
    BY <2>1, <2>2, <2>3, <2>4, <2>5, <2>6, <2>7, <2>8, <2>9, <2>10 DEF Next
<1>3. QED  BY <1>1, <1>2, PTL DEF Spec

\* Every variable stays in its type.
THEOREM UwbTypeCorrect == Spec => []TypeOK
  BY UwbInvariant, PTL

-----------------------------------------------------------------------------
\* What the steps do to the history that the action properties look at.
LEMMA WhatStepsStore ==
    ASSUME TypeOK, UwbInv, [Next]_vars
    PROVE  /\ parsed' = parsed \/ (ParseLine /\ HasFix(Head(lines)))
           /\ topic' = topic \/ (Poll /\ IsNew(sample, pubLast))
           /\ fixes' = fixes \/ (fixes' = fixes + 1 /\ topic' = topic)
<1>1. CASE ParseLine
  BY <1>1 DEF ParseLine, device, publisher
<1>2. CASE Poll
  BY <1>2 DEF Poll, device, serial
<1>3. CASE Command \/ PrintLine \/ Unplug \/ Plug
  BY <1>3 DEF Command, PrintLine, Unplug, Plug, serial, publisher
<1>4. CASE ReaderExit \/ Retry \/ OpenPort \/ OpenFails \/ IOError \/ HandshakeTimeout
  BY <1>4 DEF ReaderExit, Retry, OpenPort, OpenFails, IOError, HandshakeTimeout, Throw, Close,
              device, publisher
<1>5. CASE Hello \/ AwaitPrompt \/ AwaitAck \/ ReadPending \/ WriteAll
  BY <1>5 DEF Hello, AwaitPrompt, AwaitAck, ReadPending, WriteAll, publisher
<1>6. CASE \/ PublishLoop \/ StartPublisher \/ StartReader \/ StopReader \/ StopPublisher
           \/ Stopped \/ Horizon \/ UNCHANGED vars
  BY <1>6 DEF PublishLoop, StartPublisher, StartReader, StopReader, StopPublisher, Stopped,
              Horizon, vars, device, serial, publisher
<1>7. QED  BY <1>1, <1>2, <1>3, <1>4, <1>5, <1>6 DEF Next

\* Wherever the reads cut the text, the read loop stores every fix from where
\* the handshake stopped reading: none is lost, stored twice or out of order.
THEOREM UwbStoresEveryFix == Spec => StoresEveryFix
<1>1. TypeOK /\ UwbInv /\ [Next]_vars => [parsed' # parsed => sample' = session + 1]_vars
  <2> SUFFICES ASSUME TypeOK, UwbInv, [Next]_vars, parsed' # parsed
               PROVE  sample' = session + 1
    OBVIOUS
  <2>1. ParseLine /\ HasFix(Head(lines))
    BY WhatStepsStore
  <2>2. reader = "read" /\ lines # <<>> /\ sample' = Head(lines)
    BY <2>1 DEF ParseLine
  <2>3. QED  BY <2>1, <2>2, HeadIsNext
<1>2. QED  BY <1>1, UwbInvariant, PTL DEF Spec, StoresEveryFix

\* Whatever is cut, unplugged, timed out, skipped or restarted on the way, the
\* topic carries fixes that the device printed, never an older one than before.
THEOREM UwbImplementsLatestWins == Spec => ImplementsLatestWins
<1>1. Init => LW!Init
  BY DEF Init, LW!Init, NoData
<1>2. TypeOK /\ UwbInv /\ [Next]_vars => [LW!Next]_LW!vars
  <2> SUFFICES ASSUME TypeOK, UwbInv, [Next]_vars PROVE [LW!Next]_LW!vars
    OBVIOUS
  <2>1. CASE fixes' = fixes + 1 /\ topic' = topic
    BY <2>1 DEF LW!Next, LW!Make
  <2>2. CASE topic' = topic /\ fixes' = fixes
    BY <2>2 DEF LW!vars
  <2>3. CASE Poll /\ IsNew(sample, pubLast) /\ fixes' = fixes
    <3>1. topic' = sample
      BY <2>3 DEF Poll
    <3>2. /\ topic <= sample /\ sample <= fixes
      BY DEF UwbInv, Order
    <3>3. topic = sample \/ topic < sample
      BY <3>2, UwbAssumption DEF TypeOK, UwbAssumption
    <3>4. CASE topic = sample
      BY <2>3, <3>1, <3>4 DEF LW!vars
    <3>5. CASE topic < sample
      BY <2>3, <3>1, <3>2, <3>5, UwbAssumption DEF LW!Next, LW!Show, TypeOK, UwbAssumption
    <3>6. QED  BY <3>3, <3>4, <3>5
  <2>4. QED  BY <2>1, <2>2, <2>3, WhatStepsStore DEF Poll, device
<1>3. QED  BY <1>1, <1>2, UwbInvariant, PTL DEF Spec, ImplementsLatestWins, LW!Spec

-----------------------------------------------------------------------------
Counters ==
    /\ parsed \in Nat /\ pubs \in Nat /\ starts \in Nat
    /\ starts = 0 => owner = "off" /\ reader = "off" /\ sample = NoData /\ pub = "off"

\* A sample that the publisher has not seen is paid for: it was parsed, or is
\* the replay of a start() after the first.
Pending == IF IsNew(sample, pubLast) THEN 1 ELSE 0
Budget == pubs + Pending <= parsed + Replays(starts)

\* The topic carries what the device computed: a message per parsed fix at
\* most, and one replay for each start() after the first.
THEOREM UwbPublishesWhatWasParsed == Spec => []PublishesWhatWasParsed
<1> DEFINE Inv == Counters /\ Budget
<1>1. Init => Inv
  BY DEF Init, Counters, Budget, Pending, IsNew, NoData, Replays
<1>2. Inv /\ [Next]_vars => Inv'
  <2> SUFFICES ASSUME Inv, [Next]_vars PROVE Inv'
    OBVIOUS
  <2> USE DEF Counters, Budget, Pending, IsNew, NoData, Replays
  <2>1. CASE ParseLine
    BY <2>1 DEF ParseLine, publisher, assembly
  <2>2. CASE Poll
    BY <2>2 DEF Poll, serial, assembly
  <2>3. CASE PublishLoop
    BY <2>3 DEF PublishLoop, serial, assembly
  <2>4. CASE StartPublisher
    BY <2>4 DEF StartPublisher, serial
  <2>5. CASE StartReader
    BY <2>5 DEF StartReader, publisher
  <2>6. CASE StopReader \/ StopPublisher \/ Stopped
    BY <2>6 DEF StopReader, StopPublisher, Stopped, serial, publisher
  <2>7. CASE Command \/ PrintLine \/ Unplug \/ Plug
    BY <2>7 DEF Command, PrintLine, Unplug, Plug, serial, publisher, assembly
  <2>8. CASE ReaderExit \/ Retry \/ OpenPort \/ OpenFails \/ IOError \/ HandshakeTimeout
    BY <2>8 DEF ReaderExit, Retry, OpenPort, OpenFails, IOError, HandshakeTimeout, Throw, Close,
                Writing, publisher, assembly
  <2>9. CASE Hello \/ AwaitPrompt \/ AwaitAck \/ ReadPending \/ WriteAll
    BY <2>9 DEF Hello, AwaitPrompt, AwaitAck, ReadPending, WriteAll, Writing, publisher,
                assembly
  <2>10. CASE Horizon \/ UNCHANGED vars
    BY <2>10 DEF Horizon, vars, serial, publisher, assembly
  <2>11. QED
    BY <2>1, <2>2, <2>3, <2>4, <2>5, <2>6, <2>7, <2>8, <2>9, <2>10 DEF Next
<1>3. Inv => PublishesWhatWasParsed
  BY DEF Counters, Budget, Pending, Replays, PublishesWhatWasParsed
<1>4. QED
  BY <1>1, <1>2, <1>3, PTL DEF Spec
=============================================================================
