--------------------------- MODULE ConsoleProofs ----------------------------
(***************************************************************************)
(* Proofs about the console command, for every depth of the FIFOs, every   *)
(* size of its buffers, whatever is typed and printed, and whichever       *)
(* access fails or write is cut short.                                     *)
(***************************************************************************)
EXTENDS Console, SequenceTheorems, TLAPS

\* What may be on the line.
Char == {"user", "pass", "get", "t", "y", "nl", "junk"} \union Range(Keys) \union Range(Output)
Bytes == Seq(Char)
Uarts == {"uart2", "uart3", "uart5"}

\* The script by its kinds of step, the two that change routes apart.
Flushes == {5, 6, 8, 9, 11, 17, 19, 20, 22, 23}
Sleeps == {7, 10, 12, 18, 21}
Bauds == {4, 16}

\* The two logins, from the flush at a step on.
From9 == NlMore \o Getty
From8 == Pass \o From9
From6 == NlMore \o From8
From5 == User \o From6
From22 == Pass \o Nl
From20 == NlMore \o From22
From19 == User \o From20
From17 == Nl \o From19

\* What the steps from n on still send, to UART5 and then to UART2.
ToSend5(n) ==
  CASE n <= 5 -> From5 [] n = 6 -> From6 [] n \in {7, 8} -> From8 [] n = 9 -> From9
    [] n \in {10, 11} -> Getty [] OTHER -> <<>>
ToSend2(n) ==
  CASE n <= 17 -> From17 [] n \in {18, 19} -> From19 [] n = 20 -> From20
    [] n \in {21, 22} -> From22 [] n = 23 -> Nl [] OTHER -> <<>>

\* A step that is flushing has its own bytes in msg.
Due == IF up = "idle" \/ at = 24 THEN at ELSE at + 1

TypesOK ==
  /\ pc \in {"probe", "script", "unsuart", "unmux", "done"} /\ at \in 1 .. 24
  /\ mux \in [Uarts -> {"pins", "uart2", "uart3"}] /\ saved = Pins /\ muxLost \in BOOLEAN
  /\ recv \in [Receivers -> Bytes]
  /\ {tx, rx, msg, typed, keys, out, uout, printed} \subseteq Bytes
  /\ slots \in Nat /\ retry \in Nat /\ relay \in BOOLEAN /\ overrun \in BOOLEAN

\* Where the functions of the software UART are, and what they hold.
UpOK ==
  /\ up \in {"idle", "failed", "flush", "lsr", "thr", "poll", "read", "rbr", "print"}
  /\ pc # "script" => up = "idle"
  /\ up = "flush" => ~relay
  /\ up \in {"poll", "read", "rbr", "print"} => relay
  /\ pc = "script" /\ up # "idle" => (at \in Flushes /\ ~relay) \/ (at = 24 /\ relay)
  /\ pc = "script" /\ up = "idle" => ~relay /\ msg = <<>>
  /\ pc = "probe" => ~relay /\ msg = <<>>
  /\ up = "poll" => msg = <<>>
  /\ up = "thr" => Len(tx) + slots <= Fifo

\* The routes at each step of the script.
MuxOK ==
  pc \in {"probe", "script"} =>
    mux = CASE pc = "probe" \/ at <= 2 \/ at = 14 -> Pins
            [] pc = "script" /\ at \in 3 .. 13 -> [Pins EXCEPT !["uart5"] = "uart3"]
            [] pc = "script" /\ at = 15 -> [Pins EXCEPT !["uart2"] = "uart3"]
            [] OTHER -> [Pins EXCEPT !["uart2"] = "uart3", !["uart3"] = "uart2"]

\* What the user has typed and will type, but what suart_run() has read.
ToRead == typed \o keys

\* What has been sent, what is on its way and what is to be sent are the two
\* logins and the keys.
SentOK ==
  /\ pc = "probe" =>
       at = 1 /\ tx = <<>> /\ recv["uart5"] = <<>> /\ recv["uart2"] = <<>> /\ ToRead = Keys
  /\ pc = "script" /\ at <= 13 =>
       /\ recv["uart2"] = <<>> /\ ToRead = Keys
       /\ recv["uart5"] \o (tx \o (msg \o ToSend5(Due))) = Login5
  /\ pc = "script" /\ at > 13 =>
       /\ recv["uart5"] = Login5
       /\ recv["uart2"] \o (tx \o (msg \o (ToSend2(Due) \o ToRead))) = Login2 \o Keys
  /\ pc = "script" /\ at \in 1 .. 4 \union 13 .. 16 => tx = <<>>

\* Whatever has failed, what is in the FIFO reaches the UART it is meant for,
\* if the routes are m.
SafeWith(m) ==
  /\ IsPrefixOf(recv["uart5"], Login5) /\ IsPrefixOf(recv["uart2"], Login2 \o Keys)
  /\ recv["uart2"] # <<>> => recv["uart5"] = Login5
  /\ m["uart5"] = "uart3" =>
       /\ m["uart2"] # "uart3" /\ recv["uart2"] = <<>>
       /\ IsPrefixOf(recv["uart5"] \o tx, Login5)
  /\ m["uart2"] = "uart3" =>
       /\ m["uart5"] # "uart3" /\ recv["uart5"] = Login5
       /\ IsPrefixOf(recv["uart2"] \o tx, Login2 \o Keys)
SafeOK == SafeWith(mux)

\* What the relay has shown, and has still to show, is the end of the output,
\* until an access fails, which may take a byte from the receiver.
Showing == pc \in {"probe", "script"} /\ up # "failed" /\ ~overrun
ShownOK ==
  /\ pc \in {"probe", "script"} /\ ~relay => printed = <<>> /\ uout = <<>>
  /\ Showing => \E head \in Bytes : head \o (printed \o (uout \o (rx \o out))) = Output

RoutesOK == pc = "done" /\ ~muxLost => mux = saved

CInv == TypesOK /\ UpOK /\ MuxOK /\ SentOK /\ SafeOK /\ ShownOK /\ RoutesOK

-----------------------------------------------------------------------------
\* The kind of each step of the script.
LEMMA Kinds ==
  /\ Script[1][1] = "clk_enable" /\ Script[2][1] = "route" /\ Script[3][1] = "init"
  /\ \A n \in Bauds : Script[n][1] = "baud"
  /\ \A n \in Flushes : Script[n][1] = "flush"
  /\ \A n \in Sleeps : Script[n][1] = "sleep"
  /\ Script[13][1] = "restore" /\ Script[14][1] = "connect" /\ Script[15][1] = "connected"
  /\ Script[24][1] = "run"
<1>1. /\ Script[1][1] = "clk_enable" /\ Script[2][1] = "route" /\ Script[3][1] = "init"
      /\ Script[4][1] = "baud" /\ Script[5][1] = "flush" /\ Script[6][1] = "flush"
      /\ Script[7][1] = "sleep" /\ Script[8][1] = "flush" /\ Script[9][1] = "flush"
      /\ Script[10][1] = "sleep" /\ Script[11][1] = "flush" /\ Script[12][1] = "sleep"
  BY DEF Script
<1>2. /\ Script[13][1] = "restore" /\ Script[14][1] = "connect" /\ Script[15][1] = "connected"
      /\ Script[16][1] = "baud" /\ Script[17][1] = "flush" /\ Script[18][1] = "sleep"
      /\ Script[19][1] = "flush" /\ Script[20][1] = "flush" /\ Script[21][1] = "sleep"
      /\ Script[22][1] = "flush" /\ Script[23][1] = "flush" /\ Script[24][1] = "run"
  BY DEF Script
<1> HIDE DEF Script
<1>3. QED BY <1>1, <1>2 DEF Bauds, Flushes, Sleeps

\* The strings of the script are those of the logins.
LEMMA Strings ==
  /\ Script[5][2] = User /\ Script[6][2] = NlMore /\ Script[8][2] = Pass
  /\ Script[9][2] = NlMore /\ Script[11][2] = Getty
  /\ Script[17][2] = Nl /\ Script[19][2] = User /\ Script[20][2] = NlMore
  /\ Script[22][2] = Pass /\ Script[23][2] = Nl
BY DEF Script

\* They consist of bytes.
LEMMA Words == {User, Pass, Getty, NlMore, Nl} \subseteq Bytes
<1>1. {"user", "pass", "get", "t", "y", "nl", "junk"} \subseteq Char
  BY DEF Char
<1>2. \A a \in Char : <<a>> \in Seq(Char)
  OBVIOUS
<1>3. \A a, b \in Char : <<a, b>> \in Seq(Char)
  OBVIOUS
<1>4. \A a, b, c \in Char : <<a, b, c>> \in Seq(Char)
  OBVIOUS
<1>5. User \in Bytes
  BY <1>1, <1>2 DEF User, Bytes
<1>6. Pass \in Bytes
  BY <1>1, <1>2 DEF Pass, Bytes
<1>7. Nl \in Bytes
  BY <1>1, <1>2 DEF Nl, Bytes
<1>8. NlMore \in Bytes
  BY <1>1, <1>3 DEF NlMore, Bytes
<1>9. Getty \in Bytes
  BY <1>1, <1>4 DEF Getty, Bytes
<1>10. QED BY <1>5, <1>6, <1>7, <1>8, <1>9

\* So does what is typed and printed.
LEMMA Given == Keys \in Bytes /\ Output \in Bytes
<1>1. Keys \in Seq(STRING) /\ Output \in Seq(STRING)
  BY ConsoleAssumption
<1>2. Keys \in Seq(Range(Keys)) /\ Output \in Seq(Range(Output))
  BY <1>1, SeqOfRange
<1>3. Range(Keys) \subseteq Char /\ Range(Output) \subseteq Char
  BY DEF Char
<1>4. QED BY <1>2, <1>3, SeqMonotonic DEF Bytes

-----------------------------------------------------------------------------
(***************************************************************************)
(* Bytes move from the head of one sequence to the end of another.         *)
(***************************************************************************)
\* What Len() and the empty sequence are to a concatenation.
LEMMA Joined ==
  ASSUME NEW s \in Bytes, NEW t \in Bytes
  PROVE  s \o t \in Bytes /\ s \o <<>> = s /\ <<>> \o s = s /\ Len(s \o t) = Len(s) + Len(t)
BY ConcatProperties, ConcatEmptySeq DEF Bytes

\* A sequence is its first byte and the rest.
LEMMA FirstAndRest ==
  ASSUME NEW t \in Bytes, t # <<>>
  PROVE  /\ Head(t) \in Char /\ <<Head(t)>> \in Bytes /\ Tail(t) \in Bytes
         /\ <<Head(t)>> \o Tail(t) = t
<1>1. /\ Head(t) \in Char /\ Tail(t) \in Bytes /\ Len(Tail(t)) = Len(t) - 1 /\ Len(t) \in Nat \ {0}
      /\ \A i \in 1 .. Len(Tail(t)) : Tail(t)[i] = t[i + 1]
  BY HeadTailProperties, EmptySeq DEF Bytes
<1>2. <<Head(t)>> \in Bytes /\ Len(<<Head(t)>>) = 1 /\ <<Head(t)>>[1] = t[1]
  BY <1>1 DEF Bytes
<1> DEFINE u == <<Head(t)>> \o Tail(t)
<1>3. u \in Bytes /\ Len(u) = Len(t)
  BY <1>1, <1>2, ConcatProperties DEF Bytes
<1>4. \A i \in 1 .. Len(t) : u[i] = IF i <= 1 THEN <<Head(t)>>[i] ELSE Tail(t)[i - 1]
  BY <1>1, <1>2, ConcatProperties DEF Bytes
<1> HIDE DEF u
<1>5. \A i \in 1 .. Len(u) : u[i] = t[i]
  BY <1>1, <1>2, <1>3, <1>4
<1>6. u = t
  BY <1>3, <1>5, SeqEqual DEF Bytes
<1>7. QED BY <1>1, <1>2, <1>6 DEF u

\* One byte moves.
LEMMA Moved ==
  ASSUME NEW s \in Bytes, NEW t \in Bytes, t # <<>>
  PROVE  /\ Append(s, Head(t)) \in Bytes /\ Tail(t) \in Bytes
         /\ Len(Append(s, Head(t))) = Len(s) + 1 /\ Append(s, Head(t)) # <<>>
         /\ Append(s, Head(t)) \o Tail(t) = s \o t
<1> DEFINE h == <<Head(t)>>
           r == Tail(t)
<1>1. Head(t) \in Char /\ h \in Bytes /\ r \in Bytes /\ h \o r = t
  BY FirstAndRest
<1>2. /\ Append(s, Head(t)) = s \o h /\ Append(s, Head(t)) \in Bytes
      /\ Len(Append(s, Head(t))) = Len(s) + 1 /\ Append(s, Head(t)) # <<>>
  BY <1>1, AppendIsConcat, AppendProperties DEF Bytes
<1> HIDE DEF h, r
<1>3. t = h \o r
  BY <1>1
<1>4. (s \o h) \o r = s \o t
  BY <1>3
<1>5. QED BY <1>1, <1>2, <1>4 DEF r

\* One byte moves, with others behind it.
LEMMA MovedBefore ==
  ASSUME NEW s \in Bytes, NEW t \in Bytes, NEW u \in Bytes, t # <<>>
  PROVE  Append(s, Head(t)) \o (Tail(t) \o u) = s \o (t \o u)
<1> DEFINE h == <<Head(t)>>
           r == Tail(t)
<1>1. Head(t) \in Char /\ t = h \o r
  BY FirstAndRest
<1>2. Append(s, Head(t)) = s \o h
  BY <1>1, AppendIsConcat DEF Bytes
<1> HIDE DEF h, r
<1>3. t = h \o r
  BY <1>1
<1>4. (s \o h) \o (r \o u) = s \o (t \o u)
  BY <1>3
<1>5. QED BY <1>2, <1>4, Zenon DEF r

\* Several bytes move.
LEMMA Cut ==
  ASSUME NEW t \in Bytes, NEW n \in 0 .. Len(t)
  PROVE  /\ SubSeq(t, 1, n) \in Bytes /\ SubSeq(t, n + 1, Len(t)) \in Bytes
         /\ SubSeq(t, 1, n) \o SubSeq(t, n + 1, Len(t)) = t
<1>1. Len(t) \in Nat /\ \A i \in 1 .. Len(t) : t[i] \in Char
  BY LenProperties, ElementOfSeq DEF Bytes
<1>2. SubSeq(t, 1, n) \in Bytes
  BY <1>1, SubSeqProperties DEF Bytes
<1>3. SubSeq(t, n + 1, Len(t)) \in Bytes
  BY <1>1, SubSeqProperties DEF Bytes
<1>4. SubSeq(t, 1, n) \o SubSeq(t, n + 1, Len(t)) = SubSeq(t, 1, Len(t))
  <2>1. 1 \in 1 .. Len(t) + 1 /\ Len(t) \in n .. Len(t)
    BY <1>1
  <2>3. 1 - 1 = 0 /\ n \in 1 - 1 .. Len(t)
    OBVIOUS
  <2>2. QED BY <2>1, <2>3, ConcatAdjacentSubSeq DEF Bytes
<1>5. SubSeq(t, 1, Len(t)) = t
  BY SubSeqFull DEF Bytes
<1>6. QED BY <1>2, <1>3, <1>4, <1>5

\* What a sequence begins with is a prefix of it, and the other way round.
LEMMA Prefixes ==
  ASSUME NEW s \in Bytes, NEW t \in Bytes
  PROVE  IsPrefixOf(s, t) <=> \E u \in Bytes : s \o u = t
<1>1. Len(s) \in Nat /\ Len(t) \in Nat
  BY LenProperties DEF Bytes
<1>2. ASSUME NEW u \in Bytes, s \o u = t PROVE IsPrefixOf(s, t)
  <2>1. Len(u) \in Nat /\ Len(t) = Len(s) + Len(u)
    BY <1>2, ConcatProperties, LenProperties DEF Bytes
  <2>2. \A i \in 1 .. Len(s) : t[i] = s[i]
    BY <1>1, <1>2, <2>1, ConcatProperties DEF Bytes
  <2>3. SubSeq(t, 1, Len(s)) \in Bytes
    <3>1. Len(s) \in 0 .. Len(t)
      BY <1>1, <2>1
    <3>2. QED BY <3>1, Cut
  <2>4. /\ Len(SubSeq(t, 1, Len(s))) = Len(s)
        /\ \A i \in 1 .. Len(s) : SubSeq(t, 1, Len(s))[i] = t[i]
    <3>1. \A i \in 1 .. Len(s) : t[i] \in Char
      BY <1>1, <2>1, ElementOfSeq DEF Bytes
    <3>2. QED BY <1>1, <3>1, SubSeqProperties
  <2>5. s = SubSeq(t, 1, Len(s))
    BY <2>2, <2>3, <2>4, SeqEqual DEF Bytes
  <2>6. QED BY <1>1, <2>1, <2>5 DEF IsPrefixOf
<1>3. ASSUME IsPrefixOf(s, t) PROVE \E u \in Bytes : s \o u = t
  <2>1. Len(s) \in 0 .. Len(t) /\ s = SubSeq(t, 1, Len(s))
    BY <1>1, <1>3 DEF IsPrefixOf
  <2>2. /\ SubSeq(t, Len(s) + 1, Len(t)) \in Bytes
        /\ SubSeq(t, 1, Len(s)) \o SubSeq(t, Len(s) + 1, Len(t)) = t
    BY <2>1, Cut
  <2>3. QED BY <2>1, <2>2
<1>4. QED BY <1>2, <1>3

\* What a sequence ends with is its last elements.
LEMMA Suffixes ==
  ASSUME NEW s \in Bytes, NEW t \in Bytes, NEW u \in Bytes, u \o s = t
  PROVE  s = SubSeq(t, Len(t) - Len(s) + 1, Len(t))
<1>1. Len(s) \in Nat /\ Len(u) \in Nat /\ Len(t) = Len(u) + Len(s)
  BY ConcatProperties, LenProperties DEF Bytes
<1> DEFINE m == Len(t) - Len(s) + 1
           v == SubSeq(t, m, Len(t))
<1>2. m = Len(u) + 1 /\ m \in Int /\ Len(t) \in Int
  BY <1>1
<1>3. \A i \in m .. Len(t) : t[i] \in Char
  BY <1>1, <1>2, ElementOfSeq DEF Bytes
<1>4. v \in Bytes /\ Len(v) = (IF m <= Len(t) THEN Len(t) - m + 1 ELSE 0)
      /\ \A i \in 1 .. Len(t) - m + 1 : v[i] = t[m + i - 1]
  BY <1>2, <1>3, SubSeqProperties DEF Bytes
<1> HIDE DEF v
<1>5. Len(v) = Len(s)
  BY <1>1, <1>2, <1>4
<1>6. \A i \in 1 .. Len(s) : t[Len(u) + i] = s[i]
  BY <1>1, ConcatProperties DEF Bytes
<1>7. \A i \in 1 .. Len(s) : s[i] = v[i]
  BY <1>1, <1>2, <1>4, <1>6
<1>8. s = v
  BY <1>4, <1>5, <1>7, SeqEqual DEF Bytes
<1>9. QED BY <1>8 DEF v

-----------------------------------------------------------------------------
(***************************************************************************)
(* What is still to be sent.                                               *)
(***************************************************************************)
\* The two logins are sent from their first strings on.
LEMMA Logins == Login5 = From5 /\ Login2 = From17
<1>1. Login5 = From5
  <2> DEFINE p == User \o NlMore
  <2>1. ((p \o Pass) \o NlMore) \o Getty = p \o (Pass \o (NlMore \o Getty))
    <3> HIDE DEF p
    <3>1. QED OBVIOUS
  <2>2. Login5 = p \o From8
    <3> HIDE DEF p
    <3>1. ((p \o Pass) \o NlMore) \o Getty = p \o From8
      BY <2>1 DEF From8, From9
    <3>2. QED BY <3>1, Zenon DEF Login5, p
  <2>3. p \o From8 = User \o (NlMore \o From8)
    OBVIOUS
  <2>4. QED BY <2>2, <2>3, Zenon DEF From5, From6
<1>2. Login2 = From17
  <2> DEFINE p == Nl \o User
  <2>1. ((p \o NlMore) \o Pass) \o Nl = p \o (NlMore \o (Pass \o Nl))
    <3> HIDE DEF p
    <3>1. QED OBVIOUS
  <2>2. Login2 = p \o From20
    <3> HIDE DEF p
    <3>1. ((p \o NlMore) \o Pass) \o Nl = p \o From20
      BY <2>1 DEF From20, From22
    <3>2. QED BY <3>1, Zenon DEF Login2, p
  <2>3. p \o From20 = Nl \o (User \o From20)
    OBVIOUS
  <2>4. QED BY <2>2, <2>3, Zenon DEF From17, From19
<1>3. QED BY <1>1, <1>2

\* What is still to be sent consists of bytes.
LEMMA ToSends ==
  /\ \A n \in Int : ToSend5(n) \in Bytes /\ ToSend2(n) \in Bytes
  /\ Login5 \in Bytes /\ Login2 \in Bytes /\ Login2 \o Keys \in Bytes
<1>1. \A s, t \in Bytes : s \o t \in Bytes
  BY Joined
<1>2. <<>> \in Bytes
  BY DEF Bytes
<1>3. From9 \in Bytes /\ From22 \in Bytes
  BY <1>1, Words DEF From9, From22
<1>4. From8 \in Bytes /\ From20 \in Bytes
  BY <1>1, <1>3, Words DEF From8, From20
<1>5. From6 \in Bytes /\ From19 \in Bytes
  BY <1>1, <1>4, Words DEF From6, From19
<1>6. From5 \in Bytes /\ From17 \in Bytes
  BY <1>1, <1>5, Words DEF From5, From17
<1>7. \A n \in Int : ToSend5(n) \in Bytes
  BY <1>2, <1>3, <1>4, <1>5, <1>6, Words DEF ToSend5
<1>8. \A n \in Int : ToSend2(n) \in Bytes
  BY <1>2, <1>3, <1>4, <1>5, <1>6, Words DEF ToSend2
<1>9. QED BY <1>1, <1>6, <1>7, <1>8, Logins, Given

\* Before the first step it is the login, and behind the last one nothing.
LEMMA ToSendAll ==
  /\ \A n \in 1 .. 5 : ToSend5(n) = Login5
  /\ \A n \in 1 .. 17 : ToSend2(n) = Login2
  /\ ToSend5(13) = <<>> /\ ToSend2(24) = <<>>
BY Logins DEF ToSend5, ToSend2

\* Each flush sends its part of it.
LEMMA ToSendNext ==
  /\ \A n \in 1 .. 12 : n \notin Flushes => ToSend5(n + 1) = ToSend5(n)
  /\ \A n \in 1 .. 23 : n \notin Flushes => ToSend2(n + 1) = ToSend2(n)
  /\ \A n \in Flushes : n < 13 => ToSend5(n) = Script[n][2] \o ToSend5(n + 1)
  /\ \A n \in Flushes : n > 13 => ToSend2(n) = Script[n][2] \o ToSend2(n + 1)
  /\ \A n \in Flushes : Script[n][2] \in Bytes
<1> HIDE DEF Script
<1>1. \A n \in 1 .. 12 : n \notin Flushes => ToSend5(n + 1) = ToSend5(n)
  BY DEF ToSend5, Flushes
<1>2. \A n \in 1 .. 23 : n \notin Flushes => ToSend2(n + 1) = ToSend2(n)
  BY DEF ToSend2, Flushes
<1>3. Getty \o <<>> = Getty /\ Nl \o <<>> = Nl
  BY Joined, Words
<1>4. ASSUME NEW n \in Flushes, n < 13 PROVE ToSend5(n) = Script[n][2] \o ToSend5(n + 1)
  <2>1. n \in {5, 6, 8, 9, 11}
    BY <1>4 DEF Flushes
  <2>2. CASE n = 5
    BY <2>2, Strings DEF ToSend5, From5
  <2>3. CASE n = 6
    BY <2>3, Strings DEF ToSend5, From6
  <2>4. CASE n = 8
    BY <2>4, Strings DEF ToSend5, From8
  <2>5. CASE n = 9
    BY <2>5, Strings DEF ToSend5, From9
  <2>6. CASE n = 11
    <3>1. ToSend5(11) = Getty /\ ToSend5(12) = <<>> /\ 11 + 1 = 12
      BY DEF ToSend5
    <3>2. ToSend5(11) = Script[11][2] \o ToSend5(11 + 1)
      BY <1>3, <3>1, Strings, Zenon
    <3>3. QED BY <2>6, <3>2, Zenon
  <2>7. QED BY <2>1, <2>2, <2>3, <2>4, <2>5, <2>6
<1>5. ASSUME NEW n \in Flushes, n > 13 PROVE ToSend2(n) = Script[n][2] \o ToSend2(n + 1)
  <2>1. n \in {17, 19, 20, 22, 23}
    BY <1>5 DEF Flushes
  <2>2. CASE n = 17
    BY <2>2, Strings DEF ToSend2, From17
  <2>3. CASE n = 19
    BY <2>3, Strings DEF ToSend2, From19
  <2>4. CASE n = 20
    BY <2>4, Strings DEF ToSend2, From20
  <2>5. CASE n = 22
    BY <2>5, Strings DEF ToSend2, From22
  <2>6. CASE n = 23
    <3>1. ToSend2(23) = Nl /\ ToSend2(24) = <<>> /\ 23 + 1 = 24
      BY DEF ToSend2
    <3>2. ToSend2(23) = Script[23][2] \o ToSend2(23 + 1)
      BY <1>3, <3>1, Strings, Zenon
    <3>3. QED BY <2>6, <3>2, Zenon
  <2>7. QED BY <2>1, <2>2, <2>3, <2>4, <2>5, <2>6
<1>6. \A n \in Flushes : Script[n][2] \in Bytes
  BY Strings, Words DEF Flushes
<1>7. QED BY <1>1, <1>2, <1>4, <1>5, <1>6

-----------------------------------------------------------------------------
(***************************************************************************)
(* While the script runs nothing goes astray, nor where it is left.        *)
(***************************************************************************)

\* What comes before a prefix's end is a prefix.
LEMMA Shorter ==
  ASSUME NEW s \in Bytes, NEW u \in Bytes, NEW t \in Bytes, IsPrefixOf(s \o u, t)
  PROVE  IsPrefixOf(s, t)
<1> DEFINE r == s \o u
<1>1. r \in Bytes
  BY Joined
<1>2. IsPrefixOf(r, t)
  OBVIOUS
<1> HIDE DEF r
<1>3. PICK v \in Bytes : r \o v = t
  BY <1>1, <1>2, Prefixes
<1>4. r \o v = s \o (u \o v)
  BY DEF r
<1>5. u \o v \in Bytes
  BY Joined
<1>6. s \o (u \o v) = t
  BY <1>3, <1>4, Zenon
<1>7. QED BY <1>5, <1>6, Prefixes, Zenon

\* The first two of four parts are a prefix.
LEMMA FirstTwo ==
  ASSUME NEW s \in Bytes, NEW u \in Bytes, NEW v \in Bytes, NEW w \in Bytes, NEW t \in Bytes,
         s \o (u \o (v \o w)) = t
  PROVE  IsPrefixOf(s \o u, t) /\ IsPrefixOf(s, t)
<1> DEFINE r == s \o u
           q == v \o w
<1>1. r \in Bytes /\ q \in Bytes
  BY Joined
<1>2. r \o q = t
  <2>1. r \o q = s \o (u \o q)
    <3> HIDE DEF q
    <3>1. QED OBVIOUS
  <2>2. QED BY <2>1, Zenon
<1> HIDE DEF q
<1>3. IsPrefixOf(r, t)
  <2> HIDE DEF r
  <2>1. QED BY <1>1, <1>2, Prefixes
<1>4. QED BY <1>3, Shorter

\* What is on its way consists of bytes.
LEMMA Types ==
  ASSUME TypesOK
  PROVE  /\ recv["uart5"] \in Bytes /\ recv["uart2"] \in Bytes
         /\ tx \in Bytes /\ rx \in Bytes /\ msg \in Bytes /\ typed \in Bytes /\ keys \in Bytes
         /\ out \in Bytes /\ uout \in Bytes /\ printed \in Bytes /\ ToRead \in Bytes
         /\ Due \in 1 .. 24 /\ ToSend5(Due) \in Bytes /\ ToSend2(Due) \in Bytes
         /\ ToSend2(Due) \o ToRead \in Bytes
<1>1. /\ recv["uart5"] \in Bytes /\ recv["uart2"] \in Bytes
      /\ tx \in Bytes /\ rx \in Bytes /\ msg \in Bytes /\ typed \in Bytes /\ keys \in Bytes
      /\ out \in Bytes /\ uout \in Bytes /\ printed \in Bytes
  BY DEF TypesOK, Receivers
<1>2. ToRead \in Bytes
  BY <1>1, Joined DEF ToRead
<1>3. Due \in 1 .. 24
  BY DEF TypesOK, Due
<1>4. ToSend5(Due) \in Bytes /\ ToSend2(Due) \in Bytes
  BY <1>3, ToSends
<1>5. ToSend2(Due) \o ToRead \in Bytes
  BY <1>2, <1>4, Joined
<1>6. QED BY <1>1, <1>2, <1>3, <1>4, <1>5

\* What has left the script is the beginning of what it is to send.
LEMMA Sending ==
  ASSUME TypesOK, SentOK, pc = "script"
  PROVE  /\ at <= 13 => recv["uart2"] = <<>> /\ IsPrefixOf(recv["uart5"], Login5)
                          /\ IsPrefixOf(recv["uart5"] \o tx, Login5)
         /\ at > 13 => /\ recv["uart5"] = Login5 /\ IsPrefixOf(recv["uart2"], Login2 \o Keys)
                       /\ IsPrefixOf(recv["uart2"] \o tx, Login2 \o Keys)
<1>1. ASSUME at <= 13 
      PROVE  /\ recv["uart2"] = <<>> /\ IsPrefixOf(recv["uart5"], Login5)
             /\ IsPrefixOf(recv["uart5"] \o tx, Login5)
  <2>1. recv["uart2"] = <<>> /\ recv["uart5"] \o (tx \o (msg \o ToSend5(Due))) = Login5
    BY <1>1 DEF SentOK
  <2>2. QED BY <2>1, Types, ToSends, FirstTwo
<1>2. ASSUME at > 13
      PROVE  /\ recv["uart5"] = Login5 /\ IsPrefixOf(recv["uart2"], Login2 \o Keys)
             /\ IsPrefixOf(recv["uart2"] \o tx, Login2 \o Keys)
  <2> DEFINE rest == ToSend2(Due) \o ToRead
             all == Login2 \o Keys
  <2>1. recv["uart5"] = Login5 /\ recv["uart2"] \o (tx \o (msg \o rest)) = all
    BY <1>2 DEF SentOK
  <2>2. rest \in Bytes /\ all \in Bytes
    BY Types, ToSends
  <2> HIDE DEF rest, all
  <2>3. IsPrefixOf(recv["uart2"] \o tx, all) /\ IsPrefixOf(recv["uart2"], all)
    BY <2>1, <2>2, Types, FirstTwo
  <2>4. QED BY <2>1, <2>3 DEF all
<1>3. at \in Int
  BY DEF TypesOK
<1>4. QED BY <1>1, <1>2, <1>3

\* Nothing has been sent before it, and nothing is a prefix.
LEMMA NothingYet ==
  ASSUME NEW t \in Bytes
  PROVE  IsPrefixOf(<<>>, t)
<1>1. <<>> \in Bytes /\ <<>> \o t = t
  BY Joined DEF Bytes
<1>2. QED BY <1>1, Prefixes

\* Routes that no step of the script could have made to the wrong UART are safe.
LEMMA Safe ==
  ASSUME TypesOK, SentOK, pc = "script", NEW m,
         m["uart5"] = "uart3" => at <= 13 /\ m["uart2"] # "uart3",
         m["uart2"] = "uart3" => at > 13 /\ m["uart5"] # "uart3"
  PROVE  SafeWith(m)
<1>1. at \in Int
  BY DEF TypesOK
<1>2. CASE at <= 13
  <2>1. /\ recv["uart2"] = <<>> /\ IsPrefixOf(recv["uart5"], Login5)
        /\ IsPrefixOf(recv["uart5"] \o tx, Login5)
    BY <1>2, Sending
  <2>2. IsPrefixOf(recv["uart2"], Login2 \o Keys)
    BY <2>1, ToSends, NothingYet
  <2>3. QED BY <1>1, <1>2, <2>1, <2>2 DEF SafeWith
<1>3. CASE at > 13
  <2>1. /\ recv["uart5"] = Login5 /\ IsPrefixOf(recv["uart2"], Login2 \o Keys)
        /\ IsPrefixOf(recv["uart2"] \o tx, Login2 \o Keys)
    BY <1>3, Sending
  <2>2. IsPrefixOf(recv["uart5"], Login5)
    <3>1. Login5 \o <<>> = Login5 /\ <<>> \in Bytes
      BY ToSends, Joined DEF Bytes
    <3>2. QED BY <2>1, <3>1, ToSends, Prefixes
  <2>3. QED BY <1>1, <1>3, <2>1, <2>2 DEF SafeWith
<1>4. QED BY <1>1, <1>2, <1>3

\* The routes at each step are.
LEMMA SafeScript == TypesOK /\ SentOK /\ MuxOK /\ pc = "script" => SafeOK
<1> SUFFICES ASSUME TypesOK, SentOK, MuxOK, pc = "script" PROVE SafeOK
  OBVIOUS
<1>1. /\ mux["uart5"] = "uart3" => at <= 13 /\ mux["uart2"] # "uart3"
      /\ mux["uart2"] = "uart3" => at > 13 /\ mux["uart5"] # "uart3"
  BY DEF MuxOK, TypesOK, Pins
<1>2. QED BY <1>1, Safe DEF SafeOK

\* Nor does a step that stays in the script leave them so.
LEMMA SafeNext == (TypesOK /\ SentOK /\ MuxOK /\ pc = "script" => SafeOK)'
BY SafeScript, PTL

-----------------------------------------------------------------------------
(***************************************************************************)
(* The user, the BMC and the line.                                         *)
(***************************************************************************)

\* The routes are restored behind a step that leaves them, and the program's
\* counter, alone.
LEMMA RoutesStay ==
  ASSUME RoutesOK, UNCHANGED <<pc, muxLost, mux, saved>>
  PROVE  RoutesOK'
BY DEF RoutesOK

\* So are they safe, where nothing else is on the line.
LEMMA SafeStays ==
  ASSUME SafeOK, UNCHANGED <<mux, recv, tx>>
  PROVE  SafeOK'
BY DEF SafeOK, SafeWith

\* A key moves from the user to the terminal.
LEMMA TypeKeeps == ASSUME CInv, Type PROVE CInv'
<1>1. /\ TypesOK /\ UpOK /\ MuxOK /\ SentOK /\ SafeOK /\ ShownOK /\ RoutesOK
      /\ UNCHANGED <<cmdVars, hwVars, out, recv, muxLost, up, relay, msg, slots, retry, bad,
                     uout, tx, rx, eof, printed, overrun>>
  BY DEF CInv, Type
<1>2. typed' \in Bytes /\ keys' \in Bytes /\ ToRead' = ToRead
  <2>1. keys # <<>> /\ typed' = Append(typed, Head(keys)) /\ keys' = Tail(keys)
    BY DEF Type
  <2>2. typed \in Bytes /\ keys \in Bytes
    BY <1>1, Types
  <2>3. /\ Append(typed, Head(keys)) \in Bytes /\ Tail(keys) \in Bytes
        /\ Append(typed, Head(keys)) \o Tail(keys) = typed \o keys
    BY <2>1, <2>2, Moved
  <2>4. QED BY <2>1, <2>3, Zenon DEF ToRead
<1>3. TypesOK'
  BY <1>1, <1>2 DEF TypesOK, cmdVars, hwVars
<1>4. UpOK' /\ MuxOK'
  BY <1>1 DEF UpOK, MuxOK, cmdVars, hwVars
<1>5. SentOK'
  BY <1>1, <1>2 DEF SentOK, Due, cmdVars, hwVars
<1>6. SafeOK' /\ RoutesOK'
  BY <1>1, SafeStays, RoutesStay DEF cmdVars, hwVars
<1>7. ShownOK'
  BY <1>1 DEF ShownOK, Showing, cmdVars, hwVars
<1>8. QED BY <1>3, <1>4, <1>5, <1>6, <1>7 DEF CInv

\* The user's end is closed.
LEMMA CloseKeeps == ASSUME CInv, Close PROVE CInv'
<1>1. UNCHANGED <<cmdVars, hwVars, keys, out, recv, muxLost, up, relay, msg, slots, retry,
                  bad, uout, tx, rx, typed, printed, overrun>>
  BY DEF Close
<1>2. UNCHANGED <<Due, ToRead>>
  BY <1>1 DEF Due, ToRead, cmdVars
<1>3. TypesOK' /\ UpOK' /\ MuxOK'
  BY <1>1 DEF CInv, TypesOK, UpOK, MuxOK, cmdVars, hwVars
<1>4. SentOK'
  BY <1>1, <1>2 DEF CInv, SentOK, cmdVars, hwVars
<1>5. SafeOK' /\ RoutesOK'
  BY <1>1, SafeStays, RoutesStay DEF CInv, cmdVars, hwVars
<1>6. ShownOK'
  BY <1>1 DEF CInv, ShownOK, Showing, cmdVars, hwVars
<1>7. QED BY <1>3, <1>4, <1>5, <1>6 DEF CInv

\* A byte arrives at the receiver, or is lost there.
LEMMA ArriveKeeps == ASSUME CInv, Arrive PROVE CInv'
<1>1. /\ TypesOK /\ UpOK /\ MuxOK /\ SentOK /\ SafeOK /\ ShownOK /\ RoutesOK
      /\ UNCHANGED <<cmdVars, hwVars, keys, recv, muxLost, up, relay, msg, slots, retry, bad,
                     uout, tx, terminal, printed>>
      /\ out # <<>> /\ out' = Tail(out)
  BY DEF CInv, Arrive
<1>2. UNCHANGED <<Due, ToRead>>
  BY <1>1 DEF Due, ToRead, cmdVars, terminal
<1>3. \/ rx' = Append(rx, Head(out)) /\ overrun' = overrun
      \/ overrun' = TRUE /\ rx' = rx
  BY DEF Arrive, Receive
<1>4. rx \in Bytes /\ out \in Bytes
  BY <1>1, Types
<1>5. /\ Append(rx, Head(out)) \in Bytes /\ Tail(out) \in Bytes
      /\ Append(rx, Head(out)) \o Tail(out) = rx \o out
  BY <1>1, <1>4, Moved
<1>6. TypesOK'
  <2>1. rx' \in Bytes /\ out' \in Bytes /\ overrun' \in BOOLEAN
    BY <1>1, <1>3, <1>4, <1>5 DEF TypesOK
  <2>2. QED BY <1>1, <2>1 DEF TypesOK, cmdVars, hwVars, terminal
<1>7. UpOK' /\ MuxOK'
  BY <1>1 DEF UpOK, MuxOK, cmdVars, hwVars
<1>8. SentOK'
  BY <1>1, <1>2 DEF SentOK, cmdVars, hwVars
<1>9. SafeOK' /\ RoutesOK'
  BY <1>1, SafeStays, RoutesStay DEF cmdVars, hwVars
<1>10. ShownOK'
  <2> DEFINE to == rx \o out
  <2>1. Showing' => Showing /\ to' = to
    BY <1>1, <1>3, <1>5, Zenon DEF Showing, cmdVars
  <2>2. Showing => \E head \in Bytes : head \o (printed \o (uout \o to)) = Output
    BY <1>1 DEF ShownOK, Showing
  <2>3. pc' \in {"probe", "script"} /\ ~relay' => printed' = <<>> /\ uout' = <<>>
    BY <1>1 DEF ShownOK, Showing, cmdVars
  <2> HIDE DEF to
  <2>4. Showing' => \E head \in Bytes : head \o (printed' \o (uout' \o to')) = Output
    BY <1>1, <2>1, <2>2
  <2>5. QED BY <2>3, <2>4 DEF ShownOK, Showing, to
<1>11. QED BY <1>6, <1>7, <1>8, <1>9, <1>10 DEF CInv

\* A byte moves from the FIFO to whoever it is routed to.
LEMMA DrainSent ==
  ASSUME CInv, Drain
  PROVE  /\ TypesOK' /\ SentOK' /\ tx # <<>> /\ tx' = Tail(tx) /\ UNCHANGED mux
         /\ recv'["uart5"] = IF mux["uart5"] = "uart3" THEN Append(recv["uart5"], Head(tx))
                             ELSE recv["uart5"]
         /\ recv'["uart2"] = IF mux["uart2"] = "uart3" THEN Append(recv["uart2"], Head(tx))
                             ELSE recv["uart2"]
<1>1. /\ TypesOK /\ UpOK /\ MuxOK /\ SentOK /\ SafeOK /\ ShownOK /\ RoutesOK
      /\ UNCHANGED <<cmdVars, hwVars, keys, out, muxLost, up, relay, msg, slots, retry, bad,
                     uout, rx, terminal, printed, overrun>>
      /\ tx # <<>> /\ tx' = Tail(tx)
      /\ recv' = [r \in Receivers |-> IF mux[r] = "uart3" THEN Append(recv[r], Head(tx))
                                      ELSE recv[r]]
  BY DEF CInv, Drain, Transmit
<1>2. UNCHANGED <<Due, ToRead>>
  BY <1>1 DEF Due, ToRead, cmdVars, terminal
<1>3. /\ recv'["uart5"] = IF mux["uart5"] = "uart3" THEN Append(recv["uart5"], Head(tx))
                          ELSE recv["uart5"]
      /\ recv'["uart2"] = IF mux["uart2"] = "uart3" THEN Append(recv["uart2"], Head(tx))
                          ELSE recv["uart2"]
  BY <1>1 DEF Receivers
<1>4. /\ recv["uart5"] \in Bytes /\ recv["uart2"] \in Bytes /\ tx \in Bytes /\ msg \in Bytes
      /\ Tail(tx) \in Bytes
      /\ Append(recv["uart5"], Head(tx)) \in Bytes /\ Append(recv["uart2"], Head(tx)) \in Bytes
  BY <1>1, Types, Moved
<1>5. TypesOK'
  <2>1. tx' \in Bytes
    BY <1>1, <1>4
  <2>2. \A r \in Receivers : recv'[r] \in Bytes
    BY <1>3, <1>4 DEF Receivers
  <2>3. recv' \in [Receivers -> Bytes]
    BY <1>1, <2>2
  <2>4. QED BY <1>1, <2>1, <2>3 DEF TypesOK, cmdVars, hwVars, terminal
<1>6. ASSUME pc' = "script", at' <= 13
      PROVE  /\ recv'["uart2"] = <<>> /\ ToRead' = Keys
             /\ recv'["uart5"] \o (tx' \o (msg' \o ToSend5(Due'))) = Login5
  <2>1. pc = "script" /\ at <= 13 /\ at \in 1 .. 24 /\ at \notin 1 .. 4
    BY <1>1, <1>6 DEF SentOK, TypesOK, cmdVars
  <2>2. mux["uart5"] = "uart3" /\ mux["uart2"] # "uart3"
    <3>1. at \in 3 .. 13
      BY <2>1
    <3>2. mux = [Pins EXCEPT !["uart5"] = "uart3"]
      BY <1>1, <2>1, <3>1 DEF MuxOK
    <3>3. QED BY <3>2 DEF Pins
  <2> DEFINE rest == msg \o ToSend5(Due)
  <2>3. recv["uart5"] \o (tx \o rest) = Login5 /\ recv["uart2"] = <<>> /\ ToRead = Keys
    BY <1>1, <2>1 DEF SentOK
  <2>4. rest \in Bytes /\ rest' = rest
    BY <1>1, <1>2, Types, Joined
  <2>5. msg' \o ToSend5(Due') = rest
    BY <1>1, <1>2
  <2> HIDE DEF rest
  <2>6. Append(recv["uart5"], Head(tx)) \o (Tail(tx) \o rest) = recv["uart5"] \o (tx \o rest)
    <3> DEFINE s == recv["uart5"]
    <3>1. s \in Bytes /\ tx \in Bytes /\ rest \in Bytes /\ tx # <<>>
      BY <1>1, <1>4, <2>4
    <3> HIDE DEF s
    <3>2. Append(s, Head(tx)) \o (Tail(tx) \o rest) = s \o (tx \o rest)
      BY <3>1, MovedBefore, Zenon
    <3>3. QED BY <3>2 DEF s
  <2>7. recv'["uart5"] = Append(recv["uart5"], Head(tx)) /\ recv'["uart2"] = recv["uart2"]
    BY <1>3, <2>2
  <2>8. recv'["uart5"] \o (tx' \o rest) = Login5
    BY <1>1, <2>3, <2>6, <2>7, Zenon
  <2>9. QED BY <1>2, <2>3, <2>5, <2>7, <2>8, Zenon
<1>7. ASSUME pc' = "script", at' > 13
      PROVE  /\ recv'["uart5"] = Login5
             /\ recv'["uart2"] \o (tx' \o (msg' \o (ToSend2(Due') \o ToRead'))) = Login2 \o Keys
  <2>1. pc = "script" /\ at > 13 /\ at \in 1 .. 24 /\ at \notin 13 .. 16
    BY <1>1, <1>7 DEF SentOK, TypesOK, cmdVars
  <2>2. mux["uart2"] = "uart3" /\ mux["uart5"] # "uart3"
    <3>1. at \in 17 .. 24
      BY <2>1
    <3>2. mux = [Pins EXCEPT !["uart2"] = "uart3", !["uart3"] = "uart2"]
      BY <1>1, <2>1, <3>1 DEF MuxOK
    <3>3. QED BY <3>2 DEF Pins
  <2> DEFINE rest == msg \o (ToSend2(Due) \o ToRead)
             all == Login2 \o Keys
  <2>3. recv["uart2"] \o (tx \o rest) = all /\ recv["uart5"] = Login5
    BY <1>1, <2>1 DEF SentOK
  <2>4. rest \in Bytes
    <3> DEFINE later == ToSend2(Due) \o ToRead
    <3>1. later \in Bytes /\ msg \in Bytes
      BY <1>1, Types
    <3> HIDE DEF later
    <3>2. msg \o later \in Bytes
      BY <3>1, Joined
    <3>3. QED BY <3>2 DEF later
  <2>5. msg' \o (ToSend2(Due') \o ToRead') = rest
    BY <1>1, <1>2
  <2> HIDE DEF rest, all
  <2>6. Append(recv["uart2"], Head(tx)) \o (Tail(tx) \o rest) = recv["uart2"] \o (tx \o rest)
    <3> DEFINE s == recv["uart2"]
    <3>1. s \in Bytes /\ tx \in Bytes /\ rest \in Bytes /\ tx # <<>>
      BY <1>1, <1>4, <2>4
    <3> HIDE DEF s
    <3>2. Append(s, Head(tx)) \o (Tail(tx) \o rest) = s \o (tx \o rest)
      BY <3>1, MovedBefore, Zenon
    <3>3. QED BY <3>2 DEF s
  <2>7. recv'["uart2"] = Append(recv["uart2"], Head(tx)) /\ recv'["uart5"] = recv["uart5"]
    BY <1>3, <2>2
  <2>8. recv'["uart2"] \o (tx' \o rest) = all
    BY <1>1, <2>3, <2>6, <2>7, Zenon
  <2>9. QED BY <2>3, <2>5, <2>7, <2>8, Zenon DEF all
<1>8. SentOK'
  <2>1. pc' # "probe"
    BY <1>1 DEF SentOK, cmdVars
  <2>2. pc' = "script" => at' \notin 1 .. 4 \union 13 .. 16
    BY <1>1 DEF SentOK, cmdVars
  <2>3. QED BY <1>6, <1>7, <2>1, <2>2 DEF SentOK
<1>9. QED BY <1>1, <1>3, <1>5, <1>8 DEF hwVars

\* It is the right one, also when the script has been left.
LEMMA DrainKeeps == ASSUME CInv, Drain PROVE CInv'
<1>1. /\ TypesOK /\ UpOK /\ MuxOK /\ SentOK /\ SafeOK /\ ShownOK /\ RoutesOK
      /\ UNCHANGED <<cmdVars, hwVars, keys, out, muxLost, up, relay, msg, slots, retry, bad,
                     uout, rx, terminal, printed, overrun>>
  BY DEF CInv, Drain
<1>2. /\ TypesOK' /\ SentOK' /\ tx # <<>> /\ tx' = Tail(tx) /\ UNCHANGED mux
      /\ recv'["uart5"] = IF mux["uart5"] = "uart3" THEN Append(recv["uart5"], Head(tx))
                          ELSE recv["uart5"]
      /\ recv'["uart2"] = IF mux["uart2"] = "uart3" THEN Append(recv["uart2"], Head(tx))
                          ELSE recv["uart2"]
  BY DrainSent
<1>3. tx \in Bytes /\ recv["uart5"] \in Bytes /\ recv["uart2"] \in Bytes
  BY <1>1, Types
<1>4. UpOK'
  <2>1. Len(tx) \in Nat /\ Len(tx') = Len(tx) - 1
    BY <1>2, <1>3, HeadTailProperties, LenProperties DEF Bytes
  <2>2. Fifo \in Nat /\ slots \in Nat
    BY <1>1, ConsoleAssumption DEF SuartAssumption, TypesOK
  <2>3. QED BY <1>1, <2>1, <2>2 DEF UpOK, cmdVars
<1>5. MuxOK' /\ ShownOK' /\ RoutesOK'
  BY <1>1 DEF MuxOK, ShownOK, Showing, RoutesOK, cmdVars, hwVars
<1>6. SafeOK'
  <2> DEFINE all == Login2 \o Keys
  <2>1. all \in Bytes /\ Login5 \in Bytes /\ Tail(tx) \in Bytes
    BY <1>2, <1>3, ToSends, FirstAndRest
  <2>2. CASE mux["uart5"] = "uart3"
    <3>1. mux["uart2"] # "uart3" /\ recv["uart2"] = <<>> /\ IsPrefixOf(recv["uart5"] \o tx, Login5)
          /\ IsPrefixOf(recv["uart2"], all)
      BY <1>1, <2>2 DEF SafeOK, SafeWith
    <3>2. recv'["uart5"] = Append(recv["uart5"], Head(tx)) /\ recv'["uart2"] = <<>>
      BY <1>2, <2>2, <3>1
    <3>3. recv'["uart5"] \o tx' = recv["uart5"] \o tx /\ recv'["uart5"] \in Bytes
      <4> DEFINE s == recv["uart5"]
      <4>1. s \in Bytes
        BY <1>3
      <4> HIDE DEF s
      <4>2. Append(s, Head(tx)) \o Tail(tx) = s \o tx /\ Append(s, Head(tx)) \in Bytes
        BY <1>2, <1>3, <4>1, Moved
      <4>3. QED BY <1>2, <3>2, <4>2 DEF s
    <3>4. IsPrefixOf(recv'["uart5"] \o tx', Login5)
      BY <3>1, <3>3, Zenon
    <3>5. IsPrefixOf(recv'["uart5"], Login5)
      BY <1>2, <2>1, <3>3, <3>4, Shorter
    <3>6. QED BY <1>2, <3>1, <3>2, <3>4, <3>5, Zenon DEF SafeOK, SafeWith
  <2>3. CASE mux["uart2"] = "uart3"
    <3>1. mux["uart5"] # "uart3" /\ recv["uart5"] = Login5 /\ IsPrefixOf(recv["uart2"] \o tx, all)
          /\ IsPrefixOf(recv["uart5"], Login5)
      BY <1>1, <2>3 DEF SafeOK, SafeWith
    <3>2. recv'["uart2"] = Append(recv["uart2"], Head(tx)) /\ recv'["uart5"] = Login5
      BY <1>2, <2>3, <3>1
    <3>3. recv'["uart2"] \o tx' = recv["uart2"] \o tx /\ recv'["uart2"] \in Bytes
      <4> DEFINE s == recv["uart2"]
      <4>1. s \in Bytes
        BY <1>3
      <4> HIDE DEF s
      <4>2. Append(s, Head(tx)) \o Tail(tx) = s \o tx /\ Append(s, Head(tx)) \in Bytes
        BY <1>2, <1>3, <4>1, Moved
      <4>3. QED BY <1>2, <3>2, <4>2 DEF s
    <3>4. IsPrefixOf(recv'["uart2"] \o tx', all)
      BY <3>1, <3>3, Zenon
    <3> HIDE DEF all
    <3>5. IsPrefixOf(recv'["uart2"], all)
      BY <1>2, <2>1, <3>3, <3>4, Shorter
    <3>6. QED BY <1>2, <3>1, <3>2, <3>4, <3>5, Zenon DEF SafeOK, SafeWith, all
  <2>4. CASE mux["uart5"] # "uart3" /\ mux["uart2"] # "uart3"
    BY <1>1, <1>2, <2>4 DEF SafeOK, SafeWith
  <2>5. QED BY <2>2, <2>3, <2>4
<1>7. QED BY <1>2, <1>4, <1>5, <1>6 DEF CInv

-----------------------------------------------------------------------------
(***************************************************************************)
(* The steps of the script.                                                *)
(***************************************************************************)

\* Before the relay runs, what the receiver forgets is never shown.
LEMMA Forgotten ==
  ASSUME TypesOK, ShownOK, Showing, printed = <<>>, uout = <<>>
  PROVE  \E head \in Bytes : head \o (<<>> \o (<<>> \o (<<>> \o out))) = Output
<1>1. rx \in Bytes /\ out \in Bytes
  BY Types
<1>2. PICK head \in Bytes : head \o (<<>> \o (<<>> \o (rx \o out))) = Output
  BY DEF ShownOK, Showing
<1> DEFINE r == rx \o out
           h == head \o rx
<1>3. r \in Bytes /\ h \in Bytes
  BY <1>1, Joined
<1>4. h \o out = head \o r
  OBVIOUS
<1> HIDE DEF r
<1>5. <<>> \o r = r /\ <<>> \o out = out
  BY <1>1, <1>3, Joined
<1>6. head \o (<<>> \o (<<>> \o r)) = Output
  BY <1>2 DEF r
<1>7. h \o out = Output
  BY <1>4, <1>5, <1>6, Zenon
<1> HIDE DEF h
<1>8. h \o (<<>> \o (<<>> \o (<<>> \o out))) = Output
  BY <1>5, <1>7, Zenon
<1>9. QED BY <1>3, <1>8

\* Such a step leaves the rest of the script, and of the output, as they were.
LEMMA Goes ==
  ASSUME CInv, pc = "script", up = "idle", at \in 1 .. 23, at \notin Flushes, at' = at + 1,
         UNCHANGED <<pc, saved, up, relay, msg, slots, retry, uout, tx, typed, printed, overrun,
                     keys, out, recv, muxLost>>,
         rx' \in {rx, <<>>}, at \in Sleeps => tx = <<>>,
         mux' \in [Uarts -> {"pins", "uart2", "uart3"}], MuxOK'
  PROVE  CInv'
<1>1. TypesOK /\ UpOK /\ MuxOK /\ SentOK /\ SafeOK /\ ShownOK /\ RoutesOK
  BY DEF CInv
<1>2. ToRead' = ToRead /\ Due = at /\ Due' = at + 1
  BY DEF ToRead, Due
<1>3. ~relay /\ msg = <<>>
  BY <1>1 DEF UpOK
<1>4. TypesOK'
  <2>1. rx' \in Bytes
    <3>1. rx \in Bytes
      BY <1>1, Types
    <3>2. <<>> \in Bytes
      BY DEF Bytes
    <3>3. QED BY <3>1, <3>2
  <2>2. at' \in 1 .. 24
    OBVIOUS
  <2>3. QED BY <1>1, <2>1, <2>2 DEF TypesOK
<1>5. UpOK'
  BY <1>1, <1>3 DEF UpOK
<1>6. SentOK'
  <2>1. CASE at <= 12
    <3>1. ToSend5(Due') = ToSend5(Due)
      BY <1>2, <2>1, ToSendNext
    <3>2. /\ recv["uart2"] = <<>> /\ ToRead = Keys
          /\ recv["uart5"] \o (tx \o (msg \o ToSend5(Due))) = Login5
      <4>1. at <= 13
        BY <2>1
      <4>2. QED BY <1>1, <4>1, Zenon DEF SentOK
    <3>3. recv'["uart5"] \o (tx' \o (msg' \o ToSend5(Due'))) = Login5
      BY <3>1, <3>2, Zenon
    <3>4. at' \in 1 .. 4 \union {13} => tx' = <<>>
      <4>1. at \in 1 .. 4 => tx = <<>>
        BY <1>1 DEF SentOK
      <4>2. at = 12 => at \in Sleeps
        BY DEF Sleeps
      <4>3. QED BY <4>1, <4>2
    <3>5. /\ pc' = "script" /\ pc' # "probe" /\ at' <= 13 /\ ~(at' > 13)
          /\ at' \in 1 .. 4 \union 13 .. 16 => tx' = <<>>
      BY <2>1, <3>4
    <3>6. recv'["uart2"] = <<>> /\ ToRead' = Keys
      BY <1>2, <3>2
    <3>7. QED BY <3>3, <3>5, <3>6, Zenon DEF SentOK
  <2>2. CASE at = 13
    <3>1. tx = <<>> /\ recv["uart2"] = <<>> /\ ToRead = Keys
      BY <1>1, <2>2 DEF SentOK
    <3>2. recv["uart5"] \o (tx \o (msg \o ToSend5(13))) = Login5
      <4>1. at <= 13 /\ Due = 13
        BY <1>2, <2>2
      <4>2. QED BY <1>1, <4>1, Zenon DEF SentOK
    <3>3. recv["uart5"] \o (<<>> \o (<<>> \o <<>>)) = Login5
      BY <1>3, <3>1, <3>2, ToSendAll, Zenon
    <3>4. recv["uart5"] = Login5
      <4>1. <<>> \o <<>> = <<>> /\ recv["uart5"] \o <<>> = recv["uart5"]
        BY <1>1, Types, Joined DEF Bytes
      <4>2. QED BY <3>3, <4>1, Zenon
    <3>5. ToSend2(14) = Login2
      BY ToSendAll
    <3>6. <<>> \o (<<>> \o (<<>> \o (Login2 \o Keys))) = Login2 \o Keys
      <4> DEFINE all == Login2 \o Keys
      <4>1. all \in Bytes
        BY ToSends
      <4> HIDE DEF all
      <4>2. <<>> \o all = all
        BY <4>1, Joined
      <4>3. <<>> \o (<<>> \o (<<>> \o all)) = all
        BY <4>2, Zenon
      <4>4. QED BY <4>3 DEF all
    <3>7. Due' = 14 /\ at' = 14
      BY <1>2, <2>2
    <3>8. recv'["uart2"] \o (tx' \o (msg' \o (ToSend2(Due') \o ToRead'))) = Login2 \o Keys
      BY <1>2, <1>3, <3>1, <3>5, <3>6, <3>7, Zenon
    <3>9. QED BY <3>1, <3>4, <3>7, <3>8 DEF SentOK
  <2>3. CASE at > 13
    <3>1. ToSend2(Due') = ToSend2(Due)
      BY <1>2, ToSendNext
    <3>2. /\ recv["uart5"] = Login5
          /\ recv["uart2"] \o (tx \o (msg \o (ToSend2(Due) \o ToRead))) = Login2 \o Keys
      BY <1>1, <2>3 DEF SentOK
    <3>3. recv'["uart2"] \o (tx' \o (msg' \o (ToSend2(Due') \o ToRead'))) = Login2 \o Keys
      BY <1>2, <3>1, <3>2, Zenon
    <3>4. at' \in 13 .. 16 => tx' = <<>>
      BY <1>1, <2>3 DEF SentOK
    <3>5. QED BY <2>3, <3>2, <3>3, <3>4 DEF SentOK
  <2>4. QED BY <2>1, <2>2, <2>3
<1>7. SafeOK'
  BY <1>4, <1>6, SafeNext
<1>8. ShownOK'
  <2>1. printed = <<>> /\ uout = <<>>
    BY <1>1, <1>3 DEF ShownOK, Showing
  <2>2. CASE rx' = rx
    BY <1>1, <2>2 DEF ShownOK, Showing
  <2>3. CASE rx' = <<>>
    BY <1>1, <2>1, <2>3, Forgotten DEF ShownOK, Showing
  <2>4. QED BY <2>2, <2>3
<1>9. RoutesOK'
  BY DEF RoutesOK
<1>10. QED BY <1>4, <1>5, <1>6, <1>7, <1>8, <1>9 DEF CInv

\* A step that leaves the script leaves the routes so that nothing goes astray.
LEMMA Leaves ==
  ASSUME CInv, pc = "script", up' = "idle", pc' \in {"unsuart", "unmux", "done"},
         UNCHANGED <<at, saved, relay, msg, slots, retry, uout, tx, typed, printed, overrun,
                     keys, out, recv>>,
         rx' = rx \/ (rx' = <<>> /\ up = "idle"), muxLost' \in BOOLEAN,
         mux' \in [Uarts -> {"pins", "uart2", "uart3"}],
         mux'["uart5"] = "uart3" => at <= 13 /\ mux'["uart2"] # "uart3",
         mux'["uart2"] = "uart3" => at > 13 /\ mux'["uart5"] # "uart3",
         pc' = "done" /\ ~muxLost' => mux' = saved
  PROVE  CInv'
<1>1. TypesOK /\ UpOK /\ MuxOK /\ SentOK /\ SafeOK /\ ShownOK /\ RoutesOK
  BY DEF CInv
<1>2. TypesOK'
  <2>1. rx' \in Bytes
    <3>1. rx \in Bytes
      BY <1>1, Types
    <3>2. <<>> \in Bytes
      BY DEF Bytes
    <3>3. QED BY <3>1, <3>2
  <2>2. QED BY <1>1, <2>1 DEF TypesOK
<1>3. UpOK' /\ MuxOK' /\ SentOK'
  BY DEF UpOK, MuxOK, SentOK
<1>4. SafeOK'
  <2> DEFINE m == mux'
  <2>1. /\ m["uart5"] = "uart3" => at <= 13 /\ m["uart2"] # "uart3"
        /\ m["uart2"] = "uart3" => at > 13 /\ m["uart5"] # "uart3"
    OBVIOUS
  <2> HIDE DEF m
  <2>2. SafeWith(m)
    BY <1>1, <2>1, Safe
  <2>3. QED BY <2>2 DEF SafeOK, SafeWith, m
<1>5. ShownOK'
  <2>1. CASE rx' = rx
    BY <1>1, <2>1 DEF ShownOK, Showing
  <2>2. CASE rx' = <<>> /\ up = "idle"
    <3>1. printed = <<>> /\ uout = <<>>
      BY <1>1, <2>2 DEF UpOK, ShownOK, Showing
    <3>2. QED BY <1>1, <2>2, <3>1, Forgotten DEF ShownOK, Showing
  <2>3. QED BY <2>1, <2>2
<1>6. RoutesOK'
  BY DEF RoutesOK
<1>7. QED BY <1>2, <1>3, <1>4, <1>5, <1>6 DEF CInv

\* Where the script is, by the kind of its step, and where an error goes.
LEMMA At ==
  ASSUME at \in 1 .. 24
  PROVE  /\ Script[at][1] = "clk_enable" <=> at = 1
         /\ Script[at][1] = "route" <=> at = 2
         /\ Script[at][1] = "init" <=> at = 3
         /\ Script[at][1] = "baud" <=> at \in Bauds
         /\ Script[at][1] = "flush" <=> at \in Flushes
         /\ Script[at][1] = "sleep" <=> at \in Sleeps
         /\ Script[at][1] = "restore" <=> at = 13
         /\ Script[at][1] = "connect" <=> at = 14
         /\ Script[at][1] = "connected" <=> at = 15
         /\ Script[at][1] = "run" <=> at = 24
         /\ CleanUp(Script[at][1]) = IF at \in {1, 2} THEN "done"
                                     ELSE IF at = 3 THEN "unmux" ELSE "unsuart"
<1> DEFINE k == Script[at][1]
<1>1. /\ at = 1 => k = "clk_enable"
      /\ at = 2 => k = "route"
      /\ at = 3 => k = "init"
      /\ at \in Bauds => k = "baud"
      /\ at \in Flushes => k = "flush"
      /\ at \in Sleeps => k = "sleep"
      /\ at = 13 => k = "restore"
      /\ at = 14 => k = "connect"
      /\ at = 15 => k = "connected"
      /\ at = 24 => k = "run"
  BY Kinds
<1>2. /\ k = "clk_enable" <=> at = 1
      /\ k = "route" <=> at = 2
      /\ k = "init" <=> at = 3
      /\ k = "baud" <=> at \in Bauds
      /\ k = "flush" <=> at \in Flushes
      /\ k = "sleep" <=> at \in Sleeps
      /\ k = "restore" <=> at = 13
      /\ k = "connect" <=> at = 14
      /\ k = "connected" <=> at = 15
      /\ k = "run" <=> at = 24
  <2> HIDE DEF k
  <2>1. at \in {1, 2, 3, 13, 14, 15, 24} \union Bauds \union Flushes \union Sleeps
    BY DEF Bauds, Flushes, Sleeps
  <2>2. QED BY <1>1, <2>1 DEF Bauds, Flushes, Sleeps
<1> HIDE DEF k
<1>3. CleanUp(k) = IF at \in {1, 2} THEN "done" ELSE IF at = 3 THEN "unmux" ELSE "unsuart"
  BY <1>2 DEF CleanUp
<1>4. QED BY <1>2, <1>3 DEF k

\* The discovery, behind which the script begins.
LEMMA ProbeKeeps == ASSUME CInv, Probe PROVE CInv'
<1>1. /\ TypesOK /\ UpOK /\ MuxOK /\ SentOK /\ SafeOK /\ ShownOK /\ RoutesOK
      /\ pc = "probe" /\ at' = at
      /\ UNCHANGED <<mux, enabled, keys, out, recv, muxLost, suartVars>>
      /\ \/ pc' = "done" /\ saved' = saved
         \/ pc' = "script" /\ saved' = mux
  BY DEF CInv, Probe
<1>2. at = 1 /\ mux = Pins /\ saved' = Pins /\ saved = Pins /\ up = "idle" /\ ~relay /\ msg = <<>>
  BY <1>1 DEF TypesOK, UpOK, MuxOK, SentOK
<1>3. UNCHANGED <<Due, ToRead>> /\ Due = 1
  BY <1>1, <1>2 DEF Due, ToRead, suartVars, terminal
<1>4. TypesOK'
  BY <1>1, <1>2 DEF TypesOK, suartVars, terminal
<1>5. UpOK' /\ MuxOK'
  BY <1>1, <1>2 DEF UpOK, MuxOK, suartVars
<1>6. SentOK'
  <2>1. tx = <<>> /\ recv["uart5"] = <<>> /\ recv["uart2"] = <<>> /\ ToRead = Keys
    BY <1>1 DEF SentOK
  <2>2. ToSend5(1) = Login5
    BY ToSendAll
  <2>3. <<>> \o (<<>> \o (<<>> \o Login5)) = Login5
    <3>1. <<>> \o Login5 = Login5
      BY ToSends, Joined
    <3>2. QED BY <3>1, Zenon
  <2>4. recv'["uart5"] \o (tx' \o (msg' \o ToSend5(Due'))) = Login5
    <3>1. recv' = recv /\ tx' = tx /\ msg' = msg /\ Due' = 1
      BY <1>1, <1>3 DEF suartVars
    <3>2. QED BY <1>2, <2>1, <2>2, <2>3, <3>1, Zenon
  <2>5. pc' # "probe" /\ at' <= 13 /\ ~(at' > 13) /\ tx' = <<>>
    BY <1>1, <1>2, <2>1 DEF suartVars
  <2>6. recv'["uart2"] = <<>> /\ ToRead' = Keys
    BY <1>1, <1>3, <2>1
  <2>7. QED BY <2>4, <2>5, <2>6, Zenon DEF SentOK
<1>7. SafeOK'
  BY <1>1, SafeStays DEF suartVars
<1>8. ShownOK'
  BY <1>1 DEF ShownOK, Showing, suartVars
<1>9. RoutesOK'
  BY <1>1, <1>2 DEF RoutesOK
<1>10. QED BY <1>4, <1>5, <1>6, <1>7, <1>8, <1>9 DEF CInv

\* A step of the script, but for those of the software UART.
Works(kind) == Doing(kind) /\ up = "idle" /\ at \in 1 .. 23 /\ at \notin Flushes

\* They find the UART idle.
LEMMA Working ==
  ASSUME TypesOK, UpOK, NEW kind, Doing(kind), kind \notin {"flush", "run"}
  PROVE  Works(kind) /\ ~relay
<1>1. pc = "script" /\ Script[at][1] = kind /\ at \in 1 .. 24
  BY DEF Doing, TypesOK
<1>2. at \notin Flushes /\ at # 24
  BY <1>1, At
<1>3. up = "idle" /\ ~relay
  BY <1>1, <1>2 DEF UpOK
<1>4. QED BY <1>1, <1>2, <1>3 DEF Works

\* The clock of the UARTs.
LEMMA ClockKeeps == ASSUME CInv, clk_enable PROVE CInv'
<1>1. TypesOK /\ UpOK /\ MuxOK /\ Doing("clk_enable") /\ at \in 1 .. 24
  BY DEF CInv, clk_enable, TypesOK
<1>2. Works("clk_enable") /\ at = 1 /\ pc = "script"
  BY <1>1, Working, At DEF Doing
<1>3. /\ mux = Pins /\ saved = Pins /\ mux \in [Uarts -> {"pins", "uart2", "uart3"}]
      /\ muxLost \in BOOLEAN
  BY <1>1, <1>2 DEF MuxOK, TypesOK
<1>4. /\ UNCHANGED <<saved, up, relay, msg, slots, retry, uout, tx, typed, printed, overrun,
                     keys, out, recv, muxLost, mux, rx>>
  BY DEF clk_enable, hwVars, suartVars, terminal
<1>5. CASE Done
  <2>1. pc' = pc /\ at' = at + 1
    BY <1>5 DEF Done
  <2>2. MuxOK'
    BY <1>2, <1>3, <1>4, <2>1 DEF MuxOK
  <2>3. at \notin Sleeps
    BY <1>2 DEF Sleeps
  <2>4. QED BY <1>2, <1>3, <1>4, <2>1, <2>2, <2>3, Goes DEF Works
<1>6. CASE Error
  <2>1. pc' = "done" /\ at' = at
    BY <1>1, <1>2, <1>6, At DEF Error
  <2>2. mux'["uart5"] # "uart3" /\ mux'["uart2"] # "uart3" /\ mux' = saved /\ up' = "idle"
    BY <1>2, <1>3, <1>4 DEF Pins, Works
  <2>3. QED BY <1>2, <1>3, <1>4, <2>1, <2>2, Leaves
<1>7. QED BY <1>5, <1>6 DEF clk_enable

\* A step that writes a route, or has done so before it failed.
LEMMA OneRoute ==
  ASSUME CInv, pc = "script", up = "idle", at \in {2, 14, 15}, NEW s, NEW d, Route(s, d),
         UNCHANGED <<saved, keys, out, recv, suartVars>>,
         <<at, s, d>> \in {<<2, "uart3", "uart5">>, <<14, "uart3", "uart2">>,
                           <<15, "uart2", "uart3">>}
  PROVE  CInv'
<1> DEFINE routed == [mux EXCEPT ![d] = s]
<1>1. /\ TypesOK /\ UpOK /\ MuxOK
      /\ UNCHANGED <<saved, up, relay, msg, slots, retry, uout, tx, typed, printed, overrun,
                     keys, out, recv, rx>>
  BY DEF CInv, suartVars, terminal
<1>2. /\ mux \in [Uarts -> {"pins", "uart2", "uart3"}] /\ saved = Pins /\ muxLost \in BOOLEAN
      /\ at \in 1 .. 23 /\ at \notin Flushes /\ at \notin Sleeps
  BY <1>1 DEF TypesOK, Flushes, Sleeps
<1>3. /\ at \in {2, 14} => mux = Pins
      /\ at = 15 => mux = [Pins EXCEPT !["uart2"] = "uart3"]
  BY <1>1 DEF MuxOK
<1>4. routed \in [Uarts -> {"pins", "uart2", "uart3"}]
  BY <1>2 DEF Uarts
<1>5. /\ at = 2 => routed = [Pins EXCEPT !["uart5"] = "uart3"]
      /\ at = 14 => routed = [Pins EXCEPT !["uart2"] = "uart3"]
      /\ at = 15 => routed = [Pins EXCEPT !["uart2"] = "uart3", !["uart3"] = "uart2"]
  <2>1. /\ at = 2 => s = "uart3" /\ d = "uart5"
        /\ at = 14 => s = "uart3" /\ d = "uart2"
        /\ at = 15 => s = "uart2" /\ d = "uart3"
    OBVIOUS
  <2>2. QED BY <1>3, <2>1 DEF Pins
<1> HIDE DEF routed
<1>6. CASE mux' = routed /\ Done /\ muxLost' = muxLost
  <2>1. pc' = pc /\ at' = at + 1
    BY <1>6 DEF Done
  <2>2. MuxOK'
    BY <1>5, <1>6, <2>1 DEF MuxOK
  <2>3. QED BY <1>1, <1>2, <1>4, <1>6, <2>1, <2>2, Goes
<1>7. CASE /\ Error /\ mux' \in {mux, routed}
           /\ muxLost' = (muxLost \/ CleanUp(Script[at][1]) = "done")
  <2>1. /\ pc' \in {"done", "unsuart"} /\ at' = at
        /\ pc' = "done" => muxLost' = TRUE
    <3>1. pc' = CleanUp(Script[at][1]) /\ at' = at /\ muxLost' = (muxLost \/ pc' = "done")
      BY <1>7, Zenon DEF Error
    <3>2. at' = at /\ pc' \in {"done", "unsuart"}
      BY <1>2, <3>1, At
    <3>3. ASSUME pc' = "done" PROVE muxLost' = TRUE
      BY <3>1, <3>3, Zenon
    <3>4. QED BY <3>2, <3>3
  <2>2. muxLost' \in BOOLEAN
    BY <1>2, <1>7, Zenon
  <2>3. /\ mux["uart5"] # "uart3"
        /\ mux["uart2"] = "uart3" => at > 13
        /\ routed["uart5"] = "uart3" => at <= 13 /\ routed["uart2"] # "uart3"
        /\ routed["uart2"] = "uart3" => at > 13 /\ routed["uart5"] # "uart3"
    BY <1>3, <1>5 DEF Pins
  <2>4. /\ mux'["uart5"] = "uart3" => at <= 13 /\ mux'["uart2"] # "uart3"
        /\ mux'["uart2"] = "uart3" => at > 13 /\ mux'["uart5"] # "uart3"
        /\ mux' \in [Uarts -> {"pins", "uart2", "uart3"}]
    BY <1>2, <1>4, <1>7, <2>3
  <2>5. QED BY <1>1, <2>1, <2>2, <2>4, Leaves
<1>8. QED BY <1>6, <1>7 DEF Route, routed

\* The three such steps.
LEMMA RouteKeeps == ASSUME CInv, RouteStep PROVE CInv'
<1>1. /\ TypesOK /\ UpOK /\ at \in 1 .. 24
      /\ UNCHANGED <<saved, keys, out, recv, suartVars>>
  BY DEF CInv, RouteStep, TypesOK
<1>2. CASE Doing("route") /\ Route("uart3", "uart5")
  <2>1. pc = "script" /\ up = "idle" /\ at = 2
    BY <1>1, <1>2, Working, At DEF Doing, Works
  <2>2. QED BY <1>1, <1>2, <2>1, OneRoute
<1>3. CASE Doing("connect") /\ Route("uart3", "uart2")
  <2>1. pc = "script" /\ up = "idle" /\ at = 14
    BY <1>1, <1>3, Working, At DEF Doing, Works
  <2>2. QED BY <1>1, <1>3, <2>1, OneRoute
<1>4. CASE Doing("connected") /\ Route("uart2", "uart3")
  <2>1. pc = "script" /\ up = "idle" /\ at = 15
    BY <1>1, <1>4, Working, At DEF Doing, Works
  <2>2. QED BY <1>1, <1>4, <2>1, OneRoute
<1>5. QED BY <1>2, <1>3, <1>4 DEF RouteStep

\* The routes of a step that changes none are those of the step behind it, and
\* nothing goes astray where it fails.
LEMMA SameRoutes ==
  ASSUME TypesOK, MuxOK, pc = "script", at \in 1 .. 24
  PROVE  /\ mux \in [Uarts -> {"pins", "uart2", "uart3"}] /\ muxLost \in BOOLEAN
         /\ mux["uart5"] = "uart3" => at <= 13 /\ mux["uart2"] # "uart3"
         /\ mux["uart2"] = "uart3" => at > 13 /\ mux["uart5"] # "uart3"
         /\ at \notin {2, 13, 14, 15} /\ at' = at + 1 /\ UNCHANGED <<pc, mux>> => MuxOK'
<1>1. /\ mux \in [Uarts -> {"pins", "uart2", "uart3"}] /\ muxLost \in BOOLEAN
      /\ mux["uart5"] = "uart3" => at <= 13 /\ mux["uart2"] # "uart3"
      /\ mux["uart2"] = "uart3" => at > 13 /\ mux["uart5"] # "uart3"
  BY DEF TypesOK, MuxOK, Pins
<1>2. at \notin {2, 13, 14, 15} /\ at' = at + 1 /\ UNCHANGED <<pc, mux>> => MuxOK'
  BY DEF MuxOK
<1>3. QED BY <1>1, <1>2

\* UART3 is initialised, with empty FIFOs.
LEMMA InitKeeps == ASSUME CInv, suart_init PROVE CInv'
<1>1. /\ TypesOK /\ UpOK /\ MuxOK /\ SentOK /\ Doing("init") /\ at \in 1 .. 24
      /\ UNCHANGED <<mux, saved, keys, out, recv, muxLost, up, relay, msg, slots, retry, bad,
                     uout, terminal, printed, overrun>>
  BY DEF CInv, suart_init, TypesOK
<1>2. pc = "script" /\ up = "idle" /\ at = 3 /\ at \notin Flushes /\ at \notin Sleeps
  BY <1>1, Working, At DEF Doing, Works, Flushes, Sleeps
<1>3. tx = <<>>
  BY <1>1, <1>2 DEF SentOK
<1>4. tx' = tx /\ rx' \in {rx, <<>>} /\ typed' = typed
  BY <1>1, <1>3 DEF suart_init, ResetFifos, terminal
<1>5. CASE Done
  <2>1. pc' = pc /\ at' = at + 1
    BY <1>5 DEF Done
  <2>2. /\ mux' \in [Uarts -> {"pins", "uart2", "uart3"}] /\ MuxOK'
    BY <1>1, <1>2, <2>1, SameRoutes
  <2>3. QED BY <1>1, <1>2, <1>4, <2>1, <2>2, Goes
<1>6. CASE Error
  <2>1. pc' = "unmux" /\ at' = at
    BY <1>1, <1>2, <1>6, At DEF Error
  <2>2. /\ mux' \in [Uarts -> {"pins", "uart2", "uart3"}] /\ muxLost' \in BOOLEAN
        /\ mux'["uart5"] = "uart3" => at <= 13 /\ mux'["uart2"] # "uart3"
        /\ mux'["uart2"] = "uart3" => at > 13 /\ mux'["uart5"] # "uart3"
    BY <1>1, <1>2, SameRoutes
  <2>3. QED BY <1>1, <1>2, <1>4, <2>1, <2>2, Leaves
<1>7. QED BY <1>5, <1>6 DEF suart_init

\* The baud rate is set, which empties the FIFOs.
LEMMA BaudKeeps == ASSUME CInv, set_baud PROVE CInv'
<1>1. /\ TypesOK /\ UpOK /\ MuxOK /\ SentOK /\ Doing("baud") /\ at \in 1 .. 24
      /\ UNCHANGED <<hwVars, keys, out, recv, muxLost, up, relay, msg, slots, retry, bad,
                     uout, terminal, printed, overrun>>
  BY DEF CInv, set_baud, TypesOK
<1>2. pc = "script" /\ up = "idle" /\ at \in {4, 16} /\ at \notin Flushes /\ at \notin Sleeps
  BY <1>1, Working, At DEF Doing, Works, Bauds, Flushes, Sleeps
<1>3. tx = <<>>
  BY <1>1, <1>2 DEF SentOK
<1>4. tx' = tx /\ rx' \in {rx, <<>>} /\ typed' = typed /\ mux' = mux /\ saved' = saved
  BY <1>1, <1>3 DEF set_baud, ResetFifos, terminal, hwVars
<1>5. CASE Done
  <2>1. pc' = pc /\ at' = at + 1
    BY <1>5 DEF Done
  <2>2. /\ mux' \in [Uarts -> {"pins", "uart2", "uart3"}] /\ MuxOK'
    BY <1>1, <1>2, <1>4, <2>1, SameRoutes
  <2>3. QED BY <1>1, <1>2, <1>4, <2>1, <2>2, Goes
<1>6. CASE Error
  <2>1. pc' = "unsuart" /\ at' = at
    BY <1>1, <1>2, <1>6, At DEF Error
  <2>2. /\ mux' \in [Uarts -> {"pins", "uart2", "uart3"}] /\ muxLost' \in BOOLEAN
        /\ mux'["uart5"] = "uart3" => at <= 13 /\ mux'["uart2"] # "uart3"
        /\ mux'["uart2"] = "uart3" => at > 13 /\ mux'["uart5"] # "uart3"
    BY <1>1, <1>2, <1>4, SameRoutes
  <2>3. QED BY <1>1, <1>2, <1>4, <2>1, <2>2, Leaves
<1>7. QED BY <1>5, <1>6 DEF set_baud

\* A pause, in which the FIFO empties.
LEMMA SleepKeeps == ASSUME CInv, Sleep PROVE CInv'
<1>1. /\ TypesOK /\ UpOK /\ MuxOK /\ Doing("sleep") /\ at \in 1 .. 24 /\ tx = <<>>
      /\ pc' = pc /\ at' = at + 1
      /\ UNCHANGED <<saved, mux, up, relay, msg, slots, retry, uout, tx, rx, typed, printed,
                     overrun, keys, out, recv, muxLost>>
  BY DEF CInv, Sleep, TypesOK, Done, hwVars, suartVars, terminal
<1>2. pc = "script" /\ up = "idle" /\ at \in Sleeps /\ at \in 1 .. 23 /\ at \notin Flushes
  BY <1>1, Working, At DEF Doing, Works
<1>3. mux' \in [Uarts -> {"pins", "uart2", "uart3"}] /\ MuxOK'
  BY <1>1, <1>2, SameRoutes DEF Sleeps
<1>4. QED BY <1>1, <1>2, <1>3, Goes

\* The routes are restored, in the script and on the way out.
LEMMA RestoreKeeps == ASSUME CInv, Restore PROVE CInv'
<1>1. /\ TypesOK /\ UpOK /\ MuxOK /\ SentOK /\ SafeOK /\ ShownOK /\ RoutesOK /\ at \in 1 .. 24
      /\ UNCHANGED <<saved, up, relay, msg, slots, retry, uout, tx, rx, typed, printed,
                     overrun, keys, out, recv>>
  BY DEF CInv, Restore, TypesOK, suartVars, terminal
<1>2. /\ saved = Pins /\ saved \in [Uarts -> {"pins", "uart2", "uart3"}]
      /\ mux \in [Uarts -> {"pins", "uart2", "uart3"}] /\ muxLost \in BOOLEAN
  BY <1>1 DEF TypesOK, Pins, Uarts
<1>3. CASE Doing("restore")
  <2>1. pc = "script" /\ up = "idle" /\ at = 13 /\ at \notin Flushes /\ at \notin Sleeps
    BY <1>1, <1>3, Working, At DEF Doing, Works, Flushes, Sleeps
  <2>2. mux = [Pins EXCEPT !["uart5"] = "uart3"]
    BY <1>1, <2>1 DEF MuxOK
  <2>3. pc # "unmux"
    BY <2>1
  <2>4. CASE Done /\ mux' = saved /\ muxLost' = muxLost
    <3>1. pc' = pc /\ at' = at + 1
      BY <2>4 DEF Done
    <3>2. MuxOK'
      BY <1>2, <2>1, <2>4, <3>1 DEF MuxOK
    <3>3. QED BY <1>1, <1>2, <2>1, <2>4, <3>1, <3>2, Goes
  <2>5. CASE Error /\ mux' \in {mux, saved} /\ muxLost' = muxLost
    <3>1. pc' = "unsuart" /\ at' = at
      BY <1>1, <2>1, <2>5, At DEF Error
    <3>2. /\ mux' \in [Uarts -> {"pins", "uart2", "uart3"}] /\ mux'["uart2"] # "uart3"
      BY <1>2, <2>2, <2>5 DEF Pins
    <3>3. muxLost' \in BOOLEAN /\ up' = "idle"
      BY <1>1, <1>2, <2>1, <2>5
    <3>4. QED BY <1>1, <2>1, <3>1, <3>2, <3>3, Leaves
  <2>6. QED BY <2>3, <2>4, <2>5 DEF Restore
<1>4. CASE pc = "unmux" /\ pc' = "done" /\ at' = at
           /\ (mux' = saved \/ (mux' = mux /\ muxLost' = TRUE)) /\ muxLost' \in {muxLost, TRUE}
  <2>1. TypesOK'
    <3>1. muxLost' \in BOOLEAN
      BY <1>2, <1>4
    <3>2. QED BY <1>1, <1>2, <1>4, <3>1 DEF TypesOK
  <2>2. UpOK' /\ MuxOK' /\ SentOK'
    BY <1>1, <1>4 DEF UpOK, MuxOK, SentOK
  <2>3. SafeOK'
    BY <1>1, <1>2, <1>4 DEF SafeOK, SafeWith, Pins
  <2>4. ShownOK'
    BY <1>1, <1>4 DEF ShownOK, Showing
  <2>5. RoutesOK'
    BY <1>1, <1>4 DEF RoutesOK
  <2>6. QED BY <2>1, <2>2, <2>3, <2>4, <2>5 DEF CInv
<1>5. QED BY <1>3, <1>4 DEF Restore

\* The UART, or another, is disabled on the way out.
LEMMA UnsuartKeeps == ASSUME CInv, Unsuart PROVE CInv'
<1>1. /\ TypesOK /\ UpOK /\ SafeOK /\ ShownOK /\ pc = "unsuart" /\ pc' = "unmux"
      /\ UNCHANGED <<at, mux, saved, up, relay, msg, slots, retry, uout, tx, rx, typed, printed,
                     overrun, keys, out, recv, muxLost>>
  BY DEF CInv, Unsuart, suartVars, terminal
<1>2. TypesOK'
  BY <1>1 DEF TypesOK
<1>3. UpOK' /\ MuxOK' /\ SentOK' /\ RoutesOK'
  BY <1>1 DEF UpOK, MuxOK, SentOK, RoutesOK
<1>4. SafeOK'
  BY <1>1, SafeStays
<1>5. ShownOK'
  BY <1>1 DEF ShownOK, Showing
<1>6. QED BY <1>2, <1>3, <1>4, <1>5 DEF CInv

-----------------------------------------------------------------------------
(***************************************************************************)
(* The functions of the software UART.                                     *)
(***************************************************************************)

\* They run at a flush, or in the relay.
LEMMA Inside ==
  ASSUME CInv, up # "idle"
  PROVE  /\ pc = "script" /\ at \in 1 .. 24 /\ at \in Flushes \union {24}
         /\ relay <=> at = 24
BY DEF CInv, UpOK, TypesOK, Flushes

\* A step of theirs that takes nothing away from what is on its way.
LEMMA Within ==
  ASSUME CInv, pc = "script", at \in Flushes \union {24}, at' \in {at, at + 1}, at = 24 => at' = at,
         UNCHANGED <<pc, recv, mux, saved, muxLost>>, TypesOK', UpOK', ShownOK',
         at <= 13 => /\ ToRead' = ToRead
                     /\ tx' \o (msg' \o ToSend5(Due')) = tx \o (msg \o ToSend5(Due)),
         at > 13 => tx' \o (msg' \o (ToSend2(Due') \o ToRead'))
                      = tx \o (msg \o (ToSend2(Due) \o ToRead))
  PROVE  CInv'
<1>1. TypesOK /\ MuxOK /\ SentOK /\ at \in 1 .. 24
  BY DEF CInv, TypesOK
<1>2. /\ at \notin 1 .. 4 \union 13 .. 16 /\ at' \notin 1 .. 4 \union 13 .. 16 /\ at' \in 1 .. 24
      /\ at <= 13 <=> at' <= 13
      /\ at \in 3 .. 13 <=> at' \in 3 .. 13
  BY DEF Flushes
<1>3. MuxOK'
  BY <1>1, <1>2 DEF MuxOK
<1>4. SentOK'
  <2>1. CASE at <= 13
    <3>1. ToRead' = ToRead /\ tx' \o (msg' \o ToSend5(Due')) = tx \o (msg \o ToSend5(Due))
      BY <2>1
    <3>2. /\ recv["uart2"] = <<>> /\ ToRead = Keys
          /\ recv["uart5"] \o (tx \o (msg \o ToSend5(Due))) = Login5
      BY <1>1, <2>1, Zenon DEF SentOK
    <3>3. recv'["uart5"] \o (tx' \o (msg' \o ToSend5(Due'))) = Login5
      BY <3>1, <3>2, Zenon
    <3>4. pc' # "probe" /\ at' <= 13 /\ ~(at' > 13)
      BY <1>2, <2>1
    <3>5. recv'["uart2"] = <<>> /\ ToRead' = Keys
      BY <3>1, <3>2, Zenon
    <3>6. QED BY <1>2, <3>3, <3>4, <3>5, Zenon DEF SentOK
  <2>2. CASE at > 13
    <3>1. tx' \o (msg' \o (ToSend2(Due') \o ToRead')) = tx \o (msg \o (ToSend2(Due) \o ToRead))
      BY <2>2
    <3>2. /\ recv["uart5"] = Login5
          /\ recv["uart2"] \o (tx \o (msg \o (ToSend2(Due) \o ToRead))) = Login2 \o Keys
      BY <1>1, <2>2, Zenon DEF SentOK
    <3>3. recv'["uart2"] \o (tx' \o (msg' \o (ToSend2(Due') \o ToRead'))) = Login2 \o Keys
      BY <3>1, <3>2, Zenon
    <3>4. pc' # "probe" /\ ~(at' <= 13)
      BY <1>1, <1>2, <2>2
    <3>5. recv'["uart5"] = Login5
      BY <3>2, Zenon
    <3>6. QED BY <1>2, <3>3, <3>4, <3>5, Zenon DEF SentOK
  <2>3. QED BY <1>1, <2>1, <2>2
<1>5. SafeOK'
  BY <1>3, <1>4, SafeNext
<1>6. RoutesOK'
  BY DEF RoutesOK
<1>7. QED BY <1>3, <1>4, <1>5, <1>6 DEF CInv

\* A step that does not touch what is on its way.
LEMMA WithinQuiet ==
  ASSUME CInv, up # "idle", up' # "idle",
         UNCHANGED <<pc, at, recv, mux, saved, muxLost, tx, msg, typed, keys>>,
         TypesOK', UpOK', ShownOK'
  PROVE  CInv'
<1>1. pc = "script" /\ at \in Flushes \union {24}
  BY Inside
<1>2. ToRead' = ToRead /\ Due' = Due
  BY DEF ToRead, Due
<1>3. /\ tx' \o (msg' \o ToSend5(Due')) = tx \o (msg \o ToSend5(Due))
      /\ tx' \o (msg' \o (ToSend2(Due') \o ToRead')) = tx \o (msg \o (ToSend2(Due) \o ToRead))
  BY <1>2, Zenon
<1>4. QED BY <1>1, <1>2, <1>3, Within

\* THR is written while the FIFO has room: the byte moves on.
LEMMA PutKeeps ==
  ASSUME CInv, up = "thr", PutByte, up' \in {"thr", "failed"},
         UNCHANGED <<pc, at, mux, saved, keys, out, recv, muxLost, relay, retry, uout, rx, typed,
                     printed, overrun>>
  PROVE  CInv'
<1>1. TypesOK /\ UpOK /\ ShownOK /\ Len(tx) + slots <= Fifo
  BY DEF CInv, UpOK
<1>2. pc = "script" /\ at \in Flushes \union {24}
  BY Inside
<1>3. /\ tx \in Bytes /\ msg \in Bytes /\ slots \in Nat /\ Len(tx) \in Nat /\ Fifo \in Nat
  BY <1>1, Types, LenProperties, ConsoleAssumption DEF TypesOK, Bytes, SuartAssumption
<1>4. tx' = Append(tx, Head(msg)) /\ msg' = Tail(msg) /\ msg # <<>> /\ slots' = slots - 1 /\ slots > 0
  BY <1>1, <1>3 DEF PutByte
<1>5. tx' \in Bytes /\ msg' \in Bytes /\ Len(tx') = Len(tx) + 1
  BY <1>3, <1>4, Moved
<1>6. slots' \in Nat /\ Len(tx') + slots' <= Fifo
  BY <1>1, <1>3, <1>4, <1>5
<1>7. TypesOK'
  BY <1>1, <1>5, <1>6 DEF TypesOK
<1>8. UpOK' /\ ShownOK'
  BY <1>1, <1>2, <1>6 DEF UpOK, ShownOK, Showing
<1>9. Due' = Due /\ ToRead' = ToRead
  BY DEF Due, ToRead
<1> DEFINE rest5 == ToSend5(Due)
           rest2 == ToSend2(Due) \o ToRead
<1>10. rest5 \in Bytes /\ rest2 \in Bytes
  BY <1>1, Types
<1>11. ToSend5(Due') = rest5 /\ ToSend2(Due') \o ToRead' = rest2
  BY <1>9, Zenon
<1> HIDE DEF rest5, rest2
<1>12. tx' \o (msg' \o rest5) = tx \o (msg \o rest5)
  BY <1>3, <1>4, <1>10, MovedBefore, Zenon
<1>13. tx' \o (msg' \o rest2) = tx \o (msg \o rest2)
  BY <1>3, <1>4, <1>10, MovedBefore, Zenon
<1>14. /\ tx' \o (msg' \o ToSend5(Due')) = tx \o (msg \o ToSend5(Due))
       /\ tx' \o (msg' \o (ToSend2(Due') \o ToRead')) = tx \o (msg \o (ToSend2(Due) \o ToRead))
  BY <1>11, <1>12, <1>13, Zenon DEF rest5, rest2
<1>15. QED BY <1>2, <1>7, <1>8, <1>9, <1>14, Within

\* An access fails, with or without an effect.
LEMMA FailsKeeps == ASSUME CInv, suart_fails PROVE CInv'
<1>1. /\ TypesOK /\ UpOK /\ ShownOK /\ up # "idle" /\ up' = "failed"
      /\ UNCHANGED <<pc, at, mux, saved, enabled, keys, out, recv, muxLost, relay,
                     retry, uout, typed, printed, overrun>>
  BY DEF CInv, suart_fails, Fails, cmdVars, hwVars, terminal
<1>2. CASE up = "thr" /\ PutByte /\ UNCHANGED rx
  BY <1>1, <1>2, PutKeeps
<1>3. ASSUME UNCHANGED <<msg, slots, tx>>, rx' \in Bytes
      PROVE  CInv'
  <2>1. TypesOK' /\ UpOK' /\ ShownOK'
    BY <1>1, <1>3 DEF TypesOK, UpOK, ShownOK, Showing
  <2>2. QED BY <1>1, <1>3, <2>1, WithinQuiet
<1>4. rx \in Bytes /\ <<>> \in Bytes /\ (rx # <<>> => Tail(rx) \in Bytes)
  BY <1>1, Types DEF Bytes
<1>5. \/ UNCHANGED <<msg, slots, tx, rx>>
      \/ rx' = <<>> /\ UNCHANGED <<msg, slots, tx>>
      \/ up = "thr" /\ PutByte /\ UNCHANGED rx
      \/ rx # <<>> /\ rx' = Tail(rx) /\ UNCHANGED <<msg, slots, tx>>
  BY DEF suart_fails, Fails, Drained
<1>6. QED BY <1>2, <1>3, <1>4, <1>5

\* The function returns an error, and the script is left.
LEMMA FailedKeeps == ASSUME CInv, suart_failed PROVE CInv'
<1>1. /\ TypesOK /\ MuxOK /\ up = "failed" /\ up' = "idle" /\ Error
      /\ UNCHANGED <<mux, saved, keys, out, recv, muxLost, relay, msg, slots, retry, uout,
                     tx, rx, typed, printed, overrun>>
  BY DEF CInv, suart_failed, hwVars, terminal
<1>2. pc = "script" /\ at \in 1 .. 24 /\ at \notin {1, 2, 3}
  BY <1>1, Inside DEF Flushes
<1>3. pc' = "unsuart" /\ at' = at
  BY <1>1, <1>2, At DEF Error
<1>4. /\ mux' \in [Uarts -> {"pins", "uart2", "uart3"}] /\ muxLost' \in BOOLEAN
      /\ mux'["uart5"] = "uart3" => at <= 13 /\ mux'["uart2"] # "uart3"
      /\ mux'["uart2"] = "uart3" => at > 13 /\ mux'["uart5"] # "uart3"
  BY <1>1, <1>2, SameRoutes
<1>5. QED BY <1>1, <1>2, <1>3, <1>4, Leaves

\* A function is called: its string is no longer to be sent, but on its way.
LEMMA CallKeeps == ASSUME CInv, suart_call PROVE CInv'
<1>1. /\ TypesOK /\ UpOK /\ ShownOK /\ at \in 1 .. 24
      /\ UNCHANGED <<pc, at, mux, saved, keys, out, recv, muxLost>>
  BY DEF CInv, suart_call, TypesOK, cmdVars, hwVars
<1>2. CASE Doing("flush") /\ Flush(Script[at][2])
  <2>1. /\ up = "idle" /\ up' = "flush" /\ msg' = Script[at][2] /\ relay' = FALSE
        /\ UNCHANGED <<slots, retry, uout, tx, rx, typed, printed, overrun>>
    BY <1>2 DEF Flush, terminal
  <2>2. pc = "script" /\ at \in Flushes
    BY <1>1, <1>2, At DEF Doing
  <2>3. msg = <<>> /\ ~relay
    BY <1>1, <2>1, <2>2 DEF UpOK
  <2>4. TypesOK'
    <3>1. msg' \in Bytes
      BY <2>1, <2>2, ToSendNext
    <3>2. QED BY <1>1, <2>1, <3>1 DEF TypesOK
  <2>5. UpOK' /\ ShownOK'
    BY <1>1, <2>1, <2>2, <2>3 DEF UpOK, ShownOK, Showing
  <2>6. Due = at /\ Due' = at + 1 /\ at # 24
    BY <1>1, <2>1, <2>2 DEF Due, Flushes
  <2>7. ToRead' = ToRead /\ ToRead \in Bytes
    BY <1>1, <2>1, Types DEF ToRead
  <2> DEFINE word == Script[at][2]
             rest5 == ToSend5(at + 1)
             rest2 == ToSend2(at + 1)
             start5 == ToSend5(at)
             start2 == ToSend2(at)
  <2>8. /\ word \in Bytes /\ rest5 \in Bytes /\ rest2 \in Bytes
        /\ start5 \in Bytes /\ start2 \in Bytes
    <3>1. word \in Bytes
      BY <2>2, ToSendNext, Zenon
    <3>2. at \in Int /\ at + 1 \in Int
      BY <1>1
    <3>3. rest5 \in Bytes /\ rest2 \in Bytes /\ start5 \in Bytes /\ start2 \in Bytes
      BY <3>2, ToSends, Zenon
    <3>4. QED BY <3>1, <3>3
  <2>9. /\ at <= 13 => start5 = word \o rest5
        /\ at > 13 => start2 = word \o rest2
    <3>1. at <= 13 => at < 13
      BY <1>1, <2>2 DEF Flushes
    <3>2. QED BY <2>2, <3>1, ToSendNext, Zenon
  <2> HIDE DEF word, rest5, rest2, start5, start2
  <2>10. /\ msg' = word /\ tx' = tx
         /\ start5 = ToSend5(Due) /\ rest5 = ToSend5(Due')
         /\ start2 = ToSend2(Due) /\ rest2 = ToSend2(Due')
    BY <2>1, <2>6, Zenon DEF word, rest5, rest2, start5, start2
  <2>11. ASSUME at <= 13 PROVE tx \o (word \o rest5) = tx \o (<<>> \o start5)
    <3>1. <<>> \o start5 = start5
      BY <2>8, Joined
    <3>2. QED BY <2>9, <2>11, <3>1, Zenon
  <2>12. ASSUME at > 13
         PROVE tx \o (word \o (rest2 \o ToRead)) = tx \o (<<>> \o (start2 \o ToRead))
    <3>1. word \o (rest2 \o ToRead) = (word \o rest2) \o ToRead
      <4> HIDE DEF ToRead
      <4>1. QED OBVIOUS
    <3>2. start2 \o ToRead = word \o (rest2 \o ToRead)
      BY <2>9, <2>12, <3>1, Zenon
    <3> DEFINE r == start2 \o ToRead
    <3>3. r \in Bytes
      BY <2>7, <2>8, Joined
    <3> HIDE DEF r
    <3>4. <<>> \o r = r
      BY <3>3, Joined
    <3>5. word \o (rest2 \o ToRead) = r
      BY <3>2, Zenon DEF r
    <3>6. QED BY <3>4, <3>5, Zenon DEF r
  <2>13. /\ at <= 13 => tx' \o (msg' \o ToSend5(Due')) = tx \o (msg \o ToSend5(Due))
         /\ at > 13 => tx' \o (msg' \o (ToSend2(Due') \o ToRead'))
                         = tx \o (msg \o (ToSend2(Due) \o ToRead))
    BY <2>3, <2>7, <2>10, <2>11, <2>12, Zenon
  <2>14. QED BY <1>1, <2>2, <2>4, <2>5, <2>7, <2>13, Within
<1>3. CASE Doing("run") /\ Relay
  <2>1. /\ up = "idle" /\ up' = "poll" /\ relay' = TRUE
        /\ UNCHANGED <<msg, slots, retry, uout, tx, rx, typed, printed, overrun>>
    BY <1>3 DEF Relay, terminal
  <2>2. pc = "script" /\ at = 24
    BY <1>1, <1>3, At DEF Doing
  <2>3. msg = <<>> /\ Due' = Due /\ ToRead' = ToRead
    BY <1>1, <2>1, <2>2 DEF UpOK, Due, ToRead
  <2>4. TypesOK' /\ UpOK' /\ ShownOK'
    BY <1>1, <2>1, <2>2, <2>3 DEF TypesOK, UpOK, ShownOK, Showing
  <2>5. /\ tx' \o (msg' \o ToSend5(Due')) = tx \o (msg \o ToSend5(Due))
        /\ tx' \o (msg' \o (ToSend2(Due') \o ToRead')) = tx \o (msg \o (ToSend2(Due) \o ToRead))
    BY <2>1, <2>3, Zenon
  <2>6. QED BY <1>1, <2>2, <2>3, <2>4, <2>5, Within
<1>4. QED BY <1>2, <1>3 DEF suart_call

\* The receiver is reset before each try of suart_flush(), which returns when
\* everything has been written.
LEMMA FlushResetKeeps == ASSUME CInv, suart_step, FlushReset PROVE CInv'
<1>1. /\ TypesOK /\ UpOK /\ ShownOK /\ up = "flush" /\ ~relay
      /\ UNCHANGED <<pc, mux, saved, keys, out, recv, muxLost, relay, msg, slots, retry, uout,
                     tx, typed, printed, overrun>>
      /\ IF msg # <<>> THEN up' = "lsr" /\ rx' = <<>> /\ at' = at
         ELSE up' = "idle" /\ rx' = rx /\ at' = at + 1
  BY DEF CInv, UpOK, suart_step, FlushReset, Done, cmdVars, hwVars, terminal
<1>2. pc = "script" /\ at \in Flushes /\ at # 24 /\ at \in 1 .. 24
  BY <1>1, Inside
<1>3. Due' = Due /\ ToRead' = ToRead
  BY <1>1, <1>2 DEF Due, ToRead
<1>4. TypesOK'
  <2>1. rx' \in Bytes
    <3>1. rx \in Bytes
      BY <1>1, Types
    <3>2. <<>> \in Bytes
      BY DEF Bytes
    <3>3. QED BY <1>1, <3>1, <3>2
  <2>2. at' \in 1 .. 24
    <3>1. at' = at \/ at' = at + 1
      BY <1>1
    <3>2. at \in 1 .. 24 /\ at # 24
      BY <1>2
    <3>3. QED BY ONLY <3>1, <3>2
  <2>3. QED BY <1>1, <2>1, <2>2 DEF TypesOK
<1>5. UpOK'
  BY <1>1, <1>2 DEF UpOK
<1>6. ShownOK'
  <2>1. printed = <<>> /\ uout = <<>>
    BY <1>1, <1>2 DEF ShownOK, Showing
  <2>2. CASE rx' = rx
    BY <1>1, <2>2 DEF ShownOK, Showing
  <2>3. CASE rx' = <<>>
    BY <1>1, <2>1, <2>3, Forgotten DEF ShownOK, Showing
  <2>4. QED BY <1>1, <2>2, <2>3
<1>7. /\ tx' \o (msg' \o ToSend5(Due')) = tx \o (msg \o ToSend5(Due))
      /\ tx' \o (msg' \o (ToSend2(Due') \o ToRead')) = tx \o (msg \o (ToSend2(Due) \o ToRead))
  BY <1>1, <1>3, Zenon
<1>8. at' \in {at, at + 1}
  BY <1>1
<1>9. QED BY <1>1, <1>2, <1>3, <1>4, <1>5, <1>6, <1>7, <1>8, Within

\* The status is read before anything is written.
LEMMA WriteStatusKeeps == ASSUME CInv, suart_step, WriteStatus PROVE CInv'
<1>1. /\ TypesOK /\ UpOK /\ ShownOK /\ up = "lsr"
      /\ IF rx # <<>> \/ tx # <<>>
           THEN up' = (IF relay THEN "read" ELSE "flush") /\ slots' = slots
           ELSE up' = "thr" /\ slots' = Fifo
      /\ UNCHANGED <<relay, msg, retry, uout, tx, rx, typed, printed, overrun>>
  BY DEF CInv, WriteStatus, terminal
<1>2. UNCHANGED <<pc, at, mux, saved, keys, out, recv, muxLost>> /\ up' # "idle"
  BY <1>1 DEF suart_step, cmdVars, hwVars
<1>3. Fifo \in Nat
  BY ConsoleAssumption DEF SuartAssumption
<1>4. TypesOK'
  <2>1. slots' \in Nat
    BY <1>1, <1>3 DEF TypesOK
  <2>2. QED BY <1>1, <1>2, <2>1 DEF TypesOK
<1>5. UpOK'
  <2>1. tx = <<>> => Len(tx) = 0
    OBVIOUS
  <2>2. QED BY <1>1, <1>2, <1>3, <2>1 DEF UpOK, TypesOK
<1>6. ShownOK'
  BY <1>1, <1>2 DEF ShownOK, Showing
<1>7. QED BY <1>1, <1>2, <1>4, <1>5, <1>6, WithinQuiet

\* A byte is written, to a FIFO that has room for it.
LEMMA WriteByteKeeps == ASSUME CInv, suart_step, WriteByte PROVE CInv'
<1>1. /\ TypesOK /\ UpOK /\ ShownOK /\ up = "thr" /\ Len(tx) + slots <= Fifo
      /\ UNCHANGED <<relay, retry, uout, rx, typed, printed, overrun>>
  BY DEF CInv, UpOK, WriteByte, terminal
<1>2. /\ UNCHANGED <<pc, at, mux, saved, keys, out, recv, muxLost>> /\ up' # "idle"
  BY <1>1 DEF suart_step, WriteByte, cmdVars, hwVars
<1>3. pc = "script" /\ at \in Flushes \union {24}
  BY <1>1, Inside
<1>4. /\ tx \in Bytes /\ msg \in Bytes /\ slots \in Nat /\ Len(tx) \in Nat /\ Fifo \in Nat
  BY <1>1, Types, LenProperties, ConsoleAssumption DEF TypesOK, Bytes, SuartAssumption
<1>5. CASE PutByte /\ up' = up
  BY <1>1, <1>2, <1>5, PutKeeps
<1>6. CASE /\ up' = (IF relay THEN "read" ELSE "flush") /\ UNCHANGED <<tx, msg, slots>>
  <2>1. TypesOK'
    BY <1>1, <1>2, <1>6 DEF TypesOK
  <2>2. UpOK' /\ ShownOK'
    BY <1>1, <1>2, <1>6 DEF UpOK, ShownOK, Showing, TypesOK
  <2>3. QED BY <1>1, <1>2, <1>6, <2>1, <2>2, WithinQuiet
<1>7. QED BY <1>5, <1>6 DEF WriteByte

\* What has been typed is read from the terminal.
LEMMA PollKeeps == ASSUME CInv, suart_step, Poll PROVE CInv'
<1>1. /\ TypesOK /\ UpOK /\ ShownOK /\ up = "poll" /\ relay /\ msg = <<>>
      /\ UNCHANGED <<relay, slots, retry, uout, tx, rx, printed, overrun>>
  BY DEF CInv, UpOK, Poll
<1>2. pc = "script" /\ at = 24
  BY <1>1, Inside
<1>3. UNCHANGED <<pc, at, mux, saved, keys, out, recv, muxLost>> /\ up' # "idle"
  BY <1>1 DEF suart_step, Poll, cmdVars, hwVars
<1>4. typed \in Bytes /\ keys \in Bytes /\ Len(typed) \in Nat
  BY <1>1, Types, LenProperties DEF Bytes
<1>5. CASE \E n \in 1 .. Fifo :
             /\ n <= Len(typed) /\ up' = "lsr"
             /\ msg' = SubSeq(typed, 1, n) /\ typed' = SubSeq(typed, n + 1, Len(typed))
  <2>1. PICK n \in 1 .. Fifo :
          /\ n <= Len(typed) /\ up' = "lsr"
          /\ msg' = SubSeq(typed, 1, n) /\ typed' = SubSeq(typed, n + 1, Len(typed))
    BY <1>5
  <2>2. n \in 0 .. Len(typed)
    BY <1>4, <2>1
  <2>3. msg' \in Bytes /\ typed' \in Bytes /\ msg' \o typed' = typed
    BY <1>4, <2>1, <2>2, Cut, Zenon
  <2>4. TypesOK'
    BY <1>1, <1>3, <2>3 DEF TypesOK
  <2>5. UpOK' /\ ShownOK'
    BY <1>1, <1>2, <1>3, <2>1 DEF UpOK, ShownOK, Showing
  <2>6. Due' = 24 /\ Due = 24
    BY <1>2, <1>3 DEF Due
  <2>7. tx' \o (msg' \o (ToSend2(24) \o ToRead')) = tx \o (msg \o (ToSend2(24) \o ToRead))
    <3> DEFINE m == msg'
               t == typed'
               r == typed' \o keys
               s == typed \o keys
    <3>1. r \in Bytes /\ s \in Bytes
      BY <1>4, <2>3, Joined
    <3>2. s = m \o r
      <4> HIDE DEF m, t
      <4>1. typed = m \o t
        BY <2>3 DEF m, t
      <4>2. s = (m \o t) \o keys
        BY <4>1, Zenon
      <4>3. (m \o t) \o keys = m \o (t \o keys)
        OBVIOUS
      <4>4. QED BY <4>2, <4>3, Zenon DEF t
    <3>3. ToRead' = r /\ ToRead = s
      BY <1>3 DEF ToRead
    <3> HIDE DEF r, s, m
    <3>4. <<>> \o r = r /\ <<>> \o s = s
      BY <3>1, Joined
    <3>5. ToSend2(24) = <<>>
      BY ToSendAll
    <3>6. m \o (ToSend2(24) \o ToRead') = s
      BY <3>2, <3>3, <3>4, <3>5, Zenon
    <3>7. msg \o (ToSend2(24) \o ToRead) = s
      BY <1>1, <3>3, <3>4, <3>5, Zenon
    <3>8. QED BY <1>1, <3>6, <3>7, Zenon DEF m
  <2>8. at > 13 /\ ~(at <= 13)
    BY <1>2
  <2>9. QED BY <1>2, <1>3, <2>4, <2>5, <2>6, <2>7, <2>8, Within
<1>6. CASE up' \in {"read", up} /\ UNCHANGED <<msg, typed>>
  <2>1. TypesOK' /\ UpOK' /\ ShownOK'
    BY <1>1, <1>2, <1>3, <1>6 DEF TypesOK, UpOK, ShownOK, Showing
  <2>2. QED BY <1>1, <1>3, <1>6, <2>1, WithinQuiet
<1>7. QED BY <1>5, <1>6 DEF Poll

\* The receiver's status is read, or the FIFO once more.
LEMMA ReadKeeps ==
  ASSUME CInv, suart_step, ReadStatus \/ ReadAgain \/ ReadReturn
  PROVE  CInv'
<1>1. /\ TypesOK /\ UpOK /\ ShownOK /\ up \in {"read", "rbr"} /\ relay /\ retry \in Nat
      /\ Retries \in Nat
      /\ UNCHANGED <<relay, msg, slots, uout, tx, rx, typed, printed, overrun>>
  BY ConsoleAssumption
  DEF CInv, UpOK, ReadStatus, ReadAgain, ReadReturn, terminal, TypesOK, SuartAssumption
<1>2. pc = "script" /\ at = 24
  BY <1>1, Inside
<1>3. /\ up' \in {"lsr", "poll", "rbr", "failed", "print"} /\ (up' = "poll" => msg = <<>>)
      /\ retry' \in Nat
  BY <1>1 DEF ReadStatus, ReadAgain, ReadReturn, AfterRead
<1>4. UNCHANGED <<pc, at, mux, saved, keys, out, recv, muxLost>> /\ up' # "idle"
  BY <1>3 DEF suart_step, cmdVars, hwVars
<1>5. TypesOK' /\ UpOK' /\ ShownOK'
  BY <1>1, <1>2, <1>3, <1>4 DEF TypesOK, UpOK, ShownOK, Showing
<1>6. QED BY <1>1, <1>4, <1>5, WithinQuiet

\* A byte is read.
LEMMA ReadByteKeeps == ASSUME CInv, suart_step, ReadByte PROVE CInv'
<1>1. /\ TypesOK /\ UpOK /\ ShownOK /\ up = "rbr" /\ up' = up /\ rx # <<>>
      /\ uout' = Append(uout, Head(rx)) /\ rx' = Tail(rx)
      /\ UNCHANGED <<relay, msg, slots, retry, tx, typed, printed, overrun>>
  BY DEF CInv, ReadByte, Drained, terminal
<1>2. /\ UNCHANGED <<pc, at, mux, saved, keys, out, recv, muxLost>> /\ up' # "idle"
      /\ pc = "script" /\ relay
  BY <1>1, Inside DEF suart_step, cmdVars, hwVars, UpOK
<1>3. uout \in Bytes /\ rx \in Bytes /\ out \in Bytes
  BY <1>1, Types
<1>4. uout' \in Bytes /\ rx' \in Bytes
  BY <1>1, <1>3, Moved
<1>5. uout' \o (rx' \o out) = uout \o (rx \o out)
  BY <1>1, <1>3, MovedBefore, Zenon
<1>6. TypesOK' /\ UpOK'
  BY <1>1, <1>2, <1>4 DEF TypesOK, UpOK
<1>7. ShownOK'
  <2> DEFINE s == uout \o (rx \o out)
  <2>1. uout' \o (rx' \o out') = s
    BY <1>2, <1>5, Zenon
  <2>2. ~overrun => \E head \in Bytes : head \o (printed \o s) = Output
    BY <1>1, <1>2 DEF ShownOK, Showing
  <2> HIDE DEF s
  <2>3. ~overrun' => \E head \in Bytes : head \o (printed' \o (uout' \o (rx' \o out'))) = Output
    BY <1>1, <2>1, <2>2, Zenon
  <2>4. QED BY <1>1, <1>2, <2>3, Zenon DEF ShownOK, Showing
<1>8. QED BY <1>1, <1>2, <1>6, <1>7, WithinQuiet

\* Some of what was read is shown.
LEMMA WriteKeeps == ASSUME CInv, suart_step, Write PROVE CInv'
<1>1. /\ TypesOK /\ UpOK /\ ShownOK /\ up = "print" /\ relay
      /\ UNCHANGED <<relay, msg, slots, retry, tx, rx, typed, overrun>>
  BY DEF CInv, UpOK, Write, terminal
<1>2. pc = "script" /\ at = 24
  BY <1>1, Inside
<1>3. up' # "idle" /\ UNCHANGED <<pc, at, mux, saved, keys, out, recv, muxLost>>
  BY <1>1 DEF suart_step, Write, AfterRead, cmdVars, hwVars
<1>4. /\ uout \in Bytes /\ rx \in Bytes /\ out \in Bytes /\ printed \in Bytes
      /\ Len(uout) \in Nat
  BY <1>1, Types, LenProperties DEF Bytes
<1>5. CASE /\ up' = up
           /\ \E n \in 1 .. Len(uout) :
                printed' = printed \o SubSeq(uout, 1, n) /\ uout' = SubSeq(uout, n + 1, Len(uout))
  <2>1. PICK n \in 1 .. Len(uout) :
          printed' = printed \o SubSeq(uout, 1, n) /\ uout' = SubSeq(uout, n + 1, Len(uout))
    BY <1>5
  <2>2. n \in 0 .. Len(uout)
    BY <1>4, <2>1
  <2> DEFINE a == SubSeq(uout, 1, n)
             b == uout'
             to == rx \o out
  <2>3. a \in Bytes /\ b \in Bytes /\ uout = a \o b
    BY <1>4, <2>1, <2>2, Cut, Zenon
  <2>4. printed' = printed \o a /\ to \in Bytes
    BY <1>4, <2>1, Joined
  <2>5. ~overrun => \E head \in Bytes : head \o (printed \o (uout \o to)) = Output
    <3>1. pc = "script"
      BY <1>1, Inside
    <3>2. QED BY <1>1, <3>1 DEF ShownOK, Showing
  <2> HIDE DEF a, b, to
  <2>6. printed' \in Bytes
    BY <1>4, <2>3, <2>4, Joined
  <2>7. (printed \o a) \o (b \o to) = printed \o (uout \o to)
    <3>1. uout = a \o b
      BY <2>3
    <3>2. (printed \o a) \o (b \o to) = printed \o ((a \o b) \o to)
      OBVIOUS
    <3>3. QED BY <3>1, <3>2, Zenon
  <2>8. TypesOK' /\ UpOK'
    <3>1. uout' \in Bytes
      BY <2>3 DEF b
    <3>2. QED BY <1>1, <1>3, <1>5, <2>6, <3>1 DEF TypesOK, UpOK
  <2>9. ShownOK'
    <3>1. printed' \o (uout' \o (rx' \o out')) = printed \o (uout \o to)
      BY <1>1, <1>3, <2>4, <2>7, Zenon DEF b, to
    <3>2. ~overrun' => \E head \in Bytes : head \o (printed' \o (uout' \o (rx' \o out'))) = Output
      BY <1>1, <2>5, <3>1, Zenon
    <3>3. QED BY <1>1, <1>3, <3>2, Zenon DEF ShownOK, Showing
  <2>10. QED BY <1>1, <1>3, <2>8, <2>9, WithinQuiet
<1>6. CASE up' = AfterRead /\ UNCHANGED <<uout, printed>>
  <2>1. TypesOK' /\ UpOK' /\ ShownOK'
    BY <1>1, <1>2, <1>3, <1>6 DEF TypesOK, UpOK, ShownOK, Showing, AfterRead
  <2>2. QED BY <1>1, <1>3, <1>6, <2>1, WithinQuiet
<1>7. QED BY <1>5, <1>6 DEF Write

-----------------------------------------------------------------------------
\* At first nothing has been sent.
LEMMA InitHolds == Init => CInv
<1> SUFFICES ASSUME Init PROVE CInv
  OBVIOUS
<1>1. /\ pc = "probe" /\ at = 1 /\ mux = Pins /\ saved = Pins /\ muxLost = FALSE
      /\ keys = Keys /\ out = Output /\ recv = [r \in Receivers |-> <<>>]
      /\ up = "idle" /\ relay = FALSE /\ msg = <<>> /\ slots = 0 /\ retry = 0 /\ uout = <<>>
      /\ tx = <<>> /\ rx = <<>> /\ typed = <<>> /\ printed = <<>> /\ overrun = FALSE
  BY DEF Init, SuartInit
<1>2. <<>> \in Bytes /\ keys \in Bytes /\ out \in Bytes
  BY <1>1, Given DEF Bytes
<1>3. /\ Pins \in [Uarts -> {"pins", "uart2", "uart3"}]
      /\ Pins["uart2"] = "pins" /\ Pins["uart5"] = "pins"
  BY DEF Pins, Uarts
<1>4. TypesOK
  <2>1. recv \in [Receivers -> Bytes]
    BY <1>1, <1>2
  <2>2. {tx, rx, msg, typed, keys, out, uout, printed} \subseteq Bytes
    BY <1>1, <1>2
  <2>3. mux \in [Uarts -> {"pins", "uart2", "uart3"}]
    BY <1>1, <1>3
  <2>4. /\ pc \in {"probe", "script", "unsuart", "unmux", "done"} /\ at \in 1 .. 24
        /\ saved = Pins /\ slots \in Nat /\ retry \in Nat
    BY <1>1
  <2>5. muxLost \in BOOLEAN /\ relay \in BOOLEAN /\ overrun \in BOOLEAN
    BY <1>1
  <2>6. QED BY <2>1, <2>2, <2>3, <2>4, <2>5 DEF TypesOK
<1>5. UpOK /\ MuxOK /\ RoutesOK
  BY <1>1 DEF UpOK, MuxOK, RoutesOK
<1>6. recv["uart5"] = <<>> /\ recv["uart2"] = <<>>
  BY <1>1 DEF Receivers
<1>7. SentOK
  <2>1. <<>> \o keys = keys
    BY <1>2, Joined
  <2>2. ToRead = Keys
    BY <1>1, <2>1, Zenon DEF ToRead
  <2>3. QED BY <1>1, <1>6, <2>2 DEF SentOK
<1>8. SafeOK
  <2>1. IsPrefixOf(<<>>, Login5) /\ IsPrefixOf(<<>>, Login2 \o Keys)
    BY ToSends, NothingYet, Zenon
  <2>2. mux["uart5"] # "uart3" /\ mux["uart2"] # "uart3"
    BY <1>1, <1>3
  <2>3. QED BY <1>6, <2>1, <2>2, Zenon DEF SafeOK, SafeWith
<1>9. ShownOK
  <2>1. <<>> \o out = out
    BY <1>2, Joined
  <2>2. <<>> \o (printed \o (uout \o (rx \o out))) = Output
    BY <1>1, <2>1, Zenon
  <2>3. QED BY <1>1, <1>2, <2>2, Zenon DEF ShownOK, Showing
<1>10. QED BY <1>4, <1>5, <1>7, <1>8, <1>9 DEF CInv

\* Every step keeps the invariant.
LEMMA StepHolds == CInv /\ [Next]_vars => CInv'
<1> SUFFICES ASSUME CInv, [Next]_vars PROVE CInv'
  OBVIOUS
<1>1. CASE Probe
  BY <1>1, ProbeKeeps
<1>2. CASE clk_enable
  BY <1>2, ClockKeeps
<1>3. CASE RouteStep
  BY <1>3, RouteKeeps
<1>4. CASE suart_init
  BY <1>4, InitKeeps
<1>5. CASE set_baud
  BY <1>5, BaudKeeps
<1>6. CASE suart_call
  BY <1>6, CallKeeps
<1>7. CASE suart_step
  <2>1. SuartStep
    BY <1>7 DEF suart_step
  <2>2. QED
    BY <1>7, <2>1, FlushResetKeeps, WriteStatusKeeps, WriteByteKeeps, PollKeeps, ReadKeeps,
       ReadByteKeeps, WriteKeeps DEF SuartStep
<1>8. CASE suart_failed
  BY <1>8, FailedKeeps
<1>9. CASE Sleep
  BY <1>9, SleepKeeps
<1>10. CASE Restore
  BY <1>10, RestoreKeeps
<1>11. CASE Unsuart
  BY <1>11, UnsuartKeeps
<1>12. CASE suart_fails
  BY <1>12, FailsKeeps
<1>13. CASE Type \/ Close \/ Drain \/ Arrive
  BY <1>13, TypeKeeps, CloseKeeps, DrainKeeps, ArriveKeeps
<1>14. CASE UNCHANGED vars
  <2>1. /\ TypesOK /\ UpOK /\ MuxOK /\ SentOK /\ SafeOK /\ ShownOK /\ RoutesOK
        /\ UNCHANGED <<pc, at, mux, saved, keys, out, recv, muxLost, up, relay, msg, slots,
                       retry, uout, tx, rx, typed, printed, overrun>>
    BY <1>14 DEF CInv, vars, cmdVars, hwVars, suartVars, terminal
  <2>2. Due' = Due /\ ToRead' = ToRead
    BY <2>1 DEF Due, ToRead
  <2>3. TypesOK' /\ UpOK' /\ MuxOK' /\ ShownOK' /\ RoutesOK'
    BY <2>1 DEF TypesOK, UpOK, MuxOK, ShownOK, Showing, RoutesOK
  <2>4. SentOK' /\ SafeOK'
    BY <2>1, <2>2, SafeStays DEF SentOK
  <2>5. QED BY <2>3, <2>4 DEF CInv
<1>15. QED
  BY <1>1, <1>2, <1>3, <1>4, <1>5, <1>6, <1>7, <1>8, <1>9, <1>10, <1>11, <1>12, <1>13, <1>14
  DEF Next, Step

\* So it always holds.
LEMMA Invariant == Spec => []CInv
<1>1. QED BY InitHolds, StepHolds, PTL DEF Spec

\* Every byte of the logins, and every key, goes out once, in order and to the
\* UART that is meant: do_console() waits for the FIFO before it changes the
\* routes, and suart_write() for it to be empty.
THEOREM AddressedCorrect == Spec => []Addressed
<1>1. CInv => Addressed
  <2> SUFFICES ASSUME CInv PROVE Addressed
    OBVIOUS
  <2>1. TypesOK /\ UpOK /\ SentOK /\ SafeOK /\ at \in 1 .. 24
    BY DEF CInv, TypesOK
  <2>2. /\ IsPrefixOf(recv["uart5"], Login5) /\ IsPrefixOf(recv["uart2"], Login2 \o Keys)
        /\ recv["uart2"] # <<>> => recv["uart5"] = Login5
    BY <2>1, Zenon DEF SafeOK, SafeWith
  <2>3. ASSUME Running PROVE recv["uart2"] \o tx \o msg \o typed \o keys = Login2 \o Keys
    <3>1. pc = "script" /\ at = 24
      BY <2>1, <2>3, At DEF Running
    <3>2. Due = 24 /\ at > 13
      BY <3>1 DEF Due
    <3> DEFINE all == Login2 \o Keys
               r == recv["uart2"]
               p == r \o tx
               later == ToSend2(Due) \o ToRead
    <3>3. r \o (tx \o (msg \o later)) = all
      BY <2>1, <3>1, <3>2, Zenon DEF SentOK
    <3>4. later = ToRead /\ ToRead = typed \o keys
      <4>1. <<>> \o ToRead = ToRead
        BY <2>1, Types, Joined
      <4>2. QED BY <3>2, <4>1, ToSendAll, Zenon DEF ToRead
    <3> HIDE DEF all, r, later
    <3>5. r \o (tx \o (msg \o (typed \o keys))) = all
      BY <3>3, <3>4, Zenon
    <3>6. ((p \o msg) \o typed) \o keys = p \o (msg \o (typed \o keys))
      <4> HIDE DEF p
      <4>1. QED OBVIOUS
    <3> DEFINE q == msg \o (typed \o keys)
    <3>7. p \o q = r \o (tx \o q)
      <4> HIDE DEF q
      <4>1. QED OBVIOUS
    <3>8. ((p \o msg) \o typed) \o keys = all
      BY <3>5, <3>6, <3>7, Zenon
    <3>9. QED BY <3>8, Zenon DEF all, r
  <2>4. QED BY <2>2, <2>3, Zenon DEF Addressed
<1>2. QED BY <1>1, Invariant, PTL

\* What the terminal has got, will get and could get is the end of what the BMC
\* prints, however suart_read() and write() cut it up, unless the FIFO overran,
\* until an access fails.
THEOREM ShownCorrect == Spec => []Shown
<1>1. CInv => Shown
  <2> SUFFICES ASSUME CInv, Running, up # "failed", ~overrun
               PROVE  LET s == printed \o uout \o rx \o out
                      IN  s = SubSeq(Output, Len(Output) - Len(s) + 1, Len(Output))
    BY Zenon DEF Shown
  <2>1. TypesOK /\ ShownOK
    BY DEF CInv
  <2>2. PICK head \in Bytes : head \o (printed \o (uout \o (rx \o out))) = Output
    BY <2>1, Zenon DEF ShownOK, Showing, Running
  <2>3. /\ printed \in Bytes /\ uout \in Bytes /\ rx \in Bytes /\ out \in Bytes
        /\ Output \in Bytes
    BY <2>1, Types, Given
  <2> DEFINE s == printed \o uout \o rx \o out
  <2>4. s = printed \o (uout \o (rx \o out)) /\ s \in Bytes
    <3>1. s = printed \o (uout \o (rx \o out))
      OBVIOUS
    <3>2. printed \o uout \in Bytes
      BY <2>3, Joined
    <3> DEFINE p == printed \o uout
    <3>3. p \in Bytes
      BY <3>2
    <3> HIDE DEF p
    <3>4. p \o rx \in Bytes
      BY <2>3, <3>3, Joined
    <3> DEFINE q == p \o rx
    <3>5. q \in Bytes
      BY <3>4
    <3> HIDE DEF q
    <3>6. q \o out \in Bytes
      BY <2>3, <3>5, Joined
    <3>7. QED BY <3>1, <3>6, Zenon DEF p, q
  <2>5. head \o s = Output
    BY <2>2, <2>4, Zenon
  <2> HIDE DEF s
  <2>6. s = SubSeq(Output, Len(Output) - Len(s) + 1, Len(Output))
    BY <2>3, <2>4, <2>5, Suffixes
  <2>7. QED BY <2>6, Zenon DEF s
<1>2. QED BY <1>1, Invariant, PTL

\* do_console() ends with the routes it found, whatever has failed, unless the
\* access that failed was one to the routes behind which it makes no other.
THEOREM RestoredCorrect == Spec => []Restored
<1>1. CInv => Restored
  BY DEF CInv, RoutesOK, Restored
<1>2. QED BY <1>1, Invariant, PTL

=============================================================================
