---------------------------- MODULE ProbeProofs -----------------------------
(***************************************************************************)
(* Proofs about the probe command, for any generations of the SoC, any     *)
(* drivers and controllers, any modes of the bridges and any failures.     *)
(***************************************************************************)
EXTENDS Probe, TLAPS

Ctls == UNION {All(d) : d \in Range(devices)}

ArgsOK ==
  /\ devices \in Seq(Devs) /\ IsInjective(devices)
  /\ truth \in [Ctls -> Modes]
  /\ require \in Modes /\ listing \in BOOLEAN

LoopOK ==
  /\ pc \in {"probe", "init", "report", "destroy", "done"} /\ next \in Nat \ {0}
  /\ current \in Modes /\ aggregate \in Modes /\ error \in BOOLEAN
  /\ lost \in BOOLEAN /\ rc \in {0, 1} /\ bridges \in Seq(Ctls)

\* Nothing is judged before all drivers have been tried, and then every
\* controller of the SoC is on the list, unless a driver has failed.
InitOK ==
  /\ pc \in {"probe", "init"} => aggregate = bm_disabled /\ ~error /\ rc = 0
  /\ pc = "probe" => next = 1
  /\ pc = "init" /\ ~lost =>
       \A k \in 1 .. Len(devices) : k < next => All(devices[k]) \subseteq Range(bridges)

\* Without an error the aggregate is the least of the modes looked at, which
\* are those of all that was passed if no name was given.
ReportOK ==
  pc = "report" =>
    /\ rc = 0 /\ ~listing
    /\ ~lost => Ctls \subseteq Range(bridges)
    /\ ~error => aggregate = bm_disabled \/ \E c \in Ctls : truth[c] = aggregate
    /\ ~error /\ name = None =>
         \A k \in 1 .. Len(bridges) :
           k < next => bridges[k] \in reported /\ aggregate <= truth[bridges[k]]

VerdictOK ==
  pc = "destroy" /\ ~listing =>
    /\ rc = 0 /\ ~lost /\ name = None => Meets
    /\ rc = 1 => ~Meets \/ error
    /\ next = 1 /\ rc = 0 /\ name = None => Range(bridges) \subseteq reported

VerdictInv == ArgsOK /\ LoopOK /\ InitOK /\ ReportOK /\ VerdictOK

-----------------------------------------------------------------------------
(***************************************************************************)
(* The list.                                                               *)
(***************************************************************************)

\* The range of a sequence, by its indices.
LEMMA InRange ==
  ASSUME NEW S, NEW s \in Seq(S), NEW x
  PROVE  x \in Range(s) <=> \E i \in 1 .. Len(s) : s[i] = x
<1>1. DOMAIN s = 1 .. Len(s)
  OBVIOUS
<1>2. Range(s) = {s[i] : i \in 1 .. Len(s)}
  BY <1>1, Zenon DEF Range
<1>3. QED BY <1>2, Zenon

\* The entries are elements.
LEMMA RangeType ==
  ASSUME NEW S, NEW s \in Seq(S)
  PROVE  Range(s) \subseteq S
<1>1. \A i \in 1 .. Len(s) : s[i] \in S
  OBVIOUS
<1>2. ASSUME NEW x \in Range(s) PROVE x \in S
  <2>1. PICK i \in 1 .. Len(s) : s[i] = x
    BY InRange
  <2>2. QED BY <1>1, <2>1
<1>3. QED BY <1>2

\* Controllers registered one after the other end up in front of the list, the
\* last one first, and none is on it twice.
LEMMA Prepended ==
  ASSUME NEW S, NEW s \in Seq(S), NEW t \in Seq(S)
  PROVE  /\ Reverse(s) \o t \in Seq(S)
         /\ Range(Reverse(s) \o t) = Range(s) \union Range(t)
         /\ IsInjective(s) /\ IsInjective(t) /\ Range(s) \intersect Range(t) = {}
              => IsInjective(Reverse(s) \o t)
<1> DEFINE r == Reverse(s)
           u == r \o t
<1>1. /\ r \in Seq(S) /\ Len(r) = Len(s)
      /\ \A i \in 1 .. Len(s) : Len(s) - i + 1 \in 1 .. Len(s) /\ r[i] = s[Len(s) - i + 1]
  BY DEF Reverse
<1> HIDE DEF r
<1>2. /\ u \in Seq(S) /\ Len(u) = Len(s) + Len(t)
      /\ \A i \in 1 .. Len(s) : u[i] = r[i]
      /\ \A i \in 1 .. Len(t) : u[Len(s) + i] = t[i]
      /\ \A i \in 1 .. Len(u) : i <= Len(s) \/ (i - Len(s) \in 1 .. Len(t) /\ u[i] = t[i - Len(s)])
  <2>1. u \in Seq(S) /\ Len(u) = Len(s) + Len(t)
    <3>1. r \in Seq(S) /\ Len(r) = Len(s)
      BY <1>1
    <3>2. r \o t \in Seq(S) /\ Len(r \o t) = Len(r) + Len(t)
      BY <3>1
    <3>3. QED BY <3>1, <3>2
  <2>2. \A i \in 1 .. Len(u) : u[i] = IF i <= Len(s) THEN r[i] ELSE t[i - Len(s)]
    BY <1>1
  <2>3. Len(s) \in Nat /\ Len(t) \in Nat
    OBVIOUS
  <2> HIDE DEF u
  <2>4. \A i \in 1 .. Len(s) : u[i] = r[i]
    BY <2>1, <2>2, <2>3
  <2>5. ASSUME NEW i \in 1 .. Len(t) PROVE u[Len(s) + i] = t[i]
    <3>1. Len(s) + i \in 1 .. Len(u) /\ ~(Len(s) + i <= Len(s)) /\ Len(s) + i - Len(s) = i
      BY <2>1, <2>3
    <3>2. u[Len(s) + i] = t[Len(s) + i - Len(s)]
      BY <2>2, <3>1
    <3>3. QED BY <3>1, <3>2
  <2>6. ASSUME NEW i \in 1 .. Len(u), ~(i <= Len(s))
        PROVE  i - Len(s) \in 1 .. Len(t) /\ u[i] = t[i - Len(s)]
    BY <2>1, <2>2, <2>3, <2>6
  <2>7. QED BY <2>1, <2>4, <2>5, <2>6
<1> HIDE DEF u
<1>3. /\ \A x \in S : x \in Range(s) <=> \E i \in 1 .. Len(s) : s[i] = x
      /\ \A x \in S : x \in Range(t) <=> \E i \in 1 .. Len(t) : t[i] = x
      /\ \A x \in S : x \in Range(u) <=> \E i \in 1 .. Len(u) : u[i] = x
  <2>1. \A x \in S : x \in Range(s) <=> \E i \in 1 .. Len(s) : s[i] = x
    BY InRange
  <2>2. \A x \in S : x \in Range(t) <=> \E i \in 1 .. Len(t) : t[i] = x
    BY InRange
  <2>3. \A x \in S : x \in Range(u) <=> \E i \in 1 .. Len(u) : u[i] = x
    BY <1>2, InRange
  <2>4. QED BY <2>1, <2>2, <2>3
<1>4. \A i \in 1 .. Len(s) : u[i] = s[Len(s) - i + 1]
  BY <1>1, <1>2
<1>5. ASSUME NEW x \in S, x \in Range(s) PROVE x \in Range(u)
  <2>1. PICK i \in 1 .. Len(s) : s[i] = x
    BY <1>3, <1>5
  <2>2. Len(s) - i + 1 \in 1 .. Len(u) /\ u[Len(s) - i + 1] = x
    <3>1. Len(s) \in Nat /\ Len(t) \in Nat
      OBVIOUS
    <3>2. Len(s) - i + 1 \in 1 .. Len(s) /\ Len(s) - (Len(s) - i + 1) + 1 = i
      BY <3>1
    <3>3. u[Len(s) - i + 1] = s[Len(s) - (Len(s) - i + 1) + 1]
      BY <1>4, <3>2
    <3>4. QED BY <1>2, <2>1, <3>1, <3>2, <3>3
  <2>3. QED BY <1>3, <2>2
<1>6. ASSUME NEW x \in S, x \in Range(t) PROVE x \in Range(u)
  <2>1. PICK i \in 1 .. Len(t) : t[i] = x
    BY <1>3, <1>6
  <2>2. Len(s) + i \in 1 .. Len(u) /\ u[Len(s) + i] = x
    BY <1>2, <2>1
  <2>3. QED BY <1>3, <2>2
<1>7. ASSUME NEW x \in S, x \in Range(u) PROVE x \in Range(s) \/ x \in Range(t)
  <2>1. PICK i \in 1 .. Len(u) : u[i] = x
    BY <1>3, <1>7
  <2>2. CASE i <= Len(s)
    <3>1. i \in 1 .. Len(s)
      BY <2>2
    <3>2. Len(s) - i + 1 \in 1 .. Len(s) /\ s[Len(s) - i + 1] = x
      BY <1>1, <1>4, <2>1, <3>1
    <3>3. QED BY <1>3, <3>2
  <2>3. CASE ~(i <= Len(s))
    BY <1>2, <1>3, <2>1, <2>3
  <2>4. QED BY <2>2, <2>3
<1>8. Range(u) = Range(s) \union Range(t)
  <2>1. Range(s) \subseteq S /\ Range(t) \subseteq S
    BY RangeType
  <2>2. Range(u) \subseteq S
    BY <1>2, RangeType
  <2>3. QED BY <1>5, <1>6, <1>7, <2>1, <2>2
<1>9. ASSUME IsInjective(s), IsInjective(t), Range(s) \intersect Range(t) = {}
      PROVE  IsInjective(u)
  <2> SUFFICES ASSUME NEW i \in 1 .. Len(u), NEW j \in 1 .. Len(u), u[i] = u[j] PROVE i = j
    BY <1>2 DEF IsInjective
  <2>1. DOMAIN s = 1 .. Len(s) /\ DOMAIN t = 1 .. Len(t)
    OBVIOUS
  <2>2. ASSUME NEW k \in 1 .. Len(u), k <= Len(s)
        PROVE  /\ k \in 1 .. Len(s) /\ Len(s) - k + 1 \in 1 .. Len(s)
               /\ u[k] = s[Len(s) - k + 1] /\ u[k] \in Range(s)
    <3>1. k \in 1 .. Len(s)
      BY <2>2
    <3>2. Len(s) - k + 1 \in 1 .. Len(s) /\ u[k] = s[Len(s) - k + 1]
      BY <1>1, <1>4, <3>1
    <3>3. QED BY <1>3, <3>1, <3>2
  <2>3. ASSUME NEW k \in 1 .. Len(u), ~(k <= Len(s))
        PROVE  /\ k - Len(s) \in 1 .. Len(t)
               /\ u[k] = t[k - Len(s)] /\ u[k] \in Range(t)
    BY <1>2, <1>3, <2>3
  <2>4. CASE i <= Len(s) /\ j <= Len(s)
    <3>1. Len(s) - i + 1 = Len(s) - j + 1
      BY <1>9, <2>1, <2>2, <2>4 DEF IsInjective
    <3>2. QED BY <3>1
  <2>5. CASE ~(i <= Len(s)) /\ ~(j <= Len(s))
    <3>1. i - Len(s) = j - Len(s)
      BY <1>9, <2>1, <2>3, <2>5 DEF IsInjective
    <3>2. QED BY <3>1
  <2>6. CASE (i <= Len(s)) /\ ~(j <= Len(s))
    BY <1>9, <2>2, <2>3, <2>6
  <2>7. CASE ~(i <= Len(s)) /\ (j <= Len(s))
    BY <1>9, <2>2, <2>3, <2>7
  <2>8. QED BY <2>4, <2>5, <2>6, <2>7
<1>10. QED BY <1>2, <1>8, <1>9 DEF u, r

\* list_del() takes one entry off the list.
LEMMA Unlinked ==
  ASSUME NEW S, NEW s \in Seq(S), IsInjective(s), NEW k \in 1 .. Len(s)
  PROVE  /\ RemoveAt(s, k) \in Seq(S)
         /\ IsInjective(RemoveAt(s, k))
         /\ Range(RemoveAt(s, k)) = Range(s) \ {s[k]}
<1> DEFINE u == RemoveAt(s, k)
<1>1. /\ u \in Seq(S) /\ Len(u) = Len(s) - 1
      /\ \A i \in 1 .. Len(u) : u[i] = IF i < k THEN s[i] ELSE s[i + 1]
  <2> DEFINE a == SubSeq(s, 1, k - 1)
             b == SubSeq(s, k + 1, Len(s))
  <2>1. Len(s) \in Nat /\ k \in Nat /\ k <= Len(s)
    OBVIOUS
  <2>2. a \in Seq(S) /\ Len(a) = k - 1 /\ \A i \in 1 .. k - 1 : a[i] = s[i]
    BY <2>1
  <2>3. b \in Seq(S) /\ Len(b) = Len(s) - k /\ \A i \in 1 .. Len(s) - k : b[i] = s[k + i]
    BY <2>1
  <2>4. u = a \o b
    BY DEF RemoveAt
  <2> HIDE DEF a, b, u
  <2>5. u \in Seq(S) /\ Len(u) = Len(s) - 1
    <3>1. a \in Seq(S) /\ b \in Seq(S)
      BY <2>2, <2>3
    <3>2. a \o b \in Seq(S) /\ Len(a \o b) = Len(a) + Len(b)
      BY <3>1
    <3>3. QED BY <2>1, <2>2, <2>3, <2>4, <3>2
  <2>6. \A i \in 1 .. Len(u) : u[i] = IF i <= k - 1 THEN a[i] ELSE b[i - (k - 1)]
    BY <2>1, <2>2, <2>3, <2>4
  <2>7. ASSUME NEW i \in 1 .. Len(u) PROVE u[i] = IF i < k THEN s[i] ELSE s[i + 1]
    <3>1. CASE i < k
      BY <2>1, <2>2, <2>5, <2>6, <3>1
    <3>2. CASE ~(i < k)
      <4>1. i - (k - 1) \in 1 .. Len(s) - k /\ k + (i - (k - 1)) = i + 1 /\ ~(i <= k - 1)
        BY <2>1, <2>5, <3>2
      <4>2. u[i] = b[i - (k - 1)]
        BY <2>6, <4>1
      <4>3. b[i - (k - 1)] = s[k + (i - (k - 1))]
        BY <2>3, <4>1
      <4>4. QED BY <3>2, <4>1, <4>2, <4>3
    <3>3. QED BY <3>1, <3>2
  <2>8. QED BY <2>5, <2>7
<1> HIDE DEF u
<1>2. /\ \A x \in S : x \in Range(s) <=> \E i \in 1 .. Len(s) : s[i] = x
      /\ \A x \in S : x \in Range(u) <=> \E i \in 1 .. Len(u) : u[i] = x
  <2>1. \A x \in S : x \in Range(s) <=> \E i \in 1 .. Len(s) : s[i] = x
    BY InRange
  <2>2. \A x \in S : x \in Range(u) <=> \E i \in 1 .. Len(u) : u[i] = x
    BY <1>1, InRange
  <2>3. QED BY <2>1, <2>2
<1>3. \A i, j \in 1 .. Len(s) : s[i] = s[j] => i = j
  BY DEF IsInjective
<1>4. IsInjective(u)
  <2> SUFFICES ASSUME NEW i \in 1 .. Len(u), NEW j \in 1 .. Len(u), u[i] = u[j] PROVE i = j
    BY <1>1 DEF IsInjective
  <2>1. Len(s) \in Nat
    OBVIOUS
  <2>2. Len(u) = Len(s) - 1 /\ k \in 1 .. Len(s)
    BY <1>1
  <2>3. ASSUME NEW m \in 1 .. Len(u)
        PROVE  /\ m \in Int /\ m \in 1 .. Len(s) /\ m + 1 \in 1 .. Len(s)
               /\ u[m] = IF m < k THEN s[m] ELSE s[m + 1]
    BY <1>1, <2>1, <2>2
  <2>4. CASE i < k /\ j < k
    BY <1>3, <2>3, <2>4
  <2>5. CASE i < k /\ ~(j < k)
    <3>1. s[i] = s[j + 1] /\ i # j + 1
      BY <2>1, <2>2, <2>3, <2>5
    <3>2. QED BY <1>3, <2>3, <3>1
  <2>6. CASE ~(i < k) /\ j < k
    <3>1. s[i + 1] = s[j] /\ i + 1 # j
      BY <2>1, <2>2, <2>3, <2>6
    <3>2. QED BY <1>3, <2>3, <3>1
  <2>7. CASE ~(i < k) /\ ~(j < k)
    <3>1. s[i + 1] = s[j + 1] /\ i + 1 \in 1 .. Len(s) /\ j + 1 \in 1 .. Len(s)
      BY <2>3, <2>7
    <3>2. i + 1 = j + 1
      BY <1>3, <3>1
    <3>3. QED BY <2>3, <3>2
  <2>8. QED BY <2>4, <2>5, <2>6, <2>7
<1>5. ASSUME NEW x \in S, x \in Range(u) PROVE x \in Range(s) \ {s[k]}
  <2>1. PICK i \in 1 .. Len(u) : u[i] = x
    BY <1>2, <1>5
  <2>2. Len(s) \in Nat
    OBVIOUS
  <2>3. CASE i < k
    <3>1. i \in 1 .. Len(s) /\ i # k /\ s[i] = x
      BY <1>1, <2>1, <2>2, <2>3
    <3>2. QED BY <1>2, <1>3, <3>1
  <2>4. CASE ~(i < k)
    <3>1. i + 1 \in 1 .. Len(s) /\ i + 1 # k /\ s[i + 1] = x
      BY <1>1, <2>1, <2>2, <2>4
    <3>2. QED BY <1>2, <1>3, <3>1
  <2>5. QED BY <2>3, <2>4
<1>6. ASSUME NEW x \in S, x \in Range(s), x # s[k] PROVE x \in Range(u)
  <2>1. PICK i \in 1 .. Len(s) : s[i] = x
    BY <1>2, <1>6
  <2>2. Len(s) \in Nat /\ i # k
    BY <1>6, <2>1
  <2>3. CASE i < k
    <3>1. i \in 1 .. Len(u) /\ u[i] = x
      BY <1>1, <2>1, <2>2, <2>3
    <3>2. QED BY <1>2, <3>1
  <2>4. CASE i > k
    <3>1. i - 1 \in 1 .. Len(u) /\ ~(i - 1 < k) /\ i - 1 + 1 = i
      BY <1>1, <2>1, <2>2, <2>4
    <3>2. u[i - 1] = x
      BY <1>1, <2>1, <3>1
    <3>3. QED BY <1>2, <3>1, <3>2
  <2>5. QED BY <2>2, <2>3, <2>4
<1>7. Range(u) = Range(s) \ {s[k]}
  <2>1. Range(s) \subseteq S
    BY RangeType
  <2>2. Range(u) \subseteq S
    BY <1>1, RangeType
  <2>3. QED BY <1>5, <1>6, <2>1, <2>2
<1>8. QED BY <1>1, <1>4, <1>7 DEF u

\* The controllers of a device of the SoC.
LEMMA Registered ==
  ASSUME devices \in Seq(Devs), NEW k \in 1 .. Len(devices)
  PROVE  /\ devices[k] \in Devs /\ devices[k] \in Range(devices)
         /\ All(devices[k]) \subseteq Ctls /\ All(devices[k]) = Range(Bridges[devices[k]])
         /\ Bridges[devices[k]] \in Seq(Ctls) /\ IsInjective(Bridges[devices[k]])
<1>1. devices[k] \in Devs
  OBVIOUS
<1>2. devices[k] \in Range(devices)
  BY InRange
<1>3. All(devices[k]) \subseteq Ctls
  BY <1>2 DEF Ctls
<1>4. Bridges[devices[k]] \in Seq(All(devices[k])) /\ IsInjective(Bridges[devices[k]])
  BY <1>1, ProbeAssumption
<1> DEFINE a == All(devices[k])
           b == Bridges[devices[k]]
<1>5. ASSUME NEW A, NEW B, A \subseteq B, NEW q \in Seq(A) PROVE q \in Seq(B)
  <2>1. \A i \in 1 .. Len(q) : q[i] \in B
    BY <1>5
  <2>2. QED BY <2>1
<1>6. Bridges[devices[k]] \in Seq(Ctls)
  BY <1>3, <1>4, <1>5
<1>7. QED BY <1>1, <1>2, <1>3, <1>4, <1>6 DEF All

\* The command never changes what it was asked, nor the bridges' modes.
LEMMA SameArgs ==
  ASSUME ArgsOK, UNCHANGED args
  PROVE  ArgsOK' /\ Ctls' = Ctls
<1>1. Ctls' = Ctls
  BY DEF args, Ctls
<1>2. QED
  BY <1>1 DEF ArgsOK, args

-----------------------------------------------------------------------------
(***************************************************************************)
(* The verdict.                                                            *)
(***************************************************************************)
\* A probe that has not begun has judged nothing.
LEMMA InitVerdictInv == Init => VerdictInv
<1> SUFFICES ASSUME Init PROVE VerdictInv
  OBVIOUS
<1>1. PICK g \in DOMAIN Socs : devices = Socs[g]
  BY DEF Init
<1>2. devices \in Seq(Devs) /\ IsInjective(devices)
  BY <1>1, ProbeAssumption
<1>3. ArgsOK
  BY <1>2 DEF Init, ArgsOK, Ctls
<1>4. bridges \in Seq(Ctls)
  <2>1. bridges = <<>>
    BY DEF Init
  <2>2. QED BY <2>1
<1>5. LoopOK
  <2>1. /\ pc = "probe" /\ next = 1 /\ rc = 0 /\ lost = FALSE /\ error = FALSE
        /\ current \in Modes /\ aggregate = 2
    BY DEF Init, bm_disabled
  <2>2. lost \in BOOLEAN /\ error \in BOOLEAN
    BY <2>1, Zenon
  <2>3. next \in Nat \ {0} /\ rc \in {0, 1} /\ aggregate \in Modes
    BY <2>1 DEF Modes
  <2>4. QED BY <1>4, <2>1, <2>2, <2>3 DEF LoopOK
<1>6. InitOK /\ ReportOK /\ VerdictOK
  BY DEF Init, InitOK, ReportOK, VerdictOK
<1>7. QED BY <1>3, <1>5, <1>6 DEF VerdictInv

\* host_init(), host_get_ahb() and soc_probe() only decide whether to go on.
LEMMA StartVerdict ==
  ASSUME VerdictInv, Start
  PROVE  VerdictInv'
<1>1. ArgsOK' /\ Ctls' = Ctls
  BY SameArgs DEF VerdictInv, Start
<1>2. /\ pc = "probe" /\ pc' \in {"init", "done"} /\ next' = next
      /\ (pc' = "init" => rc' = rc) /\ rc' \in {0, 1, rc}
      /\ UNCHANGED <<bridges, current, aggregate, error, reported, lost>>
  BY DEF Start, loop
<1>3. LoopOK'
  BY <1>1, <1>2 DEF VerdictInv, LoopOK
<1>4. InitOK'
  BY <1>2 DEF VerdictInv, InitOK, LoopOK
<1>5. ReportOK' /\ VerdictOK'
  BY <1>2 DEF ReportOK, VerdictOK
<1>6. QED BY <1>1, <1>3, <1>4, <1>5 DEF VerdictInv

\* What a driver's initialisation does to the list.
LEMMA DriverAdds ==
  ASSUME VerdictInv, InitDriver
  PROVE  /\ pc = "init" /\ pc' = pc /\ next \in 1 .. Len(devices) /\ next' = next + 1
         /\ UNCHANGED <<args, loop, rc, reported, freed, misuse>>
         /\ \/ /\ bridges' = Reverse(Bridges[devices[next]]) \o bridges
               /\ bridges' \in Seq(Ctls)
               /\ Range(bridges') = All(devices[next]) \union Range(bridges)
               /\ ready' = ready \union {devices[next]} /\ lost' = lost
            \/ lost' = TRUE /\ bridges' = bridges /\ ready' = ready
<1> DEFINE d == devices[next]
<1>1. /\ pc = "init" /\ pc' = pc /\ next <= Len(devices) /\ next' = next + 1
      /\ UNCHANGED <<args, loop, rc, reported, freed, misuse>>
      /\ \/ /\ bridges' = Reverse(Bridges[d]) \o bridges
            /\ ready' = ready \union {d} /\ lost' = lost
         \/ lost' = TRUE /\ bridges' = bridges /\ ready' = ready
  BY DEF InitDriver
<1>2. next \in 1 .. Len(devices) /\ devices \in Seq(Devs) /\ bridges \in Seq(Ctls)
  BY <1>1 DEF VerdictInv, LoopOK, ArgsOK
<1>3. Bridges[d] \in Seq(Ctls) /\ Range(Bridges[d]) = All(d)
  BY <1>2, Registered
<1>4. /\ Reverse(Bridges[d]) \o bridges \in Seq(Ctls)
      /\ Range(Reverse(Bridges[d]) \o bridges) = Range(Bridges[d]) \union Range(bridges)
  BY <1>2, <1>3, Prepended
<1>5. CASE bridges' = Reverse(Bridges[d]) \o bridges /\ ready' = ready \union {d} /\ lost' = lost
  <2>1. bridges' \in Seq(Ctls) /\ Range(bridges') = All(d) \union Range(bridges)
    BY <1>3, <1>4, <1>5, Zenon
  <2>2. QED BY <1>1, <1>2, <1>5, <2>1
<1>6. CASE lost' = TRUE /\ bridges' = bridges /\ ready' = ready
  BY <1>1, <1>2, <1>6
<1>7. QED BY <1>1, <1>5, <1>6

\* A driver that is initialised adds all its controllers, one that fails is noted.
LEMMA InitDriverVerdict ==
  ASSUME VerdictInv, InitDriver
  PROVE  VerdictInv'
<1>1. /\ pc = "init" /\ pc' = pc /\ next \in 1 .. Len(devices) /\ next' = next + 1
      /\ UNCHANGED <<args, loop, rc, reported>>
      /\ \/ /\ bridges' \in Seq(Ctls) /\ lost' = lost
            /\ Range(bridges') = All(devices[next]) \union Range(bridges)
         \/ lost' = TRUE /\ bridges' = bridges
  BY DriverAdds
<1>2. ArgsOK' /\ Ctls' = Ctls /\ devices' = devices
  BY <1>1, SameArgs DEF VerdictInv, args
<1>3. bridges' \in Seq(Ctls) /\ lost' \in BOOLEAN
  BY <1>1 DEF VerdictInv, LoopOK
<1>4. LoopOK'
  BY <1>1, <1>2, <1>3 DEF VerdictInv, LoopOK, loop
<1>5. InitOK'
  <2>1. ASSUME ~lost', NEW k \in 1 .. Len(devices), k < next'
        PROVE  All(devices[k]) \subseteq Range(bridges')
    <3>1. /\ lost' = lost /\ ~lost
          /\ Range(bridges') = All(devices[next]) \union Range(bridges)
      BY <1>1, <2>1 DEF VerdictInv, LoopOK
    <3>2. k = next \/ k < next
      BY <1>1, <2>1
    <3>3. CASE k = next
      BY <3>1, <3>3
    <3>4. CASE k < next
      BY <1>1, <3>1, <3>4 DEF VerdictInv, InitOK
    <3>5. QED BY <3>2, <3>3, <3>4
  <2>2. QED
    BY <1>1, <1>2, <2>1 DEF VerdictInv, InitOK, loop, All
<1>6. ReportOK' /\ VerdictOK'
  BY <1>1 DEF ReportOK, VerdictOK
<1>7. QED BY <1>2, <1>4, <1>5, <1>6 DEF VerdictInv

\* With the last driver every controller of the SoC is on the list, or one has
\* failed.
LEMMA InitialisedVerdict ==
  ASSUME VerdictInv, Initialised
  PROVE  VerdictInv'
<1>1. /\ pc = "init" /\ next > Len(devices) /\ next' = 1
      /\ pc' = IF listing THEN "destroy" ELSE "report"
      /\ UNCHANGED <<args, bridges, current, aggregate, error, rc, reported, lost>>
  BY DEF Initialised, loop
<1>2. ArgsOK' /\ Ctls' = Ctls /\ listing' = listing
  BY <1>1, SameArgs DEF VerdictInv, args
<1>3. pc' \in {"destroy", "report"} /\ (pc' = "report" <=> ~listing)
  BY <1>1 DEF VerdictInv, ArgsOK
<1>4. LoopOK'
  BY <1>1, <1>2, <1>3 DEF VerdictInv, LoopOK
<1>5. InitOK' /\ VerdictOK'
  BY <1>2, <1>3 DEF VerdictInv, ArgsOK, InitOK, VerdictOK
<1>6. ReportOK'
  <2>1. ASSUME ~lost, NEW c \in Ctls PROVE c \in Range(bridges)
    <3>1. PICK e \in Range(devices) : c \in All(e)
      BY DEF Ctls
    <3>2. devices \in Seq(Devs)
      BY DEF VerdictInv, ArgsOK
    <3>3. PICK k \in 1 .. Len(devices) : devices[k] = e
      BY <3>2, InRange
    <3>4. k < next
      BY <1>1, <3>2 DEF VerdictInv, LoopOK
    <3>5. QED BY <1>1, <2>1, <3>1, <3>3, <3>4 DEF VerdictInv, InitOK
  <2>2. ~lost => Ctls \subseteq Range(bridges)
    BY <2>1
  <2>3. ASSUME NEW k \in 1 .. Len(bridges') PROVE ~(k < next')
    BY <1>1
  <2>4. aggregate' = bm_disabled /\ rc' = 0
    BY <1>1 DEF VerdictInv, InitOK
  <2>5. QED
    BY <1>1, <1>2, <1>3, <2>2, <2>3, <2>4 DEF ReportOK
<1>7. QED BY <1>2, <1>4, <1>5, <1>6 DEF VerdictInv

\* A report that succeeds makes the aggregate no more than its mode, and one that
\* fails leaves an error.
LEMMA ReportVerdict ==
  ASSUME VerdictInv, ReportNext
  PROVE  VerdictInv'
<1> DEFINE c == bridges[next]
<1>1. /\ pc = "report" /\ pc' = pc /\ next <= Len(bridges) /\ next' = next + 1
      /\ UNCHANGED <<args, bridges, rc, lost>>
  BY DEF ReportNext
<1>2. ArgsOK' /\ Ctls' = Ctls /\ truth' = truth /\ listing' = listing /\ name' = name
  BY <1>1, SameArgs DEF VerdictInv, args
<1>3. next \in 1 .. Len(bridges) /\ bridges \in Seq(Ctls) /\ c \in Ctls
  BY <1>1 DEF VerdictInv, LoopOK
<1>4. truth[c] \in Modes /\ current \in Modes /\ aggregate \in Modes /\ error \in BOOLEAN
  BY <1>3 DEF VerdictInv, LoopOK, ArgsOK
<1>5. \/ UNCHANGED <<current, aggregate, error, reported>> /\ name # None
      \/ /\ current' = truth[c] /\ error' = error /\ reported' = reported \union {c}
         /\ aggregate' = Least(current', aggregate)
      \/ /\ current' \in {current, truth[c]} /\ error' = TRUE /\ reported' = reported
         /\ aggregate' = Least(current', aggregate)
  BY DEF ReportNext, Report, loop
<1>6. current' \in Modes /\ aggregate' \in Modes /\ error' \in BOOLEAN
  BY <1>4, <1>5 DEF Least
<1>7. LoopOK'
  BY <1>1, <1>2, <1>3, <1>6 DEF VerdictInv, LoopOK
<1>8. InitOK' /\ VerdictOK'
  BY <1>1 DEF InitOK, VerdictOK
<1>9. ReportOK'
  <2>1. rc' = 0 /\ ~listing' /\ (~lost' => Ctls' \subseteq Range(bridges'))
    BY <1>1, <1>2 DEF VerdictInv, ReportOK
  <2>2. ASSUME ~error'
        PROVE  /\ ~error
               /\ \/ UNCHANGED <<aggregate, reported>> /\ name # None
                  \/ reported' = reported \union {c} /\ aggregate' = Least(truth[c], aggregate)
    BY <1>5, <2>2
  <2>3. ASSUME ~error'
        PROVE  aggregate' = bm_disabled \/ \E x \in Ctls : truth[x] = aggregate'
    <3>1. aggregate' \in {aggregate, truth[c]}
      BY <2>2, <2>3 DEF Least
    <3>2. aggregate = bm_disabled \/ \E x \in Ctls : truth[x] = aggregate
      BY <1>1, <2>2, <2>3 DEF VerdictInv, ReportOK
    <3>3. QED BY <1>3, <3>1, <3>2
  <2>4. ASSUME ~error', name = None, NEW k \in 1 .. Len(bridges), k < next'
        PROVE  bridges[k] \in reported' /\ aggregate' <= truth[bridges[k]]
    <3>1. reported' = reported \union {c} /\ aggregate' = Least(truth[c], aggregate) /\ ~error
      BY <2>2, <2>4
    <3>2. aggregate' <= truth[c] /\ aggregate' <= aggregate
      BY <1>4, <3>1 DEF Least, Modes
    <3>3. CASE k = next
      BY <3>1, <3>2, <3>3
    <3>4. CASE k < next
      <4>1. bridges[k] \in reported /\ aggregate <= truth[bridges[k]]
        BY <1>1, <2>4, <3>1, <3>4 DEF VerdictInv, ReportOK
      <4>2. truth[bridges[k]] \in Modes
        BY <1>3 DEF VerdictInv, ArgsOK
      <4>3. QED BY <1>4, <1>6, <3>1, <3>2, <4>1, <4>2 DEF Modes
    <3>5. k = next \/ k < next
      BY <1>1, <1>3, <2>4
    <3>6. QED BY <3>3, <3>4, <3>5
  <2>5. QED
    BY <1>1, <1>2, <2>1, <2>3, <2>4 DEF ReportOK
<1>10. QED BY <1>2, <1>7, <1>8, <1>9 DEF VerdictInv

\* The verdict is right about what was reported, hence about the SoC.
LEMMA VerdictVerdict ==
  ASSUME VerdictInv, Verdict
  PROVE  VerdictInv'
<1>1. /\ pc = "report" /\ pc' = "destroy" /\ next > Len(bridges) /\ next' = 1
      /\ rc' = IF ~error /\ require <= aggregate THEN 0 ELSE 1
      /\ UNCHANGED <<args, bridges, current, aggregate, error, reported, lost>>
  BY DEF Verdict, loop
<1>2. /\ ArgsOK' /\ Ctls' = Ctls
      /\ UNCHANGED <<truth, require, listing, name>>
  BY <1>1, SameArgs DEF VerdictInv, args
<1>3. /\ require \in Modes /\ aggregate \in Modes /\ error \in BOOLEAN /\ bridges \in Seq(Ctls)
      /\ next \in Nat /\ truth \in [Ctls -> Modes]
  BY DEF VerdictInv, LoopOK, ArgsOK
<1>4. rc' \in {0, 1} /\ (rc' = 0 <=> ~error /\ require <= aggregate)
  BY <1>1, <1>3
<1>5. LoopOK'
  BY <1>1, <1>2, <1>4 DEF VerdictInv, LoopOK
<1>6. InitOK' /\ ReportOK'
  BY <1>1 DEF InitOK, ReportOK
<1>7. ASSUME rc' = 0, name = None, NEW x \in Ctls, x \in Range(bridges)
      PROVE  x \in reported /\ require <= truth[x]
  <2>1. PICK k \in 1 .. Len(bridges) : bridges[k] = x
    BY <1>3, <1>7, InRange
  <2>2. k < next
    BY <1>1, <1>3
  <2>3. x \in reported /\ aggregate <= truth[x]
    BY <1>1, <1>4, <1>7, <2>1, <2>2 DEF VerdictInv, ReportOK
  <2>4. truth[x] \in Modes
    BY <1>3
  <2>5. QED BY <1>3, <1>4, <1>7, <2>3, <2>4 DEF Modes
<1>8. ASSUME rc' = 0, ~lost, name = None PROVE Meets
  <2>1. Ctls \subseteq Range(bridges) /\ DOMAIN truth = Ctls
    BY <1>1, <1>3, <1>8 DEF VerdictInv, ReportOK
  <2>2. ASSUME NEW x \in Ctls PROVE truth[x] >= require
    <3>1. require <= truth[x] /\ truth[x] \in Modes
      BY <1>3, <1>7, <1>8, <2>1
    <3>2. QED BY <1>3, <3>1 DEF Modes
  <2>3. QED BY <2>1, <2>2 DEF Meets
<1>9. ASSUME rc' = 1 PROVE ~Meets \/ error
  <2>1. error \/ ~(require <= aggregate)
    BY <1>4, <1>9
  <2>2. ASSUME ~error PROVE ~Meets
    <3>1. ~(require <= aggregate) /\ aggregate # bm_disabled
      BY <1>3, <2>1, <2>2 DEF Modes, bm_disabled
    <3>2. PICK x \in Ctls : truth[x] = aggregate
      BY <1>1, <2>2, <3>1 DEF VerdictInv, ReportOK
    <3>3. x \in DOMAIN truth /\ ~(truth[x] >= require)
      BY <1>3, <3>1, <3>2 DEF Modes
    <3>4. QED BY <3>3 DEF Meets
  <2>3. QED BY <2>2
<1>10. rc' = 0 /\ name = None => Range(bridges) \subseteq reported
  <2>1. Range(bridges) \subseteq Ctls
    BY <1>3, RangeType
  <2>2. QED BY <1>7, <2>1
<1>11. VerdictOK'
  BY <1>1, <1>2, <1>8, <1>9, <1>10 DEF VerdictOK, Meets
<1>12. QED BY <1>2, <1>5, <1>6, <1>11 DEF VerdictInv

\* The destruction changes nothing that the verdict is about.
LEMMA DestroyVerdict ==
  ASSUME VerdictInv, DestroyDriver, bridges' \in Seq(Ctls)
  PROVE  VerdictInv'
<1>1. /\ pc = "destroy" /\ pc' = pc /\ next' = next + 1
      /\ UNCHANGED <<args, current, aggregate, error, rc, reported, lost>>
  BY DEF DestroyDriver, loop
<1>2. /\ ArgsOK' /\ Ctls' = Ctls
      /\ UNCHANGED <<truth, require, listing, name>>
  BY <1>1, SameArgs DEF VerdictInv, args
<1>3. next' \in Nat \ {0} /\ next' # 1
  BY <1>1 DEF VerdictInv, LoopOK
<1>4. LoopOK'
  BY <1>1, <1>2, <1>3 DEF VerdictInv, LoopOK
<1>5. InitOK' /\ ReportOK'
  BY <1>1 DEF InitOK, ReportOK
<1>6. VerdictOK'
  BY <1>1, <1>2, <1>3 DEF VerdictInv, VerdictOK, Meets
<1>7. QED BY <1>2, <1>4, <1>5, <1>6 DEF VerdictInv

\* Nor does the exit.
LEMMA ExitVerdict ==
  ASSUME VerdictInv, Exit
  PROVE  VerdictInv'
<1>1. /\ pc' = "done"
      /\ UNCHANGED <<args, next, bridges, current, aggregate, error, rc, lost>>
  BY DEF Exit, loop
<1>2. ArgsOK' /\ Ctls' = Ctls
  BY <1>1, SameArgs DEF VerdictInv
<1>3. LoopOK'
  BY <1>1, <1>2 DEF VerdictInv, LoopOK
<1>4. InitOK' /\ ReportOK' /\ VerdictOK'
  BY <1>1 DEF InitOK, ReportOK, VerdictOK
<1>5. QED BY <1>2, <1>3, <1>4 DEF VerdictInv

\* Nor does a step that changes nothing.
LEMMA StutterVerdict ==
  ASSUME VerdictInv, UNCHANGED vars
  PROVE  VerdictInv'
<1>1. UNCHANGED <<args, pc, next, bridges, current, aggregate, error, rc, reported, lost>>
  BY DEF vars, loop
<1>2. /\ ArgsOK' /\ Ctls' = Ctls
      /\ UNCHANGED <<devices, truth, require, listing, name>>
  BY <1>1, SameArgs DEF VerdictInv, args
<1>3. LoopOK'
  BY <1>1, <1>2 DEF VerdictInv, LoopOK
<1>4. InitOK'
  BY <1>1, <1>2 DEF VerdictInv, InitOK, All
<1>5. ReportOK'
  BY <1>1, <1>2 DEF VerdictInv, ReportOK
<1>6. VerdictOK'
  BY <1>1, <1>2 DEF VerdictInv, VerdictOK, Meets
<1>7. QED BY <1>2, <1>3, <1>4, <1>5, <1>6 DEF VerdictInv

-----------------------------------------------------------------------------
(***************************************************************************)
(* The list, and what is destroyed of it.                                  *)
(***************************************************************************)
Left == {devices[k] : k \in {j \in 1 .. Len(devices) : j >= next}}

\* No controller is on the list twice; the list has no controller of a driver
\* that is still to be initialised, and all controllers of a driver that is
\* still to be destroyed.
ListOK ==
  /\ IsInjective(bridges)
  /\ pc \in {"probe", "init"} => \A d \in Left : All(d) \intersect Range(bridges) = {}
  /\ pc \in {"probe", "init", "report"} =>
       \A d \in ready : All(d) \subseteq Range(bridges)
  /\ pc = "destroy" => \A d \in ready \intersect Left : All(d) \subseteq Range(bridges)

\* Where pciectl is the last, memory that was freed is not on the list as long
\* as anything is to be destroyed.
FreedOK ==
  /\ misuse \in BOOLEAN
  /\ pc \in {"probe", "init", "report"} => freed = {}
  /\ Last(devices) = "pciectl" =>
       /\ ~misuse
       /\ pc = "destroy" /\ next <= Len(devices) => Range(bridges) \intersect freed = {}

ListInv == VerdictInv /\ ListOK /\ FreedOK

\* The devices of two places are two.
LEMMA LeftNext ==
  ASSUME devices \in Seq(Devs), IsInjective(devices), next \in 1 .. Len(devices),
         next' = next + 1, devices' = devices
  PROVE  /\ Left = Left' \union {devices[next]} /\ devices[next] \notin Left'
         /\ \A d \in Left : d \in Devs
<1>1. \A i, j \in 1 .. Len(devices) : devices[i] = devices[j] => i = j
  BY DEF IsInjective
<1>2. Left' = {devices[k] : k \in {j \in 1 .. Len(devices) : j >= next + 1}}
  BY DEF Left
<1>3. \A j \in 1 .. Len(devices) : j >= next <=> (j >= next + 1 \/ j = next)
  OBVIOUS
<1>4. devices[next] \notin Left'
  BY <1>1, <1>2
<1>5. Left = Left' \union {devices[next]}
  BY <1>2, <1>3 DEF Left
<1>6. \A d \in Left : d \in Devs
  BY DEF Left
<1>7. QED BY <1>4, <1>5, <1>6

\* The steps before the destruction.
LEMMA StartList ==
  ASSUME ListInv, Start, VerdictInv'
  PROVE  ListInv'
<1>1. /\ pc = "probe" /\ pc' \in {"init", "done"}
      /\ UNCHANGED <<devices, next, bridges, ready, freed, misuse>>
  BY DEF Start, args
<1>2. Left' = Left
  BY <1>1 DEF Left
<1>3. ListOK'
  BY <1>1, <1>2 DEF ListInv, ListOK, All
<1>4. FreedOK'
  BY <1>1 DEF ListInv, FreedOK
<1>5. QED BY <1>3, <1>4 DEF ListInv

\* The controllers of a driver are put on the list once.
LEMMA InitDriverList ==
  ASSUME ListInv, InitDriver, VerdictInv'
  PROVE  ListInv'
<1> DEFINE d == devices[next]
<1>1. /\ pc = "init" /\ pc' = pc /\ next \in 1 .. Len(devices) /\ next' = next + 1
      /\ UNCHANGED <<args, loop, rc, reported, freed, misuse>>
      /\ \/ /\ bridges' = Reverse(Bridges[devices[next]]) \o bridges
            /\ bridges' \in Seq(Ctls)
            /\ Range(bridges') = All(devices[next]) \union Range(bridges)
            /\ ready' = ready \union {devices[next]} /\ lost' = lost
         \/ lost' = TRUE /\ bridges' = bridges /\ ready' = ready
  BY DriverAdds DEF ListInv
<1>2. /\ devices \in Seq(Devs) /\ IsInjective(devices) /\ bridges \in Seq(Ctls)
      /\ devices' = devices
  BY <1>1 DEF ListInv, VerdictInv, ArgsOK, LoopOK, args
<1>3. /\ Left = Left' \union {d} /\ d \notin Left' /\ \A e \in Left : e \in Devs
  BY <1>1, <1>2, LeftNext
<1>4. /\ IsInjective(bridges) /\ \A e \in Left : All(e) \intersect Range(bridges) = {}
      /\ \A e \in ready : All(e) \subseteq Range(bridges)
  BY <1>1 DEF ListInv, ListOK
<1>5. CASE bridges' = bridges /\ ready' = ready
  <2>1. ListOK'
    BY <1>1, <1>3, <1>4, <1>5 DEF ListOK, All
  <2>2. FreedOK'
    BY <1>1, <1>2 DEF ListInv, FreedOK
  <2>3. QED BY <2>1, <2>2 DEF ListInv
<1>6. CASE /\ bridges' = Reverse(Bridges[d]) \o bridges
           /\ Range(bridges') = All(d) \union Range(bridges) /\ ready' = ready \union {d}
  <2>1. /\ d \in Devs /\ Bridges[d] \in Seq(Ctls) /\ IsInjective(Bridges[d])
        /\ All(d) = Range(Bridges[d])
    BY <1>1, <1>2, Registered
  <2>2. IsInjective(bridges')
    <3>1. Range(Bridges[d]) \intersect Range(bridges) = {}
      BY <1>3, <1>4, <2>1
    <3>2. IsInjective(Reverse(Bridges[d]) \o bridges)
      BY <1>2, <1>4, <2>1, <3>1, Prepended
    <3>3. QED BY <1>6, <3>2, Zenon
  <2>3. ASSUME NEW e \in Left' PROVE All(e) \intersect Range(bridges') = {}
    <3>1. e \in Devs /\ e # d /\ e \in Left
      BY <1>3
    <3>2. All(e) \intersect All(d) = {}
      BY <2>1, <3>1, ProbeAssumption
    <3>3. All(e) \intersect Range(bridges) = {}
      BY <1>4, <3>1
    <3>4. QED BY <1>6, <3>2, <3>3
  <2>4. \A e \in ready' : All(e) \subseteq Range(bridges')
    BY <1>4, <1>6
  <2>5. ListOK'
    BY <1>1, <2>2, <2>3, <2>4 DEF ListOK, All
  <2>6. FreedOK'
    BY <1>1, <1>2 DEF ListInv, FreedOK
  <2>7. QED BY <2>5, <2>6 DEF ListInv
<1>7. QED BY <1>1, <1>5, <1>6

\* Reporting changes nothing of the list.
LEMMA OtherList ==
  ASSUME ListInv, Initialised \/ ReportNext \/ Verdict \/ Exit, VerdictInv'
  PROVE  ListInv'
<1>1. /\ pc # "destroy" => pc' \in {"report", "destroy"}
      /\ pc = "destroy" => pc' = "done"
      /\ pc' = "report" => pc \in {"init", "report"}
      /\ pc \in {"init", "report", "destroy"}
      /\ UNCHANGED <<devices, bridges, ready, freed, misuse>>
  BY DEF Initialised, ReportNext, Verdict, Exit, args
<1>2. ListOK'
  BY <1>1 DEF ListInv, ListOK, All
<1>3. FreedOK'
  BY <1>1 DEF ListInv, FreedOK
<1>4. QED BY <1>2, <1>3 DEF ListInv

\* One controller leaves the list; where pciectl is the last, its neighbours
\* are not freed, and it is all there is of a driver that is not the last.
LEMMA DestroyList ==
  ASSUME ListInv, DestroyDriver
  PROVE  /\ bridges' \in Seq(Ctls)
         /\ VerdictInv' => ListInv'
<1> DEFINE d == devices[next]
           c == Head(Bridges[d])
           i == CHOOSE k \in DOMAIN bridges : bridges[k] = c
<1>1. /\ pc = "destroy" /\ pc' = pc /\ next <= Len(devices) /\ next' = next + 1
      /\ ready' = ready \ {d} /\ devices' = devices
      /\ IF d \in ready THEN Destroy(d) ELSE UNCHANGED <<misuse, bridges, freed>>
  BY DEF DestroyDriver, args
<1>2. /\ devices \in Seq(Devs) /\ IsInjective(devices) /\ bridges \in Seq(Ctls)
      /\ next \in 1 .. Len(devices)
  BY <1>1 DEF ListInv, VerdictInv, ArgsOK, LoopOK
<1>3. /\ Left = Left' \union {d} /\ d \notin Left' /\ \A e \in Left : e \in Devs
  BY <1>1, <1>2, LeftNext
<1>4. /\ IsInjective(bridges)
      /\ \A e \in ready \intersect Left : All(e) \subseteq Range(bridges)
  BY <1>1 DEF ListInv, ListOK
<1>5. misuse \in BOOLEAN
  BY DEF ListInv, FreedOK
<1>6. CASE d \notin ready
  <2>1. UNCHANGED <<misuse, bridges, freed>>
    BY <1>1, <1>6
  <2>2. ListOK'
    BY <1>1, <1>3, <1>4, <2>1 DEF ListOK, All
  <2>3. FreedOK'
    BY <1>1, <1>2, <2>1 DEF ListInv, FreedOK
  <2>4. QED BY <1>2, <2>1, <2>2, <2>3 DEF ListInv
<1>7. CASE d \in ready
  <2>1. /\ misuse' = (misuse \/ Neighbours(c) \intersect freed # {})
        /\ bridges' = RemoveAt(bridges, i) /\ freed' = freed \union All(d)
    BY <1>1, <1>7, Zenon DEF Destroy, Unregister
  <2>2. d \in Devs /\ All(d) = Range(Bridges[d])
    BY <1>2, Registered
  <2>3. Bridges[d] \in Seq(All(d)) /\ Bridges[d] # <<>>
    BY <2>2, ProbeAssumption
  <2>4. 1 \in 1 .. Len(Bridges[d]) /\ c = Bridges[d][1] /\ c \in All(d)
    BY <2>3
  <2>5. d \in Left
    BY <1>3
  <2>6. c \in Range(bridges)
    BY <1>4, <1>7, <2>4, <2>5
  <2>7. i \in 1 .. Len(bridges) /\ bridges[i] = c
    <3>1. \E k \in 1 .. Len(bridges) : bridges[k] = c
      BY <1>2, <2>6, InRange
    <3>2. DOMAIN bridges = 1 .. Len(bridges)
      BY <1>2
    <3> HIDE DEF c, d
    <3>3. \E k \in DOMAIN bridges : bridges[k] = c
      BY <3>1, <3>2, Zenon
    <3>4. i \in DOMAIN bridges /\ bridges[i] = c
      BY <3>3, Zenon
    <3>5. QED BY <3>2, <3>4
  <2> HIDE DEF i, c
  <2>8. /\ bridges' \in Seq(Ctls) /\ IsInjective(bridges')
        /\ Range(bridges') = Range(bridges) \ {c}
    <3>1. /\ RemoveAt(bridges, i) \in Seq(Ctls) /\ IsInjective(RemoveAt(bridges, i))
          /\ Range(RemoveAt(bridges, i)) = Range(bridges) \ {bridges[i]}
      BY <1>2, <1>4, <2>7, Unlinked
    <3>2. QED BY <2>1, <2>7, <3>1, Zenon
  <2>9. ASSUME NEW e \in ready' \intersect Left' PROVE All(e) \subseteq Range(bridges')
    <3>1. e \in Devs /\ e # d /\ e \in Left /\ e \in ready
      BY <1>1, <1>3, <2>9
    <3>2. All(e) \intersect All(d) = {}
      BY <2>2, <3>1, ProbeAssumption
    <3>3. All(e) \subseteq Range(bridges)
      BY <1>4, <3>1
    <3>4. QED BY <2>4, <2>8, <3>2, <3>3
  <2>10. ListOK'
    BY <1>1, <2>8, <2>9 DEF ListOK, All
  <2>11. Neighbours(c) \subseteq Range(bridges)
    <3>1. ASSUME NEW k \in DOMAIN bridges PROVE bridges[k] \in Range(bridges)
      BY <1>2, InRange
    <3>2. QED BY <3>1 DEF Neighbours
  <2>12. ASSUME Last(devices) = "pciectl"
         PROVE  /\ ~misuse'
                /\ next' <= Len(devices) => Range(bridges') \intersect freed' = {}
    <3>1. ~misuse /\ Range(bridges) \intersect freed = {}
      BY <1>1, <2>12 DEF ListInv, FreedOK
    <3>2. ~misuse'
      <4>1. Neighbours(c) \intersect freed = {}
        BY <2>11, <3>1
      <4>2. QED BY <2>1, <3>1, <4>1
    <3>3. ASSUME next' <= Len(devices) PROVE Range(bridges') \intersect freed' = {}
      <4>1. Len(devices) \in 1 .. Len(devices) /\ next # Len(devices)
        BY <1>1, <1>2, <3>3
      <4>2. d # "pciectl"
        BY <1>2, <2>12, <4>1 DEF IsInjective, Last
      <4>3. Len(Bridges[d]) = 1
        BY <2>2, <4>2, ProbeAssumption
      <4>4. All(d) = {c}
        <5>1. ASSUME NEW x \in All(d) PROVE x = c
          <6>1. PICK k \in 1 .. Len(Bridges[d]) : Bridges[d][k] = x
            BY <2>2, <2>3, InRange
          <6>2. QED BY <2>4, <4>3, <6>1
        <5>2. QED BY <2>4, <5>1
      <4>5. QED BY <2>1, <2>8, <3>1, <4>4
    <3>4. QED BY <3>2, <3>3
  <2>13. misuse' \in BOOLEAN
    BY <2>1, Zenon
  <2>14. FreedOK'
    BY <1>1, <2>12, <2>13 DEF FreedOK
  <2>15. QED BY <2>8, <2>10, <2>14 DEF ListInv
<1>8. QED BY <1>6, <1>7

\* One step per action of the command.
LEMMA NextListInv ==
  ASSUME ListInv, [Next]_vars
  PROVE  ListInv'
<1>1. CASE Start
  BY <1>1, StartVerdict, StartList DEF ListInv
<1>2. CASE InitDriver
  BY <1>2, InitDriverVerdict, InitDriverList DEF ListInv
<1>3. CASE Initialised
  BY <1>3, InitialisedVerdict, OtherList DEF ListInv
<1>4. CASE ReportNext
  BY <1>4, ReportVerdict, OtherList DEF ListInv
<1>5. CASE Verdict
  BY <1>5, VerdictVerdict, OtherList DEF ListInv
<1>6. CASE DestroyDriver
  BY <1>6, DestroyVerdict, DestroyList DEF ListInv
<1>7. CASE Exit
  BY <1>7, ExitVerdict, OtherList DEF ListInv
<1>8. CASE UNCHANGED vars
  <2>1. VerdictInv'
    BY <1>8, StutterVerdict DEF ListInv
  <2>2. UNCHANGED <<devices, pc, next, bridges, ready, freed, misuse>>
    BY <1>8 DEF vars, args
  <2>3. Left' = Left
    BY <2>2 DEF Left
  <2>4. ListOK' /\ FreedOK'
    BY <2>2, <2>3 DEF ListInv, ListOK, FreedOK, All
  <2>5. QED BY <2>1, <2>4 DEF ListInv
<1>9. QED
  BY <1>1, <1>2, <1>3, <1>4, <1>5, <1>6, <1>7, <1>8 DEF Next

\* The invariant holds throughout.
LEMMA AlwaysListInv == Spec => []ListInv
<1>1. Init => ListInv
  <2> SUFFICES ASSUME Init PROVE ListInv
    OBVIOUS
  <2>1. bridges = <<>> /\ ready = {} /\ freed = {} /\ misuse = FALSE /\ pc = "probe"
    BY DEF Init
  <2>2. IsInjective(bridges) /\ Range(bridges) = {}
    BY <2>1 DEF IsInjective, Range
  <2>3. ListOK /\ FreedOK
    BY <2>1, <2>2 DEF ListOK, FreedOK
  <2>4. QED BY <2>3, InitVerdictInv DEF ListInv
<1>2. ListInv /\ [Next]_vars => ListInv'
  BY NextListInv
<1>3. QED
  BY <1>1, <1>2, PTL DEF Spec

\* No interface was named: the code takes its name for that of a controller.
Unnamed == name = None

\* For any number of controllers, modes and requirements, and whatever reports
\* fail, before or after they have set the mode: the exit status says whether
\* every bridge is at least as strict as required (cmd/probe.c), unless the
\* probe has been given a name to look for.
THEOREM StatusCorrect == Spec => [](Unnamed => ExitStatus)
<1>1. ListInv /\ Unnamed => ExitStatus
  BY DEF ListInv, VerdictInv, VerdictOK, ExitStatus, Unnamed
<1>2. QED
  BY <1>1, AlwaysListInv, PTL

\* A probe that succeeds has reported every controller on the list, unless it
\* has been given a name to look for (soc.c, soc_probe_bridge_controllers).
THEOREM ReportedCorrect == Spec => [](Unnamed => AllReported)
<1>1. ListInv /\ Unnamed => AllReported
  BY DEF ListInv, VerdictInv, VerdictOK, AllReported, Unnamed
<1>2. QED
  BY <1>1, AlwaysListInv, PTL

\* However many drivers there are and whichever of them fail, list_del() never
\* writes to a controller that was freed if pciectl is destroyed last.
THEOREM AliveCorrect == Spec => []ListAlive
<1>1. ListInv => ListAlive
  BY DEF ListInv, FreedOK, ListAlive
<1>2. QED
  BY <1>1, AlwaysListInv, PTL

=============================================================================
