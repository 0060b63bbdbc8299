-------------------------- MODULE SessionGate_proofs --------------------------
(***************************************************************************)
(* Theorems of LoginLimiter and SessionGate: for every limit, window and   *)
(* TTL, any addresses, any number of handlers at once and of tabs.         *)
(***************************************************************************)
EXTENDS SessionGate, FiniteSetTheorems, SequenceTheorems, WellFoundedInduction, TLAPS

-----------------------------------------------------------------------------
(* Sequences of times: what pruneBefore leaves, and what Count counts. *)

Less == {ss \in Nat \X Nat : ss[1] < ss[2]}

LEMMA HasLeast == \A T \in SUBSET Nat : T # {} => \E x \in T : \A y \in T : x <= y
<1> SUFFICES ASSUME NEW T \in SUBSET Nat, T # {} PROVE \E x \in T : \A y \in T : x <= y
  OBVIOUS
<1>1. IsWellFoundedOn(Less, Nat)
  BY NatLessThanWellFounded DEF OpToRel, Less
<1>2. PICK x \in T : \A y \in T : <<y, x>> \notin Less
  BY <1>1, WFMin
<1>3. ASSUME NEW y \in T, y < x PROVE FALSE
  <2>1. <<y, x>> \in Nat \X Nat /\ <<y, x>>[1] = y /\ <<y, x>>[2] = x
    OBVIOUS
  <2>2. <<y, x>> \in Less
    BY <1>3, <2>1 DEF Less
  <2> QED
    BY <1>2, <2>2
<1>4. \A y \in T : x <= y
  BY <1>3
<1> QED
  BY <1>4

LEMMA TimesOf ==
    /\ \A t \in Times : t \in Int
    /\ \A s \in Seq(Times) : Len(s) \in Nat /\ \A i \in 1..Len(s) : s[i] \in Times /\ s[i] \in Int
<1>1. \A t \in Times : t \in Int
  BY DEF Times
<1>2. \A s \in Seq(Times) : Len(s) \in Nat /\ \A i \in 1..Len(s) : s[i] \in Times
  OBVIOUS
<1> QED
  BY <1>1, <1>2

\* pruneBefore drops the leading entries up to the cutoff and no other.
LEMMA PruneIs ==
    \A s \in Seq(Times) : \A cutoff \in Int :
       \E k \in 0..Len(s) :
          /\ PruneBefore(s, cutoff) \in Seq(Times)
          /\ Len(PruneBefore(s, cutoff)) = Len(s) - k
          /\ \A i \in 1..(Len(s) - k) : PruneBefore(s, cutoff)[i] = s[k + i]
          /\ \A i \in 1..k : s[i] <= cutoff
          /\ k < Len(s) => s[k + 1] > cutoff
<1> SUFFICES ASSUME NEW s \in Seq(Times), NEW cutoff \in Int
             PROVE  \E k \in 0..Len(s) :
                       /\ PruneBefore(s, cutoff) \in Seq(Times)
                       /\ Len(PruneBefore(s, cutoff)) = Len(s) - k
                       /\ \A i \in 1..(Len(s) - k) : PruneBefore(s, cutoff)[i] = s[k + i]
                       /\ \A i \in 1..k : s[i] <= cutoff
                       /\ k < Len(s) => s[k + 1] > cutoff
  OBVIOUS
<1> DEFINE Cut(k) == (\A i \in 1..k : s[i] <= cutoff) /\ (k < Len(s) => s[k + 1] > cutoff)
           Stops  == {k \in 0..Len(s) : k < Len(s) => s[k + 1] > cutoff}
<1>1. Len(s) \in Nat /\ (\A i \in 1..Len(s) : s[i] \in Int) /\ Times \subseteq Int
  BY TimesOf
<1>2. \E k \in 0..Len(s) : Cut(k)
  <2>1. Stops \in SUBSET Nat /\ Len(s) \in Stops
    BY <1>1
  <2>2. PICK k \in Stops : \A y \in Stops : k <= y
    <3> HIDE DEF Stops
    <3> QED
      BY <2>1, HasLeast
  <2>3. ASSUME NEW i \in 1..k PROVE s[i] <= cutoff
    <3>1. k \in 0..Len(s)
      OBVIOUS
    <3>2. i - 1 \in 0..Len(s) /\ i - 1 < k /\ (i - 1) + 1 = i /\ k \in Int
      BY <1>1, <3>1
    <3>3. i - 1 \notin Stops
      <4>1. i - 1 \in Stops => k <= i - 1
        <5> HIDE DEF Stops
        <5> QED
          BY <2>2
      <4> QED
        BY <3>2, <4>1
    <3> QED
      BY <1>1, <3>1, <3>2, <3>3
  <2> QED
    BY <2>2, <2>3
<1> DEFINE k == CHOOSE k \in 0..Len(s) : Cut(k)
<1>3. k \in 0..Len(s) /\ Cut(k)
  <2> HIDE DEF Cut
  <2> QED
    BY <1>2
<1>4. PruneBefore(s, cutoff) = SubSeq(s, k + 1, Len(s))
  BY DEF PruneBefore
<1> HIDE DEF k
<1>5. /\ SubSeq(s, k + 1, Len(s)) \in Seq(Times)
      /\ Len(SubSeq(s, k + 1, Len(s))) = Len(s) - k
      /\ \A i \in 1..(Len(s) - k) : SubSeq(s, k + 1, Len(s))[i] = s[k + i]
  <2> HIDE DEF Cut
  <2>1. \A i \in (k + 1)..Len(s) : s[i] \in Times
    BY <1>1, <1>3
  <2>2. k + 1 \in Int /\ Len(s) \in Int
    BY <1>1, <1>3
  <2>3. /\ SubSeq(s, k + 1, Len(s)) \in Seq(Times)
        /\ Len(SubSeq(s, k + 1, Len(s))) = IF k + 1 <= Len(s) THEN Len(s) - (k + 1) + 1 ELSE 0
        /\ \A i \in 1..(Len(s) - (k + 1) + 1) : SubSeq(s, k + 1, Len(s))[i] = s[(k + 1) + i - 1]
    BY <2>1, <2>2, SubSeqProperties
  <2>4. Len(s) - (k + 1) + 1 = Len(s) - k
    BY <1>1, <1>3
  <2>5. \A i \in 1..(Len(s) - k) : (k + 1) + i - 1 = k + i
    BY <1>1, <1>3
  <2>6. (IF k + 1 <= Len(s) THEN Len(s) - (k + 1) + 1 ELSE 0) = Len(s) - k
    BY <1>1, <1>3
  <2>7. \A i \in 1..(Len(s) - k) : SubSeq(s, k + 1, Len(s))[i] = s[k + i]
    <3> TAKE i \in 1..(Len(s) - k)
    <3>1. i \in 1..(Len(s) - (k + 1) + 1)
      BY ONLY <2>4, i \in 1..(Len(s) - k)
    <3>2. SubSeq(s, k + 1, Len(s))[i] = s[(k + 1) + i - 1]
      BY ONLY <2>3, <3>1
    <3>3. (k + 1) + i - 1 = k + i
      BY ONLY <2>5, i \in 1..(Len(s) - k)
    <3> QED
      BY ONLY <3>2, <3>3
  <2>8. Len(SubSeq(s, k + 1, Len(s))) = Len(s) - k
    BY ONLY <2>3, <2>6
  <2> QED
    BY <2>3, <2>7, <2>8, Zenon
<1> QED
  BY <1>3, <1>4, <1>5

Ordered(s) == \A i, j \in 1..Len(s) : i <= j => s[i] <= s[j]

LEMMA PositionsFinite ==
    ASSUME NEW s \in Seq(Times), NEW t \in Times
    PROVE  /\ IsFiniteSet({i \in DOMAIN s : s[i] = t})
           /\ Count(s, t) = Cardinality({i \in 1..Len(s) : s[i] = t}) /\ Count(s, t) \in Nat
<1>1. DOMAIN s = 1..Len(s) /\ Len(s) \in Nat
  OBVIOUS
<1>2. IsFiniteSet(1..Len(s))
  BY <1>1, FS_Interval
<1>3. {i \in DOMAIN s : s[i] = t} \in SUBSET (1..Len(s))
  BY <1>1
<1>4. IsFiniteSet({i \in DOMAIN s : s[i] = t})
  BY <1>2, <1>3, FS_Subset
<1> QED
  BY <1>1, <1>4, FS_CardinalityType DEF Count

\* Shifting positions does not change how many there are.
LEMMA ShiftCounts ==
    ASSUME NEW n \in Nat, NEW S \in SUBSET (1..n), NEW k \in Nat
    PROVE  Cardinality({i + k : i \in S}) = Cardinality(S)
<1> DEFINE T == {i + k : i \in S}
           f == [i \in S |-> i + k]
<1>1. IsFiniteSet(S)
  <2>1. IsFiniteSet(1..n)
    BY FS_Interval
  <2> QED
    BY <2>1, FS_Subset
<1>2. f \in Bijection(S, T)
  BY DEF Bijection, Injection, Surjection, IsInjective
<1>3. ExistsBijection(S, T)
  BY <1>2 DEF ExistsBijection
<1> QED
  BY <1>1, <1>3, FS_Bijection

\* Of a list in the order of its times, pruneBefore keeps what is after the
\* cutoff, as often as it was there.
LEMMA PruneCounts ==
    ASSUME NEW s \in Seq(Times), Ordered(s), NEW cutoff \in Int, NEW t \in Times
    PROVE  Count(PruneBefore(s, cutoff), t) = IF t > cutoff THEN Count(s, t) ELSE 0
<1> DEFINE p == PruneBefore(s, cutoff)
<1>1. PICK k \in 0..Len(s) :
          /\ p \in Seq(Times)
          /\ Len(p) = Len(s) - k
          /\ \A i \in 1..(Len(s) - k) : p[i] = s[k + i]
          /\ \A i \in 1..k : s[i] <= cutoff
          /\ k < Len(s) => s[k + 1] > cutoff
  BY PruneIs
<1> HIDE DEF p
<1>2. Len(s) \in Nat /\ (\A i \in 1..Len(s) : s[i] \in Int) /\ t \in Int
  BY TimesOf
<1> DEFINE P == {i \in 1..Len(p) : p[i] = t}
           S == {i \in 1..Len(s) : s[i] = t}
<1>3. Count(p, t) = Cardinality(P) /\ Count(s, t) = Cardinality(S)
  BY <1>1, PositionsFinite
<1>4. CASE t > cutoff
  <2>1. ASSUME NEW j \in S PROVE j - k \in P
    <3>1. j > k
      BY <1>1, <1>2, <1>4
    <3> QED
      BY <1>1, <1>2, <3>1
  <2>2. S = {i + k : i \in P}
    <3>1. ASSUME NEW i \in P PROVE i + k \in S
      BY <1>1, <1>2
    <3>2. ASSUME NEW j \in S PROVE \E i \in P : j = i + k
      <4>1. j = (j - k) + k
        BY <1>1, <1>2
      <4> QED
        BY <2>1, <4>1
    <3> HIDE DEF P, S
    <3> QED
      BY <3>1, <3>2
  <2>3. P \in SUBSET (1..Len(p)) /\ Len(p) \in Nat /\ k \in Nat
    BY <1>1, <1>2
  <2> HIDE DEF P, S
  <2>4. Cardinality({i + k : i \in P}) = Cardinality(P)
    BY <2>3, ShiftCounts
  <2> QED
    BY <1>3, <1>4, <2>2, <2>4 DEF p
<1>5. CASE ~(t > cutoff)
  <2>1. ASSUME NEW i \in P PROVE FALSE
    <3>1. k < Len(s) /\ k + 1 \in 1..Len(s) /\ k + i \in 1..Len(s) /\ k + 1 <= k + i
      BY <1>1, <1>2
    <3>2. s[k + 1] <= s[k + i]
      BY <3>1 DEF Ordered
    <3> QED
      BY <1>1, <1>2, <1>5, <3>1, <3>2
  <2>2. P = {}
    BY <2>1
  <2> QED
    BY <1>3, <1>5, <2>2, FS_EmptySet DEF p
<1> QED
  BY <1>4, <1>5

LEMMA AppendCounts ==
    ASSUME NEW s \in Seq(Times), NEW n \in Times, NEW t \in Times
    PROVE  Count(Append(s, n), t) = IF t = n THEN Count(s, t) + 1 ELSE Count(s, t)
<1> DEFINE a == Append(s, n)
           S == {i \in 1..Len(s) : s[i] = t}
           A == {i \in 1..Len(a) : a[i] = t}
<1>1. /\ a \in Seq(Times) /\ Len(a) = Len(s) + 1 /\ Len(s) \in Nat
      /\ (\A i \in 1..Len(s) : a[i] = s[i]) /\ a[Len(s) + 1] = n
  BY AppendProperties
<1>2. Count(a, t) = Cardinality(A) /\ Count(s, t) = Cardinality(S) /\ IsFiniteSet(S)
  <2>1. DOMAIN s = 1..Len(s)
    OBVIOUS
  <2> QED
    BY <1>1, <2>1, PositionsFinite
<1> HIDE DEF a
<1>3. Len(s) + 1 \notin S
  BY <1>1
<1>4. CASE t = n
  <2>1. A = S \cup {Len(s) + 1}
    BY <1>1, <1>4
  <2> HIDE DEF A, S
  <2>2. Cardinality(S \cup {Len(s) + 1}) = Cardinality(S) + 1
    BY <1>2, <1>3, FS_AddElement
  <2> QED
    BY <1>2, <1>4, <2>1, <2>2 DEF a
<1>5. CASE t # n
  <2>1. A = S
    BY <1>1, <1>5
  <2> QED
    BY <1>2, <1>5, <2>1 DEF a
<1> QED
  BY <1>4, <1>5
-----------------------------------------------------------------------------
(***************************************************************************)
(* The limiter.  What it keeps is in the order of its times and none is    *)
(* ahead of the clock, so that what pruneBefore leaves is what is inside   *)
(* the window; the failures counted for an address and the handlers that   *)
(* may still add to them, its Load, stay within the limit of               *)
(* OverrunIsBounded; and for every time an address came back in vain there *)
(* is room again for one failure more, or the oldest one it was told of is *)
(* gone and there will be: nothing is added to a Load until the address is *)
(* let through.                                                            *)
(***************************************************************************)
Kept(s) == Ordered(s) /\ \A i \in 1..Len(s) : s[i] <= now
KeptInv == Kept(global) /\ \A ip \in IPs : Kept(perIP[ip])

ExactInv ==
    \A t \in Times :
       IF t > now - Window
         THEN /\ Count(global, t) = recent.all[t]
              /\ \A ip \in IPs : Count(perIP[ip], t) = recent.since[ip][t]
         ELSE recent.all[t] = 0 /\ \A ip \in IPs : recent.since[ip][t] = 0

Running(ip) == {a \in Attempts : attempt[a] = ip}
AllRunning  == {a \in Attempts : attempt[a] # None}

RoomInv ==
    /\ \A ip \in IPs : Len(perIP[ip]) + Cardinality(Running(ip)) < PerIPLimit + Cardinality(Attempts)
    /\ Len(global) + Cardinality(AllRunning) < GlobalLimit + Cardinality(Attempts)

\* The failures an address has or may yet come to have, and what bounds them.
Load(ip) == Len(perIP[ip]) + Cardinality(Running(ip))
Room     == PerIPLimit + Cardinality(Attempts)

\* The oldest failure of the address is not the one that was to age out at t.
Younger(ip, t) == perIP[ip] = <<>> \/ perIP[ip][1] + Window > t

\* For each time an address has come back in vain its load has shrunk by one, and
\* by one more once the failure it is now to wait for has aged out.
ToldKept(ip) ==
    told[ip] # None =>
       /\ told[ip].again < Cardinality(Attempts)
       /\ Load(ip) + told[ip].again < Room
       /\ Younger(ip, told[ip].at) => Load(ip) + told[ip].again + 1 < Room
ToldInv == \A ip \in IPs : ToldKept(ip)

LimiterInv == LimiterTypeOK /\ KeptInv /\ ExactInv /\ RoomInv /\ ToldInv

LEMMA LimiterNumbers ==
    /\ PerIPLimit \in Nat \ {0} /\ GlobalLimit \in Nat \ {0} /\ Window \in Nat \ {0}
    /\ None \notin IPs /\ None \notin Nat /\ None \notin Promise
    /\ IsFiniteSet(Attempts) /\ Cardinality(Attempts) \in Nat
    /\ LimiterTypeOK => now \in Int /\ now - Window \in Int /\ now \in Times
<1>1. /\ PerIPLimit \in Nat \ {0} /\ GlobalLimit \in Nat \ {0} /\ Window \in Nat \ {0}
      /\ None \notin IPs /\ None \notin Nat /\ None \notin Promise /\ IsFiniteSet(Attempts)
  BY LimiterAssumption, GateAssumption
<1>2. LimiterTypeOK => now \in Int /\ now - Window \in Int /\ now \in Times
  BY <1>1, TimesOf DEF LimiterTypeOK
<1> QED
  BY <1>1, <1>2, FS_CardinalityType

LEMMA RunningFinite ==
    /\ \A ip \in IPs : /\ IsFiniteSet(Running(ip)) /\ Cardinality(Running(ip)) \in Nat
                       /\ Cardinality(Running(ip)) <= Cardinality(Attempts)
    /\ IsFiniteSet(AllRunning) /\ Cardinality(AllRunning) \in Nat
    /\ Cardinality(AllRunning) <= Cardinality(Attempts)
<1>1. \A S \in SUBSET Attempts : /\ IsFiniteSet(S) /\ Cardinality(S) \in Nat
                                 /\ Cardinality(S) <= Cardinality(Attempts)
  BY LimiterNumbers, FS_Subset, FS_CardinalityType
<1>2. (\A ip \in IPs : Running(ip) \in SUBSET Attempts) /\ AllRunning \in SUBSET Attempts
  BY DEF Running, AllRunning
<1> QED
  BY <1>1, <1>2

\* What looking at the limiter leaves of a list.
LEMMA PrunedIs ==
    LimiterTypeOK =>
      \A s \in Seq(Times) :
         /\ Pruned(s) \in Seq(Times) /\ Len(Pruned(s)) <= Len(s)
         /\ Len(Pruned(s)) = Len(s) /\ s # <<>> => Pruned(s)[1] = s[1] /\ s[1] > now - Window
         /\ Kept(s) => /\ Kept(Pruned(s))
                       /\ \A t \in Times : Count(Pruned(s), t) =
                                              IF t > now - Window THEN Count(s, t) ELSE 0
<1> SUFFICES ASSUME LimiterTypeOK, NEW s \in Seq(Times)
             PROVE  /\ Pruned(s) \in Seq(Times) /\ Len(Pruned(s)) <= Len(s)
                    /\ Len(Pruned(s)) = Len(s) /\ s # <<>>
                         => Pruned(s)[1] = s[1] /\ s[1] > now - Window
                    /\ Kept(s) => /\ Kept(Pruned(s))
                                  /\ \A t \in Times : Count(Pruned(s), t) =
                                       IF t > now - Window THEN Count(s, t) ELSE 0
  OBVIOUS
<1> DEFINE p == Pruned(s)
<1>1. now - Window \in Int /\ now \in Int
  BY LimiterNumbers
<1>2. PICK k \in 0..Len(s) :
          /\ p \in Seq(Times)
          /\ Len(p) = Len(s) - k
          /\ \A i \in 1..(Len(s) - k) : p[i] = s[k + i]
          /\ \A i \in 1..k : s[i] <= now - Window
          /\ k < Len(s) => s[k + 1] > now - Window
  BY <1>1, PruneIs DEF Pruned
<1>3. Kept(s) => \A t \in Times : Count(p, t) = IF t > now - Window THEN Count(s, t) ELSE 0
  BY <1>1, PruneCounts DEF Pruned, Kept
<1> HIDE DEF p
<1>4. Len(s) \in Nat /\ (\A i \in 1..Len(s) : s[i] \in Int)
  BY TimesOf
<1>5. Kept(s) => Kept(p)
  <2> SUFFICES ASSUME Kept(s) PROVE Kept(p)
    OBVIOUS
  <2>1. \A i \in 1..Len(p) : k + i \in 1..Len(s) /\ p[i] = s[k + i]
    BY <1>2, <1>4
  <2>2. \A i \in 1..Len(p) : p[i] <= now
    BY <2>1 DEF Kept
  <2>3. \A i, j \in 1..Len(p) : i <= j => k + i <= k + j
    BY <1>2, <1>4
  <2>4. \A i, j \in 1..Len(p) : i <= j => p[i] <= p[j]
    BY <2>1, <2>3 DEF Kept, Ordered
  <2> QED
    BY <2>2, <2>4 DEF Kept, Ordered
<1>6. Len(p) = Len(s) /\ s # <<>> => p[1] = s[1] /\ s[1] > now - Window
  <2> SUFFICES ASSUME Len(p) = Len(s), s # <<>> PROVE p[1] = s[1] /\ s[1] > now - Window
    OBVIOUS
  <2>1. Len(s) > 0 /\ k = 0
    BY <1>2, <1>4
  <2> QED
    BY <1>2, <1>4, <2>1
<1> QED
  BY <1>2, <1>3, <1>4, <1>5, <1>6 DEF p

LEMMA AppendIs ==
    \A s \in Seq(Times) : \A n \in Times :
       /\ Append(s, n) \in Seq(Times) /\ Len(Append(s, n)) = Len(s) + 1
       /\ Kept(s) /\ n = now => Kept(Append(s, n))
       /\ \A t \in Times : Count(Append(s, n), t) = IF t = n THEN Count(s, t) + 1 ELSE Count(s, t)
<1> SUFFICES ASSUME NEW s \in Seq(Times), NEW n \in Times
             PROVE  /\ Append(s, n) \in Seq(Times) /\ Len(Append(s, n)) = Len(s) + 1
                    /\ Kept(s) /\ n = now => Kept(Append(s, n))
                    /\ \A t \in Times : Count(Append(s, n), t) =
                                           IF t = n THEN Count(s, t) + 1 ELSE Count(s, t)
  OBVIOUS
<1> DEFINE a == Append(s, n)
<1>1. /\ a \in Seq(Times) /\ Len(a) = Len(s) + 1 /\ Len(s) \in Nat
      /\ (\A i \in 1..Len(s) : a[i] = s[i]) /\ a[Len(s) + 1] = n
  BY AppendProperties
<1>2. \A t \in Times : Count(a, t) = IF t = n THEN Count(s, t) + 1 ELSE Count(s, t)
  BY AppendCounts
<1> HIDE DEF a
<1>3. n \in Int
  BY TimesOf
<1>4. Kept(s) /\ n = now => Kept(a)
  BY <1>1, <1>3 DEF Kept, Ordered
<1> QED
  BY <1>1, <1>2, <1>4 DEF a
LEMMA LimiterStarts == LimiterInit => LimiterInv
<1> SUFFICES ASSUME LimiterInit PROVE LimiterInv
  OBVIOUS
<1>1. <<>> \in Seq(Times) /\ Len(<<>>) = 0 /\ \A t \in Times : Count(<<>>, t) = 0
  BY FS_EmptySet DEF Count
<1>2. 0 \in Times /\ NoFailures \in [Times -> Nat]
  BY LimiterAssumption DEF Times, NoFailures
<1>3. LimiterTypeOK
  BY <1>1, <1>2 DEF LimiterInit, LimiterTypeOK
<1>4. KeptInv
  BY <1>1 DEF LimiterInit, KeptInv, Kept, Ordered
<1>5. ExactInv
  BY <1>1 DEF LimiterInit, ExactInv, NoFailures
<1>6. RoomInv
  <2>1. AllRunning = {} /\ \A ip \in IPs : Running(ip) = {}
    BY LimiterNumbers DEF LimiterInit, AllRunning, Running
  <2>2. Cardinality(AllRunning) = 0 /\ \A ip \in IPs : Cardinality(Running(ip)) = 0
    BY <2>1, FS_EmptySet
  <2>3. Len(global) = 0 /\ \A ip \in IPs : Len(perIP[ip]) = 0
    BY <1>1 DEF LimiterInit
  <2>4. 0 + 0 < PerIPLimit + Cardinality(Attempts) /\ 0 + 0 < GlobalLimit + Cardinality(Attempts)
    BY LimiterNumbers
  <2> QED
    BY <2>2, <2>3, <2>4 DEF RoomInv
<1>7. ToldInv
  BY DEF LimiterInit, ToldInv, ToldKept
<1> QED
  BY <1>3, <1>4, <1>5, <1>6, <1>7 DEF LimiterInv

LEMMA LimiterRestarts == LimiterInv /\ LimiterForgets => LimiterInv'
<1> SUFFICES ASSUME LimiterInv, LimiterForgets PROVE LimiterInv'
  OBVIOUS
<1>1. <<>> \in Seq(Times) /\ Len(<<>>) = 0 /\ \A t \in Times : Count(<<>>, t) = 0
  BY FS_EmptySet DEF Count
<1>2. NoFailures \in [Times -> Nat] /\ now \in Times
  BY DEF NoFailures, LimiterInv, LimiterTypeOK
<1>3. LimiterTypeOK'
  BY <1>1, <1>2 DEF LimiterForgets, LimiterTypeOK
<1>4. KeptInv'
  BY <1>1 DEF LimiterForgets, KeptInv, Kept, Ordered
<1>5. ExactInv'
  BY <1>1 DEF LimiterForgets, ExactInv, NoFailures
<1>6. RoomInv'
  <2>1. AllRunning' = {} /\ \A ip \in IPs : Running(ip)' = {}
    BY LimiterNumbers DEF LimiterForgets, AllRunning, Running
  <2>2. Cardinality(AllRunning') = 0 /\ \A ip \in IPs : Cardinality(Running(ip)') = 0
    BY <2>1, FS_EmptySet
  <2>3. Len(global') = 0 /\ \A ip \in IPs : Len(perIP'[ip]) = 0
    BY <1>1 DEF LimiterForgets
  <2>4. 0 + 0 < PerIPLimit + Cardinality(Attempts) /\ 0 + 0 < GlobalLimit + Cardinality(Attempts)
    BY LimiterNumbers
  <2> QED
    BY <2>2, <2>3, <2>4 DEF RoomInv
<1>7. ToldInv'
  BY DEF LimiterForgets, ToldInv, ToldKept
<1> QED
  BY <1>3, <1>4, <1>5, <1>6, <1>7 DEF LimiterInv

\* Pruning every list leaves them exact and in order.
LEMMA PruneKeeps ==
    LimiterInv /\ Prune /\ UNCHANGED <<now, recent>>
      => /\ perIP' \in [IPs -> Seq(Times)] /\ global' \in Seq(Times)
         /\ KeptInv' /\ ExactInv'
         /\ Len(global') <= Len(global) /\ Len(global') \in Nat /\ Len(global) \in Nat
         /\ \A ip \in IPs : /\ Len(perIP'[ip]) <= Len(perIP[ip])
                            /\ Len(perIP'[ip]) \in Nat /\ Len(perIP[ip]) \in Nat
                            /\ Len(perIP'[ip]) = Len(perIP[ip]) /\ perIP[ip] # <<>>
                                 => perIP'[ip][1] = perIP[ip][1]
<1> SUFFICES ASSUME LimiterInv, Prune, UNCHANGED <<now, recent>>
             PROVE  /\ perIP' \in [IPs -> Seq(Times)] /\ global' \in Seq(Times)
                    /\ KeptInv' /\ ExactInv'
                    /\ Len(global') <= Len(global) /\ Len(global') \in Nat /\ Len(global) \in Nat
                    /\ \A ip \in IPs : /\ Len(perIP'[ip]) <= Len(perIP[ip])
                                       /\ Len(perIP'[ip]) \in Nat /\ Len(perIP[ip]) \in Nat
                                       /\ Len(perIP'[ip]) = Len(perIP[ip]) /\ perIP[ip] # <<>>
                                            => perIP'[ip][1] = perIP[ip][1]
  OBVIOUS
<1>1. LimiterTypeOK /\ global \in Seq(Times) /\ \A ip \in IPs : perIP[ip] \in Seq(Times)
  BY DEF LimiterInv, LimiterTypeOK
<1>2. global' = Pruned(global) /\ \A ip \in IPs : perIP'[ip] = Pruned(perIP[ip])
  BY DEF Prune
<1>3. perIP' \in [IPs -> Seq(Times)] /\ global' \in Seq(Times)
  BY <1>1, PrunedIs DEF Prune
<1>4. /\ Kept(global) => /\ Kept(global')
                         /\ \A t \in Times : Count(global', t) = IF t > now - Window THEN Count(global, t) ELSE 0
      /\ Len(global') <= Len(global)
  BY <1>1, <1>2, PrunedIs
<1>5. \A ip \in IPs :
        /\ Kept(perIP[ip]) =>
              /\ Kept(perIP'[ip])
              /\ \A t \in Times : Count(perIP'[ip], t) = IF t > now - Window THEN Count(perIP[ip], t) ELSE 0
        /\ Len(perIP'[ip]) <= Len(perIP[ip])
        /\ Len(perIP'[ip]) = Len(perIP[ip]) /\ perIP[ip] # <<>> => perIP'[ip][1] = perIP[ip][1]
  BY <1>1, <1>2, PrunedIs
<1>6. KeptInv'
  BY <1>4, <1>5 DEF LimiterInv, KeptInv, Kept
<1>7. ExactInv'
  BY <1>4, <1>5 DEF LimiterInv, KeptInv, ExactInv
<1>8. Len(global') \in Nat /\ Len(global) \in Nat
      /\ \A ip \in IPs : Len(perIP'[ip]) \in Nat /\ Len(perIP[ip]) \in Nat
  BY <1>1, <1>3
<1> QED
  BY <1>3, <1>4, <1>5, <1>6, <1>7, <1>8

LEMMA LoadType ==
    LimiterTypeOK => \A ip \in IPs : Load(ip) \in Nat /\ Len(perIP[ip]) \in Nat
                                    /\ Cardinality(Running(ip)) \in Nat
<1> SUFFICES ASSUME LimiterTypeOK, NEW ip \in IPs
             PROVE  Load(ip) \in Nat /\ Len(perIP[ip]) \in Nat /\ Cardinality(Running(ip)) \in Nat
  OBVIOUS
<1>1. perIP[ip] \in Seq(Times)
  BY DEF LimiterTypeOK
<1> QED
  BY <1>1, RunningFinite DEF Load

\* What an address was told stays kept when its load does not grow, and its
\* oldest failure stays the oldest if the load stays what it is.
LEMMA ToldStays ==
    \A ip \in IPs :
      /\ LimiterInv /\ told'[ip] = told[ip]
      /\ Load(ip)' \in Nat /\ Load(ip)' <= Load(ip)
      /\ Load(ip)' = Load(ip)
           => perIP[ip] = <<>> \/ (perIP'[ip] # <<>> /\ perIP'[ip][1] = perIP[ip][1])
      => ToldKept(ip)'
<1> SUFFICES ASSUME NEW ip \in IPs, LimiterInv, told'[ip] = told[ip],
                    Load(ip)' \in Nat, Load(ip)' <= Load(ip),
                    Load(ip)' = Load(ip)
                      => perIP[ip] = <<>> \/ (perIP'[ip] # <<>> /\ perIP'[ip][1] = perIP[ip][1]),
                    told[ip] # None
             PROVE  /\ told[ip].again < Cardinality(Attempts)
                    /\ Load(ip)' + told[ip].again < Room
                    /\ Younger(ip, told[ip].at)' => Load(ip)' + told[ip].again + 1 < Room
  BY DEF ToldKept, Room
<1> DEFINE n == told[ip].again
           l == Load(ip)
           m == Load(ip)'
<1>1. n \in Nat /\ Room \in Nat /\ l \in Nat /\ m \in Nat
  BY LimiterNumbers, LoadType DEF LimiterInv, LimiterTypeOK, Promise, Room
<1>2. /\ n < Cardinality(Attempts) /\ l + n < Room
      /\ Younger(ip, told[ip].at) => l + n + 1 < Room
  BY DEF LimiterInv, ToldInv, ToldKept
<1>3. m = l /\ Younger(ip, told[ip].at)' => Younger(ip, told[ip].at)
  BY DEF Younger
<1>4. m < l => m + n + 1 < Room
  <2> HIDE DEF l, m, n
  <2> QED
    BY <1>1, <1>2
<1>5. m + n < Room /\ (Younger(ip, told[ip].at)' => m + n + 1 < Room)
  <2> HIDE DEF l, m, n
  <2>1. m <= l
    BY DEF l, m
  <2> QED
    BY <1>1, <1>2, <1>3, <1>4, <2>1
<1> QED
  BY <1>2, <1>5

\* So it does when no list is changed but by pruning, and no attempt begins or ends.
LEMMA ToldOutlastsPruning ==
    \A ip \in IPs :
      /\ LimiterInv /\ LimiterTypeOK' /\ told'[ip] = told[ip]
      /\ Running(ip)' = Running(ip)
      /\ Len(perIP'[ip]) <= Len(perIP[ip])
      /\ Len(perIP'[ip]) = Len(perIP[ip]) /\ perIP[ip] # <<>> => perIP'[ip][1] = perIP[ip][1]
      => ToldKept(ip)'
<1> SUFFICES ASSUME NEW ip \in IPs, LimiterInv, LimiterTypeOK', told'[ip] = told[ip],
                    Running(ip)' = Running(ip),
                    Len(perIP'[ip]) <= Len(perIP[ip]),
                    Len(perIP'[ip]) = Len(perIP[ip]) /\ perIP[ip] # <<>>
                      => perIP'[ip][1] = perIP[ip][1]
             PROVE  ToldKept(ip)'
  OBVIOUS
<1>1. perIP[ip] \in Seq(Times) /\ perIP'[ip] \in Seq(Times)
  BY DEF LimiterInv, LimiterTypeOK
<1> DEFINE c == Cardinality(Running(ip))
<1>2. /\ Load(ip) = Len(perIP[ip]) + c /\ Load(ip)' = Len(perIP'[ip]) + c
      /\ c \in Nat /\ Len(perIP[ip]) \in Nat /\ Len(perIP'[ip]) \in Nat
  BY <1>1, RunningFinite DEF Load
<1> HIDE DEF c
<1>3. Load(ip)' \in Nat /\ Load(ip)' <= Load(ip)
      /\ (Load(ip)' = Load(ip) => Len(perIP'[ip]) = Len(perIP[ip]))
  BY <1>2
<1>4. Len(perIP'[ip]) = Len(perIP[ip]) /\ perIP[ip] # <<>> => perIP'[ip] # <<>>
  BY <1>1
<1> QED
  BY <1>3, <1>4, ToldStays

LEMMA DenyKeeps ==
    \A a \in Attempts : \A ip \in IPs : LimiterInv /\ Deny(a, ip) => LimiterInv'
<1> SUFFICES ASSUME NEW a \in Attempts, NEW ip \in IPs, LimiterInv, Deny(a, ip)
             PROVE  LimiterInv'
  OBVIOUS
<1>1. Prune /\ UNCHANGED <<now, recent, attempt>>
  BY DEF Deny
<1>2. /\ perIP' \in [IPs -> Seq(Times)] /\ global' \in Seq(Times)
      /\ KeptInv' /\ ExactInv'
      /\ Len(global') <= Len(global) /\ Len(global') \in Nat /\ Len(global) \in Nat
      /\ \A i \in IPs : /\ Len(perIP'[i]) <= Len(perIP[i])
                        /\ Len(perIP'[i]) \in Nat /\ Len(perIP[i]) \in Nat
                        /\ Len(perIP'[i]) = Len(perIP[i]) /\ perIP[i] # <<>>
                             => perIP'[i][1] = perIP[i][1]
  BY <1>1, PruneKeeps
<1> DEFINE hits  == perIP'[ip]
           Again == [at |-> hits[1] + Window, again |-> InVain(told[ip])]
<1>3. /\ \A i \in IPs \ {ip} : told'[i] = told[i]
      /\ told'[ip] = IF Len(hits) >= PerIPLimit THEN Again ELSE told[ip]
      /\ told' = [i \in IPs |-> told'[i]]
  <2>1. hits = Pruned(perIP[ip])
    BY <1>1 DEF Prune
  <2>2. told' = IF Len(hits) >= PerIPLimit
                  THEN [told EXCEPT ![ip] = [at |-> RetryAt(ip), again |-> InVain(told[ip])]]
                  ELSE told
    BY <2>1 DEF Deny
  <2>3. Len(hits) >= PerIPLimit => RetryAt(ip) = hits[1] + Window
    BY <2>1, LimiterNumbers DEF RetryAt
  <2>4. told \in [IPs -> Promise \cup {None}]
    BY DEF LimiterInv, LimiterTypeOK
  <2> QED
    BY <2>2, <2>3, <2>4
<1>4. Len(hits) >= PerIPLimit => Again \in Promise /\ hits # <<>> /\ hits[1] \in Nat
  <2> SUFFICES ASSUME Len(hits) >= PerIPLimit
               PROVE  Again \in Promise /\ hits # <<>> /\ hits[1] \in Nat
    OBVIOUS
  <2>1. hits \in Seq(Times) /\ 1 \in 1..Len(hits)
    BY <1>2, LimiterNumbers
  <2>2. hits[1] \in Times /\ hits # <<>>
    BY <2>1
  <2>3. told[ip] \in Promise \cup {None}
    BY DEF LimiterInv, LimiterTypeOK
  <2>4. InVain(told[ip]) \in Nat
    BY <2>3 DEF InVain, Promise
  <2> QED
    BY <2>2, <2>4, LimiterNumbers DEF Times, Promise
<1>5. LimiterTypeOK'
  <2>1. \A i \in IPs : told'[i] \in Promise \cup {None}
    BY <1>3, <1>4 DEF LimiterInv, LimiterTypeOK
  <2>2. told' \in [IPs -> Promise \cup {None}]
    BY <1>3, <2>1
  <2> QED
    BY <1>1, <1>2, <2>2 DEF LimiterInv, LimiterTypeOK
<1>6. RoomInv'
  <2>1. AllRunning' = AllRunning /\ \A i \in IPs : Running(i)' = Running(i)
    BY <1>1 DEF AllRunning, Running
  <2>2. /\ \A i \in IPs : Len(perIP[i]) + Cardinality(Running(i)) < PerIPLimit + Cardinality(Attempts)
        /\ Len(global) + Cardinality(AllRunning) < GlobalLimit + Cardinality(Attempts)
    BY DEF LimiterInv, RoomInv
  <2>3. ASSUME NEW i \in IPs
        PROVE  Len(perIP'[i]) + Cardinality(Running(i)) < PerIPLimit + Cardinality(Attempts)
    <3>1. /\ Len(perIP'[i]) \in Nat /\ Len(perIP[i]) \in Nat /\ Len(perIP'[i]) <= Len(perIP[i])
          /\ Len(perIP[i]) + Cardinality(Running(i)) < PerIPLimit + Cardinality(Attempts)
      BY <1>2, <2>2
    <3>2. /\ Cardinality(Running(i)) \in Nat
          /\ PerIPLimit \in Nat /\ Cardinality(Attempts) \in Nat
      BY RunningFinite, LimiterNumbers
    <3> QED
      BY ONLY <3>1, <3>2
  <2>4. Len(global') + Cardinality(AllRunning) < GlobalLimit + Cardinality(Attempts)
    BY <1>2, <2>2, RunningFinite, LimiterNumbers
  <2> QED
    BY <2>1, <2>3, <2>4 DEF RoomInv
<1>7. \A i \in IPs : Running(i)' = Running(i)
  BY <1>1 DEF Running
<1>8. \A i \in IPs : told'[i] = told[i] => ToldKept(i)'
  BY <1>2, <1>5, <1>7, ToldOutlastsPruning
<1>9. ASSUME Len(hits) >= PerIPLimit PROVE ToldKept(ip)'
  <2> DEFINE n == InVain(told[ip])
             o == told[ip].again
             c == Cardinality(Running(ip))
             l == Len(perIP[ip])
             m == Len(hits)
  <2>1. told'[ip].again = n /\ ~Younger(ip, told[ip].at)'
    <3>1. told'[ip] = Again
      BY <1>3, <1>9
    <3>2. told'[ip].at = hits[1] + Window /\ hits # <<>> /\ hits[1] + Window \in Nat
      BY <1>4, <1>9, <3>1, LimiterNumbers
    <3>3. ~(hits[1] + Window > hits[1] + Window)
      BY <3>2
    <3> QED
      BY <3>1, <3>2, <3>3 DEF Younger
  <2>2. /\ Load(ip)' = m + c /\ Load(ip) = l + c
        /\ m \in Nat /\ c \in Nat /\ l \in Nat /\ m <= l /\ m >= PerIPLimit
    BY <1>2, <1>7, <1>9, RunningFinite DEF Load
  <2>3. m + c < Room /\ Room = PerIPLimit + Cardinality(Attempts)
        /\ PerIPLimit \in Nat /\ Cardinality(Attempts) \in Nat
    BY <1>6, <1>7, LimiterNumbers DEF RoomInv, Room
  <2>4. CASE n = 0
    <3> HIDE DEF n, c, m, l
    <3>1. n < Cardinality(Attempts) /\ m + c + n < Room
      BY <2>2, <2>3, <2>4
    <3> QED
      BY <2>1, <2>2, <3>1 DEF ToldKept, n, Room
  <2>5. CASE n # 0
    <3>1. told[ip] # None /\ told[ip] \in Promise
      BY <2>5 DEF InVain, LimiterInv, LimiterTypeOK
    <3>2. /\ l + c + o < Room
          /\ Younger(ip, told[ip].at) => l + c + o + 1 < Room
      BY <2>2, <3>1 DEF LimiterInv, ToldInv, ToldKept
    <3>3. n = (IF now >= told[ip].at THEN o + 1 ELSE o) /\ o \in Nat /\ told[ip].at \in Nat
      BY <3>1 DEF InVain, Promise
    <3>4. m = l /\ now >= told[ip].at => Younger(ip, told[ip].at)
      <4> SUFFICES ASSUME m = l, now >= told[ip].at, perIP[ip] # <<>>
                   PROVE  perIP[ip][1] + Window > told[ip].at
        BY DEF Younger
      <4>1. hits = Pruned(perIP[ip]) /\ LimiterTypeOK /\ perIP[ip] \in Seq(Times)
        BY <1>1 DEF Prune, LimiterInv, LimiterTypeOK
      <4>2. perIP[ip][1] > now - Window
        BY <4>1, PrunedIs
      <4>3. perIP[ip][1] \in Int /\ now \in Int /\ Window \in Int
        BY <4>1, LimiterNumbers, TimesOf, 1 \in 1..Len(perIP[ip])
      <4> DEFINE f == perIP[ip][1]
                 t == told[ip].at
      <4>4. f > now - Window /\ now >= t /\ f \in Int /\ now \in Int /\ Window \in Int
        BY <4>2, <4>3
      <4> HIDE DEF f, t
      <4>5. t \in Nat => f + Window > t
        BY <4>4
      <4> QED
        BY <3>3, <4>5 DEF f, t
    <3> HIDE DEF n, o, c, m, l
    <3>5. m + c + n < Room
      BY <2>2, <2>3, <3>2, <3>3, <3>4
    <3>6. n < Cardinality(Attempts)
      BY <2>2, <2>3, <3>3, <3>5
    <3> QED
      BY <2>1, <2>2, <3>5, <3>6 DEF ToldKept, n, Room
  <2> QED
    BY <2>4, <2>5
<1>10. ToldInv'
  BY <1>3, <1>8, <1>9 DEF ToldInv
<1> QED
  BY <1>2, <1>5, <1>6, <1>10 DEF LimiterInv

LEMMA AdmitKeeps ==
    \A a \in Attempts : \A ip \in IPs : LimiterInv /\ Admit(a, ip) => LimiterInv'
<1> SUFFICES ASSUME NEW a \in Attempts, NEW ip \in IPs, LimiterInv, Admit(a, ip)
             PROVE  LimiterInv'
  OBVIOUS
<1>1. Prune /\ UNCHANGED <<now, recent>> /\ attempt' = [attempt EXCEPT ![a] = ip]
      /\ told' = [told EXCEPT ![ip] = None] /\ told \in [IPs -> Promise \cup {None}]
      /\ attempt[a] = None /\ attempt \in [Attempts -> IPs \cup {None}]
  BY DEF Admit, LimiterInv, LimiterTypeOK
<1>2. /\ perIP' \in [IPs -> Seq(Times)] /\ global' \in Seq(Times)
      /\ KeptInv' /\ ExactInv'
      /\ Len(global') <= Len(global) /\ Len(global') \in Nat /\ Len(global) \in Nat
      /\ \A i \in IPs : /\ Len(perIP'[i]) <= Len(perIP[i])
                        /\ Len(perIP'[i]) \in Nat /\ Len(perIP[i]) \in Nat
                        /\ Len(perIP'[i]) = Len(perIP[i]) /\ perIP[i] # <<>>
                             => perIP'[i][1] = perIP[i][1]
  BY <1>1, PruneKeeps
<1>3. LimiterTypeOK'
  BY <1>1, <1>2 DEF LimiterInv, LimiterTypeOK
<1>4. RoomInv'
  <2>1. Len(perIP'[ip]) < PerIPLimit /\ Len(global') < GlobalLimit
    BY DEF Admit, Allowed, Prune
  <2>2. \A i \in IPs \ {ip} : Running(i)' = Running(i)
    BY <1>1, LimiterNumbers DEF Running
  <2>3. \A S \in SUBSET Attempts : Cardinality(S) \in Nat /\ Cardinality(S) <= Cardinality(Attempts)
    BY LimiterNumbers, FS_Subset, FS_CardinalityType
  <2>4. Running(ip)' \in SUBSET Attempts /\ AllRunning' \in SUBSET Attempts
    BY DEF Running, AllRunning
  <2>5. /\ Cardinality(Running(ip)') \in Nat /\ Cardinality(Running(ip)') <= Cardinality(Attempts)
        /\ Cardinality(AllRunning') \in Nat /\ Cardinality(AllRunning') <= Cardinality(Attempts)
    BY <2>3, <2>4
  <2>6. Len(perIP'[ip]) + Cardinality(Running(ip)') < PerIPLimit + Cardinality(Attempts)
    BY <1>2, <2>1, <2>5, LimiterNumbers
  <2>7. Len(global') + Cardinality(AllRunning') < GlobalLimit + Cardinality(Attempts)
    BY <1>2, <2>1, <2>5, LimiterNumbers
  <2>8. \A i \in IPs \ {ip} :
          Len(perIP'[i]) + Cardinality(Running(i)') < PerIPLimit + Cardinality(Attempts)
    <3> SUFFICES ASSUME NEW i \in IPs \ {ip}
                 PROVE  Len(perIP'[i]) + Cardinality(Running(i)') < PerIPLimit + Cardinality(Attempts)
      OBVIOUS
    <3>1. Len(perIP[i]) + Cardinality(Running(i)) < PerIPLimit + Cardinality(Attempts)
      BY DEF LimiterInv, RoomInv
    <3>2. Len(perIP'[i]) + Cardinality(Running(i)) < PerIPLimit + Cardinality(Attempts)
      BY <1>2, <3>1, RunningFinite, LimiterNumbers
    <3> QED
      BY <2>2, <3>2
  <2> QED
    BY <2>6, <2>7, <2>8 DEF RoomInv
<1>5. ToldInv'
  <2>1. told'[ip] = None /\ \A i \in IPs \ {ip} : told'[i] = told[i]
    BY <1>1
  <2>2. \A i \in IPs \ {ip} : Running(i)' = Running(i)
    BY <1>1, LimiterNumbers DEF Running
  <2>3. \A i \in IPs \ {ip} : ToldKept(i)'
    BY <1>2, <1>3, <2>1, <2>2, ToldOutlastsPruning
  <2>4. ToldKept(ip)'
    BY <2>1 DEF ToldKept
  <2> QED
    BY <2>3, <2>4 DEF ToldInv
<1> QED
  BY <1>2, <1>3, <1>4, <1>5 DEF LimiterInv
\* An attempt that ends leaves room for the failure it may add.
LEMMA EndingMakesRoom ==
    \A a \in Attempts :
      LimiterInv /\ attempt[a] # None /\ attempt' = [attempt EXCEPT ![a] = None]
      => /\ attempt[a] \in IPs /\ attempt' \in [Attempts -> IPs \cup {None}]
         /\ Cardinality(AllRunning') = Cardinality(AllRunning) - 1
         /\ \A i \in IPs : Cardinality(Running(i)') =
              IF i = attempt[a] THEN Cardinality(Running(i)) - 1 ELSE Cardinality(Running(i))
<1> SUFFICES ASSUME NEW a \in Attempts, LimiterInv, attempt[a] # None,
                    attempt' = [attempt EXCEPT ![a] = None]
             PROVE  /\ attempt[a] \in IPs /\ attempt' \in [Attempts -> IPs \cup {None}]
                    /\ Cardinality(AllRunning') = Cardinality(AllRunning) - 1
                    /\ \A i \in IPs : Cardinality(Running(i)') =
                         IF i = attempt[a] THEN Cardinality(Running(i)) - 1 ELSE Cardinality(Running(i))
  OBVIOUS
<1>1. attempt \in [Attempts -> IPs \cup {None}]
  BY DEF LimiterInv, LimiterTypeOK
<1>2. attempt[a] \in IPs /\ attempt' \in [Attempts -> IPs \cup {None}]
  BY <1>1
<1>3. \A ip \in IPs : {b \in Attempts : attempt'[b] = ip} =
                        IF ip = attempt[a] THEN Running(ip) \ {a} ELSE Running(ip)
  BY <1>1, LimiterNumbers DEF Running
<1>4. {b \in Attempts : attempt'[b] # None} = AllRunning \ {a}
  BY <1>1 DEF AllRunning
<1>5. a \in Running(attempt[a]) /\ a \in AllRunning
  BY DEF Running, AllRunning
<1>6. /\ Cardinality(Running(attempt[a]) \ {a}) = Cardinality(Running(attempt[a])) - 1
      /\ Cardinality(AllRunning \ {a}) = Cardinality(AllRunning) - 1
  BY <1>2, <1>5, RunningFinite, FS_RemoveElement
<1>7. Cardinality({b \in Attempts : attempt'[b] # None}) = Cardinality(AllRunning) - 1
  BY <1>4, <1>6
<1>8. \A i \in IPs : Cardinality({b \in Attempts : attempt'[b] = i}) =
                       IF i = attempt[a] THEN Cardinality(Running(i)) - 1 ELSE Cardinality(Running(i))
  BY <1>3, <1>6
<1>9. AllRunning' = {b \in Attempts : attempt'[b] # None}
      /\ \A i \in IPs : Running(i)' = {b \in Attempts : attempt'[b] = i}
  BY DEF Running, AllRunning
<1> QED
  BY <1>2, <1>7, <1>8, <1>9
LEMMA FailKeeps == \A a \in Attempts : LimiterInv /\ Fail(a) => LimiterInv'
<1> SUFFICES ASSUME NEW a \in Attempts, LimiterInv, Fail(a) PROVE LimiterInv'
  OBVIOUS
<1>1. LimiterTypeOK /\ KeptInv /\ ExactInv /\ RoomInv /\ ToldInv
  BY DEF LimiterInv
<1>2. now \in Times /\ now \in Int /\ now - Window \in Int /\ now > now - Window /\ now' = now
  BY <1>1, LimiterNumbers DEF Fail
<1>3. global \in Seq(Times) /\ \A i \in IPs : perIP[i] \in Seq(Times)
  BY <1>1 DEF LimiterTypeOK
<1>4. /\ attempt[a] \in IPs /\ attempt' \in [Attempts -> IPs \cup {None}]
      /\ Cardinality(AllRunning') = Cardinality(AllRunning) - 1
      /\ \A i \in IPs : Cardinality(Running(i)') =
           IF i = attempt[a] THEN Cardinality(Running(i)) - 1 ELSE Cardinality(Running(i))
  BY EndingMakesRoom DEF Fail
<1>5. PICK ip \in IPs : ip = attempt[a]
  BY <1>4
<1>6. /\ perIP' = [i \in IPs |-> IF i = ip THEN Append(Pruned(perIP[i]), now) ELSE Pruned(perIP[i])]
      /\ global' = Append(Pruned(global), now)
      /\ told' = told
      /\ recent' = [recent EXCEPT !.all[now] = @ + 1, !.since[ip][now] = @ + 1]
  BY <1>5 DEF Fail
<1>7. /\ recent' \in [all : [Times -> Nat], since : [IPs -> [Times -> Nat]]]
      /\ \A t \in Times : recent'.all[t] = IF t = now THEN recent.all[t] + 1 ELSE recent.all[t]
      /\ \A i \in IPs : \A t \in Times :
            recent'.since[i][t] = IF i = ip /\ t = now THEN recent.since[i][t] + 1 ELSE recent.since[i][t]
  <2>1. /\ recent \in [all : [Times -> Nat], since : [IPs -> [Times -> Nat]]]
        /\ recent.all \in [Times -> Nat] /\ recent.since \in [IPs -> [Times -> Nat]]
    BY <1>1 DEF LimiterTypeOK
  <2> DEFINE all   == [recent.all EXCEPT ![now] = recent.all[now] + 1]
             row   == [recent.since[ip] EXCEPT ![now] = recent.since[ip][now] + 1]
             since == [recent.since EXCEPT ![ip] = row]
  <2>2. /\ recent'.all = all /\ recent'.since = since
        /\ recent' = [recent EXCEPT !.all = all, !.since = since]
    BY <1>6, <2>1
  <2>3. /\ recent'.all \in [Times -> Nat] /\ recent'.since \in [IPs -> [Times -> Nat]]
    BY <1>2, <1>5, <2>1, <2>2
  <2>4. recent' \in [all : [Times -> Nat], since : [IPs -> [Times -> Nat]]]
    BY <2>1, <2>2, <2>3
  <2>5. \A t \in Times : recent'.all[t] = IF t = now THEN recent.all[t] + 1 ELSE recent.all[t]
    BY <1>2, <2>1, <2>2
  <2>6. \A i \in IPs : \A t \in Times :
            recent'.since[i][t] = IF i = ip /\ t = now THEN recent.since[i][t] + 1 ELSE recent.since[i][t]
    BY <1>2, <1>5, <2>1, <2>2
  <2> QED
    BY <2>4, <2>5, <2>6
<1>8. /\ global' \in Seq(Times) /\ Len(global') \in Nat /\ Len(global) \in Nat
      /\ Len(global') <= Len(global) + 1
      /\ Kept(global')
      /\ \A t \in Times : Count(global', t) =
           IF t = now THEN Count(global, t) + 1 ELSE IF t > now - Window THEN Count(global, t) ELSE 0
  <2> DEFINE p == Pruned(global)
  <2>1. /\ p \in Seq(Times) /\ Len(p) <= Len(global) /\ Kept(p)
        /\ \A t \in Times : Count(p, t) = IF t > now - Window THEN Count(global, t) ELSE 0
    BY <1>1, <1>3, PrunedIs DEF KeptInv
  <2>2. global' = Append(p, now)
    BY <1>6
  <2> HIDE DEF p
  <2>3. /\ global' \in Seq(Times) /\ Len(global') = Len(p) + 1 /\ Kept(global')
        /\ \A t \in Times : Count(global', t) = IF t = now THEN Count(p, t) + 1 ELSE Count(p, t)
    BY <1>2, <2>1, <2>2, AppendIs
  <2>4. Len(global') \in Nat /\ Len(global) \in Nat /\ Len(p) \in Nat
    BY <1>3, <2>1, <2>3
  <2> QED
    BY <1>2, <2>1, <2>3, <2>4
<1>9. /\ perIP'[ip] \in Seq(Times) /\ Len(perIP'[ip]) \in Nat /\ Len(perIP[ip]) \in Nat
      /\ Len(perIP'[ip]) <= Len(perIP[ip]) + 1
      /\ Kept(perIP'[ip])
      /\ \A t \in Times : Count(perIP'[ip], t) =
           IF t = now THEN Count(perIP[ip], t) + 1 ELSE IF t > now - Window THEN Count(perIP[ip], t) ELSE 0
  <2> DEFINE p == Pruned(perIP[ip])
  <2>1. /\ p \in Seq(Times) /\ Len(p) <= Len(perIP[ip]) /\ Kept(p)
        /\ \A t \in Times : Count(p, t) = IF t > now - Window THEN Count(perIP[ip], t) ELSE 0
    BY <1>1, <1>3, <1>5, PrunedIs DEF KeptInv
  <2>2. perIP'[ip] = Append(p, now)
    BY <1>6, <1>5
  <2> HIDE DEF p
  <2>3. /\ perIP'[ip] \in Seq(Times) /\ Len(perIP'[ip]) = Len(p) + 1 /\ Kept(perIP'[ip])
        /\ \A t \in Times : Count(perIP'[ip], t) = IF t = now THEN Count(p, t) + 1 ELSE Count(p, t)
    BY <1>2, <2>1, <2>2, AppendIs
  <2>4. Len(perIP'[ip]) \in Nat /\ Len(perIP[ip]) \in Nat /\ Len(p) \in Nat
    BY <1>3, <1>5, <2>1, <2>3
  <2> QED
    BY <1>2, <2>1, <2>3, <2>4
<1>10. \A i \in IPs \ {ip} :
          /\ perIP'[i] \in Seq(Times) /\ Len(perIP'[i]) \in Nat /\ Len(perIP[i]) \in Nat
          /\ Len(perIP'[i]) <= Len(perIP[i])
          /\ Len(perIP'[i]) = Len(perIP[i]) /\ perIP[i] # <<>> => perIP'[i][1] = perIP[i][1]
          /\ Kept(perIP'[i])
          /\ \A t \in Times : Count(perIP'[i], t) = IF t > now - Window THEN Count(perIP[i], t) ELSE 0
  <2> SUFFICES ASSUME NEW i \in IPs \ {ip}
               PROVE  /\ perIP'[i] \in Seq(Times) /\ Len(perIP'[i]) \in Nat /\ Len(perIP[i]) \in Nat
                      /\ Len(perIP'[i]) <= Len(perIP[i])
                      /\ Len(perIP'[i]) = Len(perIP[i]) /\ perIP[i] # <<>> => perIP'[i][1] = perIP[i][1]
                      /\ Kept(perIP'[i])
                      /\ \A t \in Times : Count(perIP'[i], t) =
                                             IF t > now - Window THEN Count(perIP[i], t) ELSE 0
    OBVIOUS
  <2>1. perIP'[i] = Pruned(perIP[i]) /\ perIP[i] \in Seq(Times) /\ Kept(perIP[i])
    BY <1>1, <1>3, <1>6 DEF KeptInv
  <2> QED
    BY <1>1, <2>1, PrunedIs
<1>11. LimiterTypeOK'
  <2>1. perIP' \in [IPs -> Seq(Times)]
    <3>1. \A i \in IPs : perIP'[i] \in Seq(Times)
      BY <1>9, <1>10
    <3>2. perIP' = [i \in IPs |-> perIP'[i]]
      BY <1>6
    <3> QED
      BY <3>1, <3>2
  <2>2. told' \in [IPs -> Promise \cup {None}]
    BY <1>1, <1>6 DEF LimiterTypeOK
  <2> QED
    BY <1>2, <1>4, <1>7, <1>8, <2>1, <2>2 DEF LimiterTypeOK
<1>12. KeptInv'
  <2>1. \A i \in IPs : Kept(perIP'[i])
    BY <1>9, <1>10
  <2> QED
    BY <1>2, <1>8, <2>1 DEF KeptInv, Kept
<1>13. ExactInv'
  <2> SUFFICES ASSUME NEW t \in Times
               PROVE  IF t > now - Window
                        THEN /\ Count(global', t) = recent'.all[t]
                             /\ \A i \in IPs : Count(perIP'[i], t) = recent'.since[i][t]
                        ELSE recent'.all[t] = 0 /\ \A i \in IPs : recent'.since[i][t] = 0
    BY <1>2 DEF ExactInv
  <2>1. IF t > now - Window
          THEN /\ Count(global, t) = recent.all[t]
               /\ \A i \in IPs : Count(perIP[i], t) = recent.since[i][t]
          ELSE recent.all[t] = 0 /\ \A i \in IPs : recent.since[i][t] = 0
    BY <1>1 DEF ExactInv
  <2>2. CASE t = now
    <3>1. Count(global', t) = recent'.all[t]
      BY <1>2, <1>7, <1>8, <2>1, <2>2
    <3>2. Count(perIP'[ip], t) = recent'.since[ip][t]
      BY <1>2, <1>5, <1>7, <1>9, <2>1, <2>2
    <3>3. \A i \in IPs \ {ip} : Count(perIP'[i], t) = recent'.since[i][t]
      BY <1>2, <1>7, <1>10, <2>1, <2>2
    <3> QED
      BY <1>2, <2>2, <3>1, <3>2, <3>3
  <2>3. CASE t # now
    <3>1. recent'.all[t] = recent.all[t] /\ \A i \in IPs : recent'.since[i][t] = recent.since[i][t]
      BY <1>7, <2>3
    <3>2. t > now - Window => /\ Count(global', t) = Count(global, t)
                              /\ \A i \in IPs : Count(perIP'[i], t) = Count(perIP[i], t)
      BY <1>8, <1>9, <1>10, <2>3
    <3> QED
      BY <2>1, <3>1, <3>2
  <2> QED
    BY <2>2, <2>3
<1>14. RoomInv'
  <2>1. /\ \A i \in IPs : Len(perIP[i]) + Cardinality(Running(i)) < PerIPLimit + Cardinality(Attempts)
        /\ Len(global) + Cardinality(AllRunning) < GlobalLimit + Cardinality(Attempts)
    BY <1>1 DEF RoomInv
  <2>2. Len(global') + (Cardinality(AllRunning) - 1) < GlobalLimit + Cardinality(Attempts)
    BY <1>8, <2>1, RunningFinite, LimiterNumbers
  <2>3. Len(perIP'[ip]) + (Cardinality(Running(ip)) - 1) < PerIPLimit + Cardinality(Attempts)
    <3> DEFINE l == Len(perIP'[ip])
               m == Len(perIP[ip])
               c == Cardinality(Running(ip))
    <3>1. l <= m + 1 /\ l \in Int /\ m \in Int /\ c \in Int
      BY <1>5, <1>9, RunningFinite
    <3>2. m + c < PerIPLimit + Cardinality(Attempts)
      BY <1>5, <2>1
    <3> HIDE DEF l, m, c
    <3>3. l + (c - 1) < PerIPLimit + Cardinality(Attempts)
      BY <3>1, <3>2, LimiterNumbers
    <3> QED
      BY <3>3 DEF l, c
  <2>4. ASSUME NEW i \in IPs \ {ip}
        PROVE  Len(perIP'[i]) + Cardinality(Running(i)) < PerIPLimit + Cardinality(Attempts)
    <3>1. /\ Len(perIP'[i]) <= Len(perIP[i]) /\ Len(perIP'[i]) \in Nat /\ Len(perIP[i]) \in Nat
          /\ Cardinality(Running(i)) \in Nat
      BY <1>10, RunningFinite
    <3> QED
      BY <2>1, <3>1, LimiterNumbers
  <2>5. \A i \in IPs : Len(perIP'[i]) + Cardinality(Running(i)') < PerIPLimit + Cardinality(Attempts)
    BY <1>4, <1>5, <2>3, <2>4
  <2>6. Len(global') + Cardinality(AllRunning') < GlobalLimit + Cardinality(Attempts)
    BY <1>4, <2>2
  <2> QED
    BY <2>5, <2>6 DEF RoomInv
<1>15. ToldInv'
  <2>1. \A i \in IPs \ {ip} : Running(i)' = Running(i)
    BY <1>1, <1>5, LimiterNumbers DEF Fail, Running, LimiterTypeOK
  <2>2. \A i \in IPs \ {ip} : ToldKept(i)'
    BY <1>6, <1>10, <1>11, <2>1, ToldOutlastsPruning
  <2>3. ToldKept(ip)'
    <3> DEFINE p == Pruned(perIP[ip])
               c == Cardinality(Running(ip))
    <3>1. /\ p \in Seq(Times) /\ perIP[ip] \in Seq(Times) /\ Len(p) <= Len(perIP[ip])
          /\ Len(p) = Len(perIP[ip]) /\ perIP[ip] # <<>> => p[1] = perIP[ip][1]
          /\ perIP'[ip] = Append(p, now)
      BY <1>1, <1>3, <1>6, PrunedIs
    <3> HIDE DEF p
    <3>2. /\ Len(perIP'[ip]) = Len(p) + 1 /\ Len(p) \in Nat /\ Len(perIP[ip]) \in Nat
          /\ perIP'[ip] # <<>>
          /\ Len(p) > 0 => perIP'[ip][1] = p[1]
      BY <1>2, <3>1, AppendProperties
    <3>3. /\ Load(ip)' = Len(p) + 1 + (c - 1) /\ Load(ip) = Len(perIP[ip]) + c
          /\ c \in Nat /\ c - 1 \in Nat
      <4>0. Running(ip)' \in SUBSET Attempts
        BY DEF Running
      <4>1. Cardinality(Running(ip)') \in Nat /\ Cardinality(Running(ip)') = c - 1
        BY <1>4, <1>5, <4>0, LimiterNumbers, FS_Subset, FS_CardinalityType
      <4> QED
        BY <3>2, <4>1, RunningFinite DEF Load
    <3> HIDE DEF c
    <3>4. /\ Load(ip)' \in Nat /\ Load(ip)' <= Load(ip)
          /\ Load(ip)' = Load(ip) => Len(p) = Len(perIP[ip])
      BY <3>1, <3>2, <3>3
    <3>5. Len(p) = Len(perIP[ip]) => perIP[ip] = <<>> \/ perIP'[ip][1] = perIP[ip][1]
      BY <3>1, <3>2
    <3> QED
      BY <1>6, <3>2, <3>4, <3>5, ToldStays
  <2> QED
    BY <2>2, <2>3 DEF ToldInv
<1> QED
  BY <1>11, <1>12, <1>13, <1>14, <1>15 DEF LimiterInv
\* When an attempt ends and no list has grown, there is still room, and what
\* addresses were told stays kept.
LEMMA RoomStays ==
    \A a \in Attempts :
      /\ LimiterInv /\ attempt[a] # None /\ attempt' = [attempt EXCEPT ![a] = None]
      /\ UNCHANGED <<global, told>>
      /\ \A i \in IPs : perIP'[i] = perIP[i] \/ (i = attempt[a] /\ perIP'[i] = <<>>)
      => RoomInv' /\ ToldInv'
<1> SUFFICES ASSUME NEW a \in Attempts, LimiterInv, attempt[a] # None,
                    attempt' = [attempt EXCEPT ![a] = None], UNCHANGED <<global, told>>,
                    \A i \in IPs : perIP'[i] = perIP[i] \/ (i = attempt[a] /\ perIP'[i] = <<>>)
             PROVE  RoomInv' /\ ToldInv'
  OBVIOUS
<1>1. /\ Cardinality(AllRunning') = Cardinality(AllRunning) - 1
      /\ \A i \in IPs : Cardinality(Running(i)') =
           IF i = attempt[a] THEN Cardinality(Running(i)) - 1 ELSE Cardinality(Running(i))
  BY EndingMakesRoom
<1>2. /\ \A i \in IPs : Len(perIP[i]) + Cardinality(Running(i)) < PerIPLimit + Cardinality(Attempts)
      /\ Len(global) + Cardinality(AllRunning) < GlobalLimit + Cardinality(Attempts)
  BY DEF LimiterInv, RoomInv
<1>3. global \in Seq(Times) /\ \A i \in IPs : perIP[i] \in Seq(Times)
  BY DEF LimiterInv, LimiterTypeOK
<1>4. Len(global') + Cardinality(AllRunning') < GlobalLimit + Cardinality(Attempts)
  <2> DEFINE m == Len(global)
             c == Cardinality(AllRunning)
  <2>1. m \in Int /\ c \in Int /\ m + c < GlobalLimit + Cardinality(Attempts)
    BY <1>2, <1>3, RunningFinite
  <2> HIDE DEF m, c
  <2>2. m + (c - 1) < GlobalLimit + Cardinality(Attempts)
    BY <2>1, LimiterNumbers
  <2> QED
    BY <1>1, <2>2 DEF m, c
<1>5. ASSUME NEW i \in IPs
      PROVE  Len(perIP'[i]) + Cardinality(Running(i)') < PerIPLimit + Cardinality(Attempts)
  <2> DEFINE l == Len(perIP'[i])
             m == Len(perIP[i])
             c == Cardinality(Running(i))
             d == Cardinality(Running(i)')
  <2>1. m \in Nat /\ c \in Nat /\ m + c < PerIPLimit + Cardinality(Attempts)
    BY <1>2, <1>3, RunningFinite
  <2>2. l = m \/ l = 0
    <3>1. perIP'[i] = <<>> => l = 0
      OBVIOUS
    <3> QED
      BY <3>1
  <2>3. d = c \/ d = c - 1
    BY <1>1
  <2> HIDE DEF l, m, c, d
  <2>4. l + d < PerIPLimit + Cardinality(Attempts)
    BY <2>1, <2>2, <2>3, LimiterNumbers
  <2> QED
    BY <2>4 DEF l, d
<1>6. ASSUME NEW i \in IPs PROVE ToldKept(i)'
  <2> DEFINE l == Len(perIP'[i])
             m == Len(perIP[i])
             c == Cardinality(Running(i))
             d == Cardinality(Running(i)')
  <2>1. m \in Nat /\ c \in Nat /\ Load(i) = m + c /\ Load(i)' = l + d
    BY <1>3, RunningFinite DEF Load
  <2>2. \/ l = m /\ d = c /\ perIP'[i] = perIP[i]
        \/ (l = m \/ l = 0) /\ d = c - 1 /\ d \in Nat
    <3>1. perIP'[i] = <<>> => l = 0
      OBVIOUS
    <3>2. i = attempt[a] => d \in Nat
      <4>1. attempt' \in [Attempts -> IPs \cup {None}] /\ Running(i)' \in SUBSET Attempts
        BY EndingMakesRoom DEF Running
      <4> QED
        BY <4>1, LimiterNumbers, FS_Subset, FS_CardinalityType
    <3> QED
      BY <1>1, <3>1, <3>2
  <2> HIDE DEF l, m, c, d
  <2>3. /\ Load(i)' \in Nat /\ Load(i)' <= Load(i)
        /\ Load(i)' = Load(i) => perIP'[i] = perIP[i]
    BY <2>1, <2>2
  <2> QED
    BY <2>3, ToldStays
<1> QED
  BY <1>4, <1>5, <1>6 DEF RoomInv, ToldInv

LEMMA SucceedKeeps == \A a \in Attempts : LimiterInv /\ Succeed(a) => LimiterInv'
<1> SUFFICES ASSUME NEW a \in Attempts, LimiterInv, Succeed(a) PROVE LimiterInv'
  OBVIOUS
<1>1. LimiterTypeOK /\ KeptInv /\ ExactInv /\ RoomInv /\ ToldInv
  BY DEF LimiterInv
<1>2. attempt[a] \in IPs /\ attempt' \in [Attempts -> IPs \cup {None}]
      /\ UNCHANGED <<now, global, told>>
  BY EndingMakesRoom DEF Succeed
<1>3. PICK ip \in IPs : ip = attempt[a]
  BY <1>2
<1>4. /\ perIP' = [perIP EXCEPT ![ip] = <<>>]
      /\ recent' = [recent EXCEPT !.since[ip] = NoFailures]
  BY <1>3 DEF Succeed
<1>5. /\ <<>> \in Seq(Times) /\ Kept(<<>>)' /\ (\A t \in Times : Count(<<>>, t) = 0)
      /\ NoFailures \in [Times -> Nat]
  BY FS_EmptySet DEF Kept, Ordered, Count, NoFailures
<1>6. /\ perIP' \in [IPs -> Seq(Times)]
      /\ \A i \in IPs : perIP'[i] = IF i = ip THEN <<>> ELSE perIP[i]
  BY <1>1, <1>4, <1>5 DEF LimiterTypeOK
<1>7. /\ recent' \in [all : [Times -> Nat], since : [IPs -> [Times -> Nat]]]
      /\ recent'.all = recent.all
      /\ \A i \in IPs : recent'.since[i] = IF i = ip THEN NoFailures ELSE recent.since[i]
  BY <1>1, <1>4, <1>5 DEF LimiterTypeOK
<1>9. LimiterTypeOK'
  BY <1>1, <1>2, <1>6, <1>7 DEF LimiterTypeOK
<1>10. KeptInv'
  BY <1>1, <1>2, <1>5, <1>6 DEF KeptInv, Kept
<1>11. ExactInv'
  <2> SUFFICES ASSUME NEW t \in Times
               PROVE  IF t > now - Window
                        THEN /\ Count(global, t) = recent'.all[t]
                             /\ \A i \in IPs : Count(perIP'[i], t) = recent'.since[i][t]
                        ELSE recent'.all[t] = 0 /\ \A i \in IPs : recent'.since[i][t] = 0
    BY <1>2 DEF ExactInv
  <2>1. Count(perIP'[ip], t) = 0 /\ recent'.since[ip][t] = 0
    BY <1>5, <1>6, <1>7 DEF NoFailures
  <2>2. \A i \in IPs \ {ip} : perIP'[i] = perIP[i] /\ recent'.since[i] = recent.since[i]
    BY <1>6, <1>7
  <2> QED
    BY <1>1, <1>7, <2>1, <2>2 DEF ExactInv
<1>12. RoomInv' /\ ToldInv'
  BY <1>2, <1>3, <1>6, RoomStays DEF Succeed
<1> QED
  BY <1>9, <1>10, <1>11, <1>12 DEF LimiterInv

LEMMA IssueFailsKeeps == \A a \in Attempts : LimiterInv /\ IssueFails(a) => LimiterInv'
<1> SUFFICES ASSUME NEW a \in Attempts, LimiterInv, IssueFails(a) PROVE LimiterInv'
  OBVIOUS
<1>1. LimiterTypeOK /\ KeptInv /\ ExactInv
  BY DEF LimiterInv
<1>2. UNCHANGED <<now, perIP, global, told, recent>> /\ attempt' \in [Attempts -> IPs \cup {None}]
  BY EndingMakesRoom DEF IssueFails
<1>3. RoomInv' /\ ToldInv'
  BY <1>2, RoomStays DEF IssueFails
<1> QED
  BY <1>1, <1>2, <1>3 DEF LimiterInv, LimiterTypeOK, KeptInv, Kept, ExactInv

LEMMA AdvanceKeeps == LimiterInv /\ Advance => LimiterInv'
<1> SUFFICES ASSUME LimiterInv, Advance PROVE LimiterInv'
  OBVIOUS
<1>1. LimiterTypeOK /\ KeptInv /\ ExactInv /\ RoomInv /\ ToldInv
  BY DEF LimiterInv
<1>2. /\ UNCHANGED <<perIP, global, attempt, told>> /\ now' = now + 1 /\ now' \in Times
      /\ now \in Int /\ Window \in Int
  BY <1>1, LimiterNumbers, LimiterAssumption DEF Advance, LimiterTypeOK, Times
<1>3. \A f \in [Times -> Nat] :
        /\ Aged(f) \in [Times -> Nat]
        /\ \A t \in Times : Aged(f)[t] = IF t <= now + 1 - Window THEN 0 ELSE f[t]
  BY DEF Aged
<1>4. /\ recent.all \in [Times -> Nat] /\ \A ip \in IPs : recent.since[ip] \in [Times -> Nat]
  BY <1>1 DEF LimiterTypeOK
<1>5. /\ recent'.all = Aged(recent.all)
      /\ \A ip \in IPs : recent'.since[ip] = Aged(recent.since[ip])
      /\ recent' \in [all : [Times -> Nat], since : [IPs -> [Times -> Nat]]]
  BY <1>3, <1>4 DEF Advance
<1>6. LimiterTypeOK'
  BY <1>1, <1>2, <1>5 DEF LimiterTypeOK
<1>7. KeptInv'
  <2>1. \A s \in Seq(Times) : Kept(s) => Kept(s)'
    <3> SUFFICES ASSUME NEW s \in Seq(Times), Kept(s) PROVE \A i \in 1..Len(s) : s[i] <= now + 1
      BY <1>2 DEF Kept
    <3>1. \A i \in 1..Len(s) : s[i] \in Int /\ s[i] <= now
      BY TimesOf DEF Kept
    <3> QED
      BY <1>2, <3>1
  <2>2. global \in Seq(Times) /\ \A ip \in IPs : perIP[ip] \in Seq(Times)
    BY <1>1 DEF LimiterTypeOK
  <2> QED
    BY <1>1, <1>2, <2>1, <2>2 DEF KeptInv, Kept
<1>8. ExactInv'
  <2> SUFFICES ASSUME NEW t \in Times
               PROVE  IF t > now' - Window
                        THEN /\ Count(global, t) = recent'.all[t]
                             /\ \A i \in IPs : Count(perIP[i], t) = recent'.since[i][t]
                        ELSE recent'.all[t] = 0 /\ \A i \in IPs : recent'.since[i][t] = 0
    BY <1>2 DEF ExactInv
  <2>1. t \in Int
    BY TimesOf
  <2>2. CASE t <= now + 1 - Window
    <3>1. recent'.all[t] = 0 /\ \A i \in IPs : recent'.since[i][t] = 0
      BY <1>3, <1>4, <1>5, <2>2
    <3>2. ~(t > now' - Window)
      BY <1>2, <2>1, <2>2
    <3> QED
      BY <3>1, <3>2
  <2>3. CASE ~(t <= now + 1 - Window)
    <3>1. recent'.all[t] = recent.all[t] /\ \A i \in IPs : recent'.since[i][t] = recent.since[i][t]
      BY <1>3, <1>4, <1>5, <2>3
    <3>2. t > now' - Window /\ t > now - Window
      BY <1>2, <2>1, <2>3
    <3> QED
      BY <1>1, <3>1, <3>2 DEF ExactInv
  <2> QED
    BY <2>2, <2>3
<1>9. RoomInv' /\ ToldInv'
  <2>1. AllRunning' = AllRunning /\ \A i \in IPs : Running(i)' = Running(i)
    BY <1>2 DEF AllRunning, Running
  <2> QED
    BY <1>1, <1>2, <2>1 DEF RoomInv, ToldInv, ToldKept, Load, Younger
<1> QED
  BY <1>6, <1>7, <1>8, <1>9 DEF LimiterInv

-----------------------------------------------------------------------------
(* What the limiter's invariant says of the properties. *)

LEMMA ExactFollows == LimiterInv => CountsAreExact
<1> SUFFICES ASSUME LimiterInv, NEW t \in Times
             PROVE  /\ \A ip \in IPs : Count(Pruned(perIP[ip]), t) = recent.since[ip][t]
                    /\ Count(Pruned(global), t) = recent.all[t]
  BY DEF CountsAreExact
<1>1. LimiterTypeOK /\ KeptInv /\ ExactInv
  BY DEF LimiterInv
<1>2. global \in Seq(Times) /\ \A ip \in IPs : perIP[ip] \in Seq(Times)
  BY <1>1 DEF LimiterTypeOK
<1>3. /\ Count(Pruned(global), t) = IF t > now - Window THEN Count(global, t) ELSE 0
      /\ \A ip \in IPs : Count(Pruned(perIP[ip]), t) = IF t > now - Window THEN Count(perIP[ip], t) ELSE 0
  BY <1>1, <1>2, PrunedIs DEF KeptInv
<1> QED
  BY <1>1, <1>3 DEF ExactInv

LEMMA RoomFollows == LimiterInv => OverrunIsBounded
<1> SUFFICES ASSUME LimiterInv PROVE OverrunIsBounded
  OBVIOUS
<1>1. LimiterTypeOK /\ RoomInv
  BY DEF LimiterInv
<1>2. global \in Seq(Times) /\ \A ip \in IPs : perIP[ip] \in Seq(Times)
  BY <1>1 DEF LimiterTypeOK
<1>3. ASSUME NEW ip \in IPs PROVE Len(Pruned(perIP[ip])) < PerIPLimit + Cardinality(Attempts)
  <2>1. /\ Len(Pruned(perIP[ip])) <= Len(perIP[ip]) /\ Len(Pruned(perIP[ip])) \in Nat
        /\ Len(perIP[ip]) \in Nat
    BY <1>1, <1>2, PrunedIs
  <2>2. Len(perIP[ip]) + Cardinality(Running(ip)) < PerIPLimit + Cardinality(Attempts)
    BY <1>1 DEF RoomInv
  <2> QED
    BY <2>1, <2>2, RunningFinite, LimiterNumbers
<1>4. Len(Pruned(global)) < GlobalLimit + Cardinality(Attempts)
  <2>1. Len(Pruned(global)) <= Len(global) /\ Len(Pruned(global)) \in Nat /\ Len(global) \in Nat
    BY <1>1, <1>2, PrunedIs
  <2>2. Len(global) + Cardinality(AllRunning) < GlobalLimit + Cardinality(Attempts)
    BY <1>1 DEF RoomInv
  <2> QED
    BY <2>1, <2>2, RunningFinite, LimiterNumbers
<1> QED
  BY <1>3, <1>4 DEF OverrunIsBounded

LEMMA ToldFollows == LimiterInv => WaitingAsToldWorks
BY DEF LimiterInv, ToldInv, ToldKept, WaitingAsToldWorks
-----------------------------------------------------------------------------
(***************************************************************************)
(* The gate.  A browser that has been told to log in has no cookie, so a   *)
(* request it sends has none; an answer sets a cookie only if it is a      *)
(* login's, and clears it if it sends the browser to log in; a request     *)
(* that carries a token has that of the page it is sent from; a handler    *)
(* that compares a password has a login to answer; and a session expires   *)
(* at the second that is TTL after its login by the clock of that time.    *)
(***************************************************************************)
GateTypeOK ==
    /\ situation \in Situations /\ setBack \in 0..MaxStepBacks
    /\ secret \in 0..MaxRestarts /\ restarts \in 0..MaxRestarts
    /\ issued \in Seq(Session) /\ Len(issued) <= MaxLogins
    /\ jar \in DOMAIN issued \cup {None}
    /\ page \in [Tabs -> DOMAIN issued \cup {None}]
    /\ req \in [Tabs -> Request \cup {None}]
    /\ signedOut \in BOOLEAN

FromPages == {"read", "change", "logout"}

Fits(r, p) ==
    /\ r.cookie \in DOMAIN issued \cup {None}
    /\ r.sets \in DOMAIN issued \cup {KeepCookie, None}
    /\ r.sets \in DOMAIN issued => r.kind = "login" /\ r.answer = "toHome"
    /\ r.answer = "toLogin" => r.sets = None
    /\ r.late => r.cookie = None
    /\ r.answer \in {"ok", "toHome"} /\ r.kind # "login" => r.cookie # None
    /\ r.kind \in FromPages => r.csrf = p
    /\ r.kind = "change" /\ r.answer = "ok" => r.csrf = r.cookie

SecretInv  == secret <= restarts
JarInv     == signedOut => jar = None
RequestInv == \A t \in Tabs : req[t] # None => Fits(req[t], page[t])
AttemptInv == \A t \in Tabs : attempt[t] # None =>
                 req[t] # None /\ req[t].kind = "login" /\ req[t].answer = "none"
ExpiryInv  == \A n \in DOMAIN issued :
                 LET s == issued[n] IN
                 /\ PerSecond * s.expires <= s.at + MaxStepBacks + TTL
                 /\ s.at + MaxStepBacks + TTL - setBack < PerSecond * s.expires + PerSecond

GateInv == GateTypeOK /\ SecretInv /\ JarInv /\ RequestInv /\ AttemptInv /\ ExpiryInv

LEMMA GateNumbers ==
    /\ TTL \in Nat \ {0} /\ PerSecond \in Nat \ {0}
    /\ MaxLogins \in Nat /\ MaxStepBacks \in Nat /\ MaxRestarts \in Nat
    /\ None \notin Nat /\ None \notin Request
    /\ \A s \in Situations : s.ips \subseteq IPs
BY GateAssumption, NilAssumption

LEMMA IssuedIs ==
    GateTypeOK => /\ DOMAIN issued = 1..Len(issued) /\ Len(issued) \in Nat
                  /\ DOMAIN issued \subseteq Nonces /\ None \notin DOMAIN issued
                  /\ KeepCookie \notin DOMAIN issued /\ KeepCookie # None
<1> SUFFICES ASSUME GateTypeOK
             PROVE  /\ DOMAIN issued = 1..Len(issued) /\ Len(issued) \in Nat
                    /\ DOMAIN issued \subseteq Nonces /\ None \notin DOMAIN issued
                    /\ KeepCookie \notin DOMAIN issued /\ KeepCookie # None
  OBVIOUS
<1>1. DOMAIN issued = 1..Len(issued) /\ Len(issued) \in Nat /\ Len(issued) <= MaxLogins
  BY DEF GateTypeOK
<1>2. 1..Len(issued) \subseteq Nonces
  BY <1>1, GateNumbers DEF Nonces
<1>3. KeepCookie \notin 1..Len(issued)
  BY DEF KeepCookie
<1>4. None \notin 1..Len(issued) /\ KeepCookie # None
  BY <1>1, GateNumbers DEF KeepCookie
<1> QED
  BY <1>1, <1>2, <1>3, <1>4

LEMMA SecondsIs ==
    \A t \in Nat : /\ Seconds(t) \in Nat /\ PerSecond * Seconds(t) <= t
                  /\ t < PerSecond * Seconds(t) + PerSecond
<1> SUFFICES ASSUME NEW t \in Nat
             PROVE  /\ Seconds(t) \in Nat /\ PerSecond * Seconds(t) <= t
                    /\ t < PerSecond * Seconds(t) + PerSecond
  OBVIOUS
<1>1. \A a \in Nat : \A b \in Nat \ {0} : a \div b \in Nat /\ b * (a \div b) <= a /\ a < b * (a \div b) + b
  OBVIOUS
<1> QED
  BY <1>1, GateNumbers DEF Seconds

LEMMA GateStarts == Init => GateInv
<1> SUFFICES ASSUME Init PROVE GateInv
  OBVIOUS
<1>1. issued = <<>> /\ Len(issued) = 0 /\ DOMAIN issued = {}
  BY DEF Init
<1>2. GateTypeOK
  <2>1. 0 \in 0..MaxStepBacks /\ 0 \in 0..MaxRestarts /\ 0 <= MaxLogins
    BY GateNumbers
  <2>2. issued \in Seq(Session)
    BY <1>1
  <2>3. page \in [Tabs -> DOMAIN issued \cup {None}] /\ req \in [Tabs -> Request \cup {None}]
    BY DEF Init
  <2> QED
    BY <1>1, <2>1, <2>2, <2>3 DEF Init, GateTypeOK
<1> QED
  BY <1>1, <1>2 DEF Init, LimiterInit, GateInv, SecretInv, JarInv, RequestInv, AttemptInv, ExpiryInv, Tabs
\* What the browser sends.
LEMMA Sending ==
    GateTypeOK =>
      \A t \in Tabs : \A kind \in Kinds : \A csrf \in DOMAIN issued \cup {None} :
        Send(t, kind, csrf) =>
          /\ req' \in [Tabs -> Request \cup {None}]
          /\ \A u \in Tabs \ {t} : req'[u] = req[u]
          /\ req'[t] = Asked(kind, csrf) /\ Asked(kind, csrf) \in Request
<1> SUFFICES ASSUME GateTypeOK, NEW t \in Tabs, NEW kind \in Kinds,
                    NEW csrf \in DOMAIN issued \cup {None}, Send(t, kind, csrf)
             PROVE  /\ req' \in [Tabs -> Request \cup {None}]
                    /\ \A u \in Tabs \ {t} : req'[u] = req[u]
                    /\ req'[t] = Asked(kind, csrf) /\ Asked(kind, csrf) \in Request
  OBVIOUS
<1>1. csrf \in Nonces \cup {None} /\ jar \in Nonces \cup {None} /\ signedOut \in BOOLEAN
  BY IssuedIs DEF GateTypeOK
<1>2. Asked(kind, csrf) \in Request
  BY <1>1 DEF Asked, Request, Answers
<1>3. req \in [Tabs -> Request \cup {None}] /\ req' = [req EXCEPT ![t] = Asked(kind, csrf)]
  BY DEF GateTypeOK, Send
<1> HIDE DEF Asked
<1> QED
  BY <1>2, <1>3

\* What the server answers.
LEMMA Replying ==
    GateTypeOK =>
      \A t \in Tabs : \A answer \in Answers : \A sets \in Nonces \cup {KeepCookie, None} :
        req[t] # None /\ Reply(t, answer, sets) =>
          /\ req' \in [Tabs -> Request \cup {None}]
          /\ \A u \in Tabs \ {t} : req'[u] = req[u]
          /\ req'[t] # None /\ req'[t].answer = answer /\ req'[t].sets = sets
          /\ req'[t].kind = req[t].kind /\ req'[t].cookie = req[t].cookie
          /\ req'[t].csrf = req[t].csrf /\ req'[t].late = req[t].late
<1> SUFFICES ASSUME GateTypeOK, NEW t \in Tabs, NEW answer \in Answers,
                    NEW sets \in Nonces \cup {KeepCookie, None},
                    req[t] # None, Reply(t, answer, sets)
             PROVE  /\ req' \in [Tabs -> Request \cup {None}]
                    /\ \A u \in Tabs \ {t} : req'[u] = req[u]
                    /\ req'[t] # None /\ req'[t].answer = answer /\ req'[t].sets = sets
                    /\ req'[t].kind = req[t].kind /\ req'[t].cookie = req[t].cookie
                    /\ req'[t].csrf = req[t].csrf /\ req'[t].late = req[t].late
  OBVIOUS
<1> DEFINE r == [req[t] EXCEPT !.answer = answer, !.sets = sets]
<1>1. req \in [Tabs -> Request \cup {None}] /\ req[t] \in Request
  BY DEF GateTypeOK
<1>2. /\ r \in Request /\ r.answer = answer /\ r.sets = sets
      /\ r.kind = req[t].kind /\ r.cookie = req[t].cookie
      /\ r.csrf = req[t].csrf /\ r.late = req[t].late
  BY <1>1 DEF Request
<1>3. req' = [req EXCEPT ![t] = r]
  BY DEF Reply
<1> HIDE DEF r
<1>4. r # None
  BY <1>2, GateNumbers
<1> QED
  BY <1>1, <1>2, <1>3, <1>4

\* A request that is sent keeps the gate's invariant.
LEMMA SendKeeps ==
    \A t \in Tabs : \A kind \in Kinds : \A csrf \in DOMAIN issued \cup {None} :
      /\ GateInv /\ req[t] = None /\ Send(t, kind, csrf)
      /\ kind \in FromPages => csrf = page[t]
      /\ UNCHANGED <<attempt, situation, server, jar, page, signedOut>>
      => GateInv'
<1> SUFFICES ASSUME NEW t \in Tabs, NEW kind \in Kinds, NEW csrf \in DOMAIN issued \cup {None},
                    GateInv, req[t] = None, Send(t, kind, csrf),
                    kind \in FromPages => csrf = page[t],
                    UNCHANGED <<attempt, situation, server, jar, page, signedOut>>
             PROVE  GateInv'
  OBVIOUS
<1>1. GateTypeOK /\ SecretInv /\ JarInv /\ RequestInv /\ AttemptInv /\ ExpiryInv
  BY DEF GateInv
<1>2. /\ req' \in [Tabs -> Request \cup {None}]
      /\ \A u \in Tabs \ {t} : req'[u] = req[u]
      /\ req'[t] = Asked(kind, csrf)
  BY <1>1, Sending
<1>3. GateTypeOK'
  BY <1>1, <1>2 DEF GateTypeOK, server
<1>4. RequestInv'
  <2>1. /\ req'[t].cookie = jar /\ req'[t].csrf = csrf /\ req'[t].kind = kind
        /\ req'[t].answer = "none" /\ req'[t].sets = KeepCookie /\ req'[t].late = signedOut
    BY <1>2 DEF Asked
  <2>2. Fits(req'[t], page[t])
    BY <1>1, <2>1, IssuedIs DEF Fits, GateTypeOK, JarInv
  <2>3. \A u \in Tabs : req'[u] # None => Fits(req'[u], page[u])
    BY <1>1, <1>2, <2>2 DEF RequestInv
  <2> QED
    BY <2>3 DEF RequestInv, Fits, server
<1>5. AttemptInv'
  BY <1>1, <1>2 DEF AttemptInv, Tabs
<1> QED
  BY <1>1, <1>3, <1>4, <1>5 DEF GateInv, SecretInv, JarInv, ExpiryInv, server

\* An answer keeps the gate's invariant, if it fits its request and says nothing
\* to a handler that compares a password; a session may be issued with it.
LEMMA ReplyKeeps ==
    \A t \in Tabs : \A answer \in Answers : \A sets \in Nonces \cup {KeepCookie, None} :
      /\ GateInv /\ req[t] # None /\ req[t].answer = "none" /\ Reply(t, answer, sets)
      /\ sets \in Nonces => sets \in DOMAIN issued' /\ req[t].kind = "login" /\ answer = "toHome"
      /\ answer = "toLogin" => sets = None
      /\ answer \in {"ok", "toHome"} /\ req[t].kind # "login" => req[t].cookie # None
      /\ req[t].kind = "change" /\ answer = "ok" => req[t].csrf = req[t].cookie
      /\ attempt'[t] = None /\ \A u \in Tabs \ {t} : attempt'[u] = attempt[u]
      /\ issued' \in Seq(Session) /\ Len(issued') <= MaxLogins /\ DOMAIN issued \subseteq DOMAIN issued'
      /\ ExpiryInv'
      /\ UNCHANGED <<situation, setBack, secret, restarts, jar, page, signedOut>>
      => GateInv'
<1> SUFFICES ASSUME NEW t \in Tabs, NEW answer \in Answers,
                    NEW sets \in Nonces \cup {KeepCookie, None},
                    GateInv, req[t] # None, req[t].answer = "none", Reply(t, answer, sets),
                    sets \in Nonces => sets \in DOMAIN issued' /\ req[t].kind = "login" /\ answer = "toHome",
                    answer = "toLogin" => sets = None,
                    answer \in {"ok", "toHome"} /\ req[t].kind # "login" => req[t].cookie # None,
                    req[t].kind = "change" /\ answer = "ok" => req[t].csrf = req[t].cookie,
                    attempt'[t] = None, \A u \in Tabs \ {t} : attempt'[u] = attempt[u],
                    issued' \in Seq(Session), Len(issued') <= MaxLogins,
                    DOMAIN issued \subseteq DOMAIN issued', ExpiryInv',
                    UNCHANGED <<situation, setBack, secret, restarts, jar, page, signedOut>>
             PROVE  GateInv'
  OBVIOUS
<1>1. GateTypeOK /\ SecretInv /\ JarInv /\ RequestInv /\ AttemptInv /\ ExpiryInv
  BY DEF GateInv
<1>2. /\ req' \in [Tabs -> Request \cup {None}]
      /\ \A u \in Tabs \ {t} : req'[u] = req[u]
      /\ req'[t] # None /\ req'[t].answer = answer /\ req'[t].sets = sets
      /\ req'[t].kind = req[t].kind /\ req'[t].cookie = req[t].cookie
      /\ req'[t].csrf = req[t].csrf /\ req'[t].late = req[t].late
  BY <1>1, Replying
<1>3. /\ jar' \in DOMAIN issued' \cup {None}
      /\ page' \in [Tabs -> DOMAIN issued' \cup {None}]
  BY <1>1 DEF GateTypeOK
<1>4. GateTypeOK'
  BY <1>1, <1>2, <1>3 DEF GateTypeOK
<1>5. /\ DOMAIN issued' \subseteq Nonces /\ None \notin DOMAIN issued'
      /\ KeepCookie \notin DOMAIN issued' /\ KeepCookie # None
  <2>1. DOMAIN issued' = 1..Len(issued') /\ Len(issued') \in Nat
    OBVIOUS
  <2>2. 1..Len(issued') \subseteq Nonces /\ KeepCookie \notin 1..Len(issued')
    BY <2>1, GateNumbers DEF Nonces, KeepCookie
  <2>3. None \notin 1..Len(issued') /\ KeepCookie # None
    BY <2>1, GateNumbers DEF KeepCookie
  <2> QED
    BY <2>1, <2>2, <2>3
<1>6. RequestInv'
  <2>1. Fits(req[t], page[t])
    BY <1>1 DEF RequestInv
  <2>2. Fits(req[t], page[t])'
    BY <1>2, <1>5, <2>1 DEF Fits
  <2>3. ASSUME NEW u \in Tabs \ {t}, req'[u] # None PROVE Fits(req[u], page[u])'
    <3>1. Fits(req[u], page[u])
      BY <1>1, <1>2, <2>3 DEF RequestInv
    <3>2. req[u].sets \in DOMAIN issued => req[u].sets # None /\ req[u].sets # KeepCookie
      BY <1>1, IssuedIs
    <3> QED
      BY <1>2, <1>5, <3>1, <3>2 DEF Fits
  <2> QED
    BY <2>2, <2>3 DEF RequestInv
<1>7. AttemptInv'
  BY <1>1, <1>2 DEF AttemptInv
<1> QED
  BY <1>1, <1>4, <1>6, <1>7 DEF GateInv, SecretInv, JarInv

\* The same of an answer that issues no session.
LEMMA PlainReplyKeeps ==
    \A t \in Tabs : \A answer \in Answers : \A sets \in {KeepCookie, None} :
      /\ GateInv /\ req[t] # None /\ req[t].answer = "none" /\ Reply(t, answer, sets)
      /\ answer = "toLogin" => sets = None
      /\ answer \in {"ok", "toHome"} /\ req[t].kind # "login" => req[t].cookie # None
      /\ req[t].kind = "change" /\ answer = "ok" => req[t].csrf = req[t].cookie
      /\ attempt'[t] = None /\ \A u \in Tabs \ {t} : attempt'[u] = attempt[u]
      /\ UNCHANGED <<situation, server, jar, page, signedOut>>
      => GateInv'
<1> SUFFICES ASSUME NEW t \in Tabs, NEW answer \in Answers, NEW sets \in {KeepCookie, None},
                    GateInv, req[t] # None, req[t].answer = "none", Reply(t, answer, sets),
                    answer = "toLogin" => sets = None,
                    answer \in {"ok", "toHome"} /\ req[t].kind # "login" => req[t].cookie # None,
                    req[t].kind = "change" /\ answer = "ok" => req[t].csrf = req[t].cookie,
                    attempt'[t] = None, \A u \in Tabs \ {t} : attempt'[u] = attempt[u],
                    UNCHANGED <<situation, server, jar, page, signedOut>>
             PROVE  GateInv'
  OBVIOUS
<1>1. GateTypeOK /\ ExpiryInv
  BY DEF GateInv
<1>2. issued' = issued /\ setBack' = setBack /\ secret' = secret /\ restarts' = restarts
  BY DEF server
<1>3. issued' \in Seq(Session) /\ Len(issued') <= MaxLogins /\ DOMAIN issued \subseteq DOMAIN issued'
  BY <1>1, <1>2 DEF GateTypeOK
<1>4. ExpiryInv'
  BY <1>1, <1>2 DEF ExpiryInv
<1>5. sets \notin Nonces
  BY GateNumbers DEF Nonces, KeepCookie
<1> QED
  BY <1>2, <1>3, <1>4, <1>5, ReplyKeeps

LEMMA HandleKeeps ==
    \A t \in Tabs : GateInv /\ (HandleProtected(t) \/ HandleLoginForm(t)) => GateInv'
<1> SUFFICES ASSUME NEW t \in Tabs, GateInv, HandleProtected(t) \/ HandleLoginForm(t)
             PROVE  GateInv'
  OBVIOUS
<1>1. /\ req[t] # None /\ req[t].answer = "none" /\ req[t].kind # "login"
      /\ UNCHANGED <<situation, server, jar, page, signedOut>> /\ attempt' = attempt
  BY DEF HandleProtected, HandleLoginForm, Waits, Protected, limiterVars
<1>2. attempt'[t] = None /\ \A u \in Tabs \ {t} : attempt'[u] = attempt[u]
  BY <1>1 DEF GateInv, AttemptInv
<1>3. {"toLogin", "forbidden", "ok", "toHome", "form"} \subseteq Answers
  BY DEF Answers
<1>4. \/ Reply(t, "toLogin", None)
      \/ Reply(t, "forbidden", KeepCookie)
      \/ Reply(t, "form", KeepCookie)
      \/ Reply(t, "form", None)
      \/ Reply(t, "toHome", KeepCookie) /\ req[t].cookie # None
      \/ /\ Reply(t, "ok", KeepCookie) /\ req[t].cookie # None
         /\ req[t].kind = "change" => req[t].csrf = req[t].cookie
  BY DEF HandleProtected, HandleLoginForm, Verified, ValidCSRF, Guarded
<1>5. CASE Reply(t, "toLogin", None)
  BY <1>1, <1>2, <1>3, <1>5, PlainReplyKeeps
<1>6. CASE Reply(t, "forbidden", KeepCookie)
  BY <1>1, <1>2, <1>3, <1>6, PlainReplyKeeps
<1>7. CASE Reply(t, "form", KeepCookie)
  BY <1>1, <1>2, <1>3, <1>7, PlainReplyKeeps
<1>8. CASE Reply(t, "form", None)
  BY <1>1, <1>2, <1>3, <1>8, PlainReplyKeeps
<1>9. CASE Reply(t, "toHome", KeepCookie) /\ req[t].cookie # None
  BY <1>1, <1>2, <1>3, <1>9, PlainReplyKeeps
<1>10. CASE /\ Reply(t, "ok", KeepCookie) /\ req[t].cookie # None
            /\ req[t].kind = "change" => req[t].csrf = req[t].cookie
  BY <1>1, <1>2, <1>3, <1>10, PlainReplyKeeps
<1> QED
  BY <1>4, <1>5, <1>6, <1>7, <1>8, <1>9, <1>10

\* A login that is denied, before its password is compared or after.
LEMMA RefuseKeeps ==
    \A t \in Tabs : LimiterTypeOK /\ GateInv /\ (LoginRefused(t) \/ LoginFails(t) \/ LoginIssueFails(t))
                    => GateInv'
<1> SUFFICES ASSUME NEW t \in Tabs, LimiterTypeOK, GateInv,
                    LoginRefused(t) \/ LoginFails(t) \/ LoginIssueFails(t)
             PROVE  GateInv'
  OBVIOUS
<1>1. \/ attempt' = attempt /\ attempt[t] = None /\ Waits(t, {"login"})
      \/ attempt' = [attempt EXCEPT ![t] = None] /\ attempt[t] # None
  <2>1. LoginRefused(t) => attempt' = attempt /\ attempt[t] = None /\ Waits(t, {"login"})
    BY DEF LoginRefused, Deny
  <2>2. Fail(t) => attempt' = [attempt EXCEPT ![t] = None] /\ attempt[t] # None
    BY DEF Fail
  <2>3. IssueFails(t) => attempt' = [attempt EXCEPT ![t] = None] /\ attempt[t] # None
    BY DEF IssueFails
  <2> QED
    BY <2>1, <2>2, <2>3 DEF LoginFails, LoginIssueFails
<1>2. attempt \in [Tabs -> IPs \cup {None}]
  BY DEF LimiterTypeOK, Tabs
<1>3. attempt'[t] = None /\ \A u \in Tabs \ {t} : attempt'[u] = attempt[u]
  BY <1>1, <1>2
<1>4. req[t] # None /\ req[t].answer = "none"
  BY <1>1 DEF Waits, GateInv, AttemptInv
<1>5. /\ Reply(t, "denied", KeepCookie) /\ "denied" \in Answers
      /\ UNCHANGED <<situation, server, jar, page, signedOut>>
  BY DEF LoginRefused, LoginFails, LoginIssueFails, Answers
<1> QED
  BY <1>3, <1>4, <1>5, PlainReplyKeeps

\* The session of a login.
LEMMA IssueKeeps ==
    \A t \in Tabs : LimiterTypeOK /\ GateInv /\ LoginSucceeds(t) => GateInv'
<1> SUFFICES ASSUME NEW t \in Tabs, LimiterTypeOK, GateInv, LoginSucceeds(t)
             PROVE  GateInv'
  OBVIOUS
<1>1. GateTypeOK /\ AttemptInv /\ ExpiryInv /\ SecretInv
  BY DEF GateInv
<1>2. /\ attempt[t] # None /\ attempt' = [attempt EXCEPT ![t] = None]
      /\ attempt \in [Tabs -> IPs \cup {None}]
      /\ UNCHANGED <<situation, setBack, secret, restarts, jar, page, signedOut>>
  BY DEF LoginSucceeds, Succeed, LimiterTypeOK, Tabs
<1>3. attempt'[t] = None /\ \A u \in Tabs \ {t} : attempt'[u] = attempt[u]
  BY <1>2
<1>4. req[t] # None /\ req[t].answer = "none" /\ req[t].kind = "login"
  BY <1>1, <1>2 DEF AttemptInv
<1>5. "denied" \in Answers /\ "toHome" \in Answers
  BY DEF Answers
<1>6. CASE ~situation.browsing
  <2>1. Reply(t, "denied", KeepCookie) /\ UNCHANGED server
    BY <1>2, <1>6 DEF LoginSucceeds, server
  <2> QED
    BY <1>2, <1>3, <1>4, <1>5, <2>1, PlainReplyKeeps
<1>7. CASE situation.browsing
  <2> DEFINE l == Len(issued)
             s == [secret |-> secret, at |-> now, expires |-> Seconds(Wall + TTL)]
  <2>1. /\ l < MaxLogins /\ issued' = Append(issued, s) /\ Reply(t, "toHome", Len(issued'))
    BY <1>7 DEF LoginSucceeds
  <2>2. l \in Nat /\ DOMAIN issued = 1..l /\ issued \in Seq(Session)
    BY <1>1, IssuedIs DEF GateTypeOK
  <2>3. /\ now \in Nat /\ now \in Times /\ setBack \in 0..MaxStepBacks /\ setBack \in Nat
        /\ MaxStepBacks \in Nat /\ TTL \in Nat /\ PerSecond \in Nat \ {0}
        /\ Wall = now + MaxStepBacks - setBack
    BY <1>1, GateNumbers DEF LimiterTypeOK, Times, GateTypeOK, Wall
  <2>4. Wall + TTL \in Nat /\ Wall + TTL = now + MaxStepBacks + TTL - setBack
    BY <2>3
  <2>5. /\ Seconds(Wall + TTL) \in Nat /\ PerSecond * Seconds(Wall + TTL) <= Wall + TTL
        /\ Wall + TTL < PerSecond * Seconds(Wall + TTL) + PerSecond
    BY <2>4, SecondsIs
  <2>6. s \in Session
    BY <1>1, <2>3, <2>5, GateNumbers DEF Session, GateTypeOK
  <2>7. s.at = now /\ s.expires = Seconds(Wall + TTL)
    OBVIOUS
  <2>8. /\ PerSecond * s.expires <= s.at + MaxStepBacks + TTL
        /\ s.at + MaxStepBacks + TTL - setBack < PerSecond * s.expires + PerSecond
    <3> DEFINE e == Seconds(Wall + TTL)
    <3>1. e \in Nat /\ PerSecond * e \in Int
      BY <2>3, <2>5
    <3> DEFINE pe == PerSecond * e
    <3>2. pe <= now + MaxStepBacks + TTL /\ now + MaxStepBacks + TTL - setBack < pe + PerSecond
      <4>1. pe \in Int /\ pe <= now + MaxStepBacks + TTL - setBack
            /\ now + MaxStepBacks + TTL - setBack < pe + PerSecond
        BY <2>4, <2>5, <3>1
      <4> HIDE DEF pe
      <4> QED
        BY <2>3, <4>1
    <3> HIDE DEF e
    <3> QED
      BY <2>7, <3>2 DEF e
  <2> HIDE DEF s
  <2>9. /\ issued' \in Seq(Session) /\ Len(issued') = l + 1 /\ DOMAIN issued' = 1..(l + 1)
        /\ issued'[l + 1] = s /\ \A n \in 1..l : issued'[n] = issued[n]
    BY <2>1, <2>2, <2>6
  <2>10. ExpiryInv'
    <3>1. \A n \in DOMAIN issued' : n \in DOMAIN issued \/ n = l + 1
      BY <2>2, <2>9
    <3>2. setBack' = setBack
      BY <1>2
    <3>3. ASSUME NEW n \in DOMAIN issued'
          PROVE  /\ PerSecond * issued'[n].expires <= issued'[n].at + MaxStepBacks + TTL
                 /\ issued'[n].at + MaxStepBacks + TTL - setBack' < PerSecond * issued'[n].expires + PerSecond
      <4>1. CASE n \in DOMAIN issued
        <5>1. issued'[n] = issued[n]
          BY <2>2, <2>9, <4>1
        <5> QED
          BY <1>1, <3>2, <4>1, <5>1 DEF ExpiryInv
      <4>2. CASE n = l + 1
        BY <2>8, <2>9, <3>2, <4>2
      <4> QED
        BY <3>1, <4>1, <4>2
    <3> QED
      BY <3>3 DEF ExpiryInv
  <2>11. /\ Len(issued') <= MaxLogins /\ DOMAIN issued \subseteq DOMAIN issued'
         /\ Len(issued') \in DOMAIN issued' /\ Len(issued') \in Nonces
    BY <2>1, <2>2, <2>9, GateNumbers DEF Nonces
  <2>12. PICK n \in Nonces : n = Len(issued')
    BY <2>11
  <2>13. Reply(t, "toHome", n) /\ n \in Nonces \cup {KeepCookie, None} /\ n \in DOMAIN issued'
    BY <2>1, <2>11, <2>12
  <2> QED
    BY <1>2, <1>3, <1>4, <1>5, <2>9, <2>10, <2>11, <2>13, ReplyKeeps
<1> QED
  BY <1>6, <1>7

\* The browser takes an answer in.
LEMMA TakeKeeps ==
    \A t \in Tabs : GateInv /\ Take(t) => GateInv'
<1> SUFFICES ASSUME NEW t \in Tabs, GateInv, Take(t) PROVE GateInv'
  OBVIOUS
<1>1. GateTypeOK /\ SecretInv /\ JarInv /\ RequestInv /\ AttemptInv /\ ExpiryInv
  BY DEF GateInv
<1>2. /\ UNCHANGED <<situation, setBack, secret, restarts, issued, attempt>>
      /\ req[t] # None /\ req[t].answer # "none" /\ jar' = Jar(req[t])
  BY DEF Take, server, limiterVars
<1>3. /\ DOMAIN issued \subseteq Nonces /\ None \notin DOMAIN issued
      /\ KeepCookie \notin DOMAIN issued /\ KeepCookie # None
  BY <1>1, IssuedIs
<1>4. Fits(req[t], page[t]) /\ req[t] \in Request
  BY <1>1, <1>2 DEF RequestInv, GateTypeOK
<1>5. jar' \in DOMAIN issued \cup {None}
  BY <1>1, <1>2, <1>4 DEF Jar, Fits, GateTypeOK
<1>6. signedOut' \in BOOLEAN /\ (signedOut' => jar' = None)
  <2>1. CASE req[t].answer = "toLogin"
    <3>1. signedOut' = TRUE /\ jar' = None
      BY <1>2, <1>3, <1>4, <2>1 DEF Take, Jar, Fits
    <3> QED
      BY <3>1
  <2>2. CASE req[t].kind = "login" /\ req[t].answer = "toHome"
    <3>1. signedOut' = FALSE
      BY <2>2 DEF Take
    <3> QED
      BY <3>1
  <2>3. CASE req[t].answer # "toLogin" /\ ~(req[t].kind = "login" /\ req[t].answer = "toHome")
    <3>1. signedOut' = signedOut
      BY <2>3 DEF Take
    <3>2. req[t].sets \in {KeepCookie, None}
      BY <1>4, <2>3 DEF Fits
    <3>3. signedOut => jar' = None
      BY <1>1, <1>2, <3>2 DEF JarInv, Jar
    <3>4. signedOut \in BOOLEAN
      BY <1>1 DEF GateTypeOK
    <3> QED
      BY <3>1, <3>3, <3>4
  <2> QED
    BY <2>1, <2>2, <2>3
<1>7. /\ page' \in [Tabs -> DOMAIN issued \cup {None}]
      /\ \A u \in Tabs \ {t} : page'[u] = page[u]
  <2>1. page' = [page EXCEPT ![t] = None] \/ page' = [page EXCEPT ![t] = req[t].cookie] \/ page' = page
    BY DEF Take
  <2>2. req[t].cookie \in DOMAIN issued \cup {None} /\ page \in [Tabs -> DOMAIN issued \cup {None}]
    BY <1>1, <1>4 DEF GateTypeOK, Fits
  <2> QED
    BY <2>1, <2>2
<1>8. /\ req' \in [Tabs -> Request \cup {None}]
      /\ \A u \in Tabs \ {t} : req'[u] = req[u]
      /\ req'[t] # None => /\ req'[t].kind \in {"form", "page"} /\ req'[t].cookie = jar'
                           /\ req'[t].answer = "none" /\ req'[t].sets = KeepCookie
                           /\ req'[t].late = signedOut'
  <2>1. req \in [Tabs -> Request \cup {None}]
    BY <1>1 DEF GateTypeOK
  <2>2. Done(t) \/ Follow(t, "form") \/ Follow(t, "page")
    BY DEF Take
  <2>3. CASE Done(t)
    BY <2>1, <2>3 DEF Done
  <2>4. ASSUME NEW kind \in {"form", "page"}, Follow(t, kind)
        PROVE  /\ req' \in [Tabs -> Request \cup {None}]
               /\ \A u \in Tabs \ {t} : req'[u] = req[u]
               /\ /\ req'[t].kind \in {"form", "page"} /\ req'[t].cookie = jar'
                  /\ req'[t].answer = "none" /\ req'[t].sets = KeepCookie
                  /\ req'[t].late = signedOut'
    <3> DEFINE r == [Asked(kind, None) EXCEPT !.cookie = jar', !.late = signedOut']
    <3>1. Asked(kind, None) \in Request /\ Asked(kind, None).kind = kind
          /\ Asked(kind, None).answer = "none" /\ Asked(kind, None).sets = KeepCookie
      <4>1. jar \in Nonces \cup {None} /\ signedOut \in BOOLEAN
        BY <1>1, <1>3 DEF GateTypeOK
      <4> QED
        BY <4>1 DEF Asked, Request, Kinds, Answers
    <3>2. jar' \in Nonces \cup {None}
      BY <1>3, <1>5
    <3>3. /\ r \in Request /\ r.kind = kind /\ r.cookie = jar' /\ r.answer = "none"
          /\ r.sets = KeepCookie /\ r.late = signedOut'
      BY <1>6, <3>1, <3>2 DEF Request
    <3>4. req' = [req EXCEPT ![t] = r]
      BY <2>4 DEF Follow
    <3> HIDE DEF r
    <3> QED
      BY <2>1, <3>3, <3>4
  <2> QED
    BY <2>2, <2>3, <2>4
<1>9. GateTypeOK'
  BY <1>1, <1>2, <1>5, <1>6, <1>7, <1>8 DEF GateTypeOK
<1>10. RequestInv'
  <2>1. ASSUME req'[t] # None PROVE Fits(req[t], page[t])'
    BY <1>2, <1>3, <1>5, <1>6, <1>8, <2>1 DEF Fits, FromPages
  <2>2. ASSUME NEW u \in Tabs \ {t}, req'[u] # None PROVE Fits(req[u], page[u])'
    BY <1>1, <1>2, <1>7, <1>8, <2>2 DEF RequestInv, Fits
  <2> QED
    BY <2>1, <2>2 DEF RequestInv
<1>11. AttemptInv'
  BY <1>1, <1>2, <1>8 DEF AttemptInv
<1> QED
  BY <1>1, <1>2, <1>6, <1>9, <1>10, <1>11 DEF GateInv, SecretInv, JarInv, ExpiryInv

LEMMA RestartKeeps == LimiterTypeOK /\ GateInv /\ Restart => GateInv'
<1> SUFFICES ASSUME LimiterTypeOK, GateInv, Restart PROVE GateInv'
  OBVIOUS
<1>1. GateTypeOK /\ SecretInv /\ JarInv /\ RequestInv /\ AttemptInv /\ ExpiryInv
  BY DEF GateInv
<1>2. UNCHANGED <<situation, setBack, issued, jar, page, signedOut>>
  BY DEF Restart
<1>3. SecretInv' /\ secret' \in 0..MaxRestarts /\ restarts' \in 0..MaxRestarts
  BY <1>1, GateNumbers DEF Restart, SecretInv, GateTypeOK
<1>4. /\ req' \in [Tabs -> Request \cup {None}]
      /\ \A u \in Tabs : req'[u] # None => req'[u] = req[u]
  BY <1>1 DEF Restart, GateTypeOK
<1>5. GateTypeOK'
  BY <1>1, <1>2, <1>3, <1>4 DEF GateTypeOK
<1>6. RequestInv'
  BY <1>1, <1>2, <1>4 DEF RequestInv, Fits
<1>7. AttemptInv'
  BY DEF Restart, LimiterForgets, AttemptInv, Tabs
<1> QED
  BY <1>1, <1>2, <1>3, <1>5, <1>6, <1>7 DEF GateInv, JarInv, ExpiryInv

LEMMA StepBackKeeps == GateInv /\ StepBack => GateInv'
<1> SUFFICES ASSUME GateInv, StepBack PROVE GateInv'
  OBVIOUS
<1>1. GateTypeOK /\ SecretInv /\ JarInv /\ RequestInv /\ AttemptInv /\ ExpiryInv
  BY DEF GateInv
<1>2. /\ UNCHANGED <<attempt, situation, secret, restarts, issued, jar, page, req, signedOut>>
      /\ setBack < MaxStepBacks /\ setBack' = setBack + 1
  BY DEF StepBack, limiterVars, browser
<1>3. /\ setBack' \in 0..MaxStepBacks /\ setBack \in Int /\ MaxStepBacks \in Int
      /\ TTL \in Int /\ PerSecond \in Int
  BY <1>1, <1>2, GateNumbers DEF GateTypeOK
<1>4. ExpiryInv'
  <2>1. ASSUME NEW n \in DOMAIN issued
        PROVE  /\ PerSecond * issued[n].expires <= issued[n].at + MaxStepBacks + TTL
               /\ issued[n].at + MaxStepBacks + TTL - setBack' < PerSecond * issued[n].expires + PerSecond
    <3> DEFINE at == issued[n].at
               e  == PerSecond * issued[n].expires
    <3>1. issued[n] \in Session
      BY <1>1 DEF GateTypeOK
    <3>2. at \in Int /\ issued[n].expires \in Int
      BY <3>1 DEF Session, Times
    <3>3. e \in Int
      BY <1>3, <3>2
    <3>4. e <= at + MaxStepBacks + TTL /\ at + MaxStepBacks + TTL - setBack < e + PerSecond
      BY <1>1 DEF ExpiryInv
    <3> HIDE DEF at, e
    <3>5. at + MaxStepBacks + TTL - setBack' < e + PerSecond
      BY <1>2, <1>3, <3>2, <3>3, <3>4
    <3> QED
      BY <3>4, <3>5 DEF at, e
  <2> QED
    BY <1>2, <2>1 DEF ExpiryInv
<1>5. GateTypeOK'
  BY <1>1, <1>2, <1>3 DEF GateTypeOK
<1> QED
  BY <1>1, <1>2, <1>4, <1>5 DEF GateInv, SecretInv, JarInv, RequestInv, Fits, AttemptInv

\* Every step keeps the gate's invariant.
LEMMA GateStep == LimiterTypeOK /\ GateInv /\ [Next]_vars => GateInv'
<1> SUFFICES ASSUME LimiterTypeOK, GateInv, [Next]_vars PROVE GateInv'
  OBVIOUS
<1>1. GateTypeOK /\ SecretInv /\ JarInv /\ RequestInv /\ AttemptInv /\ ExpiryInv
  BY DEF GateInv
<1>2. ASSUME NEW t \in Tabs, Visit(t) PROVE GateInv'
  <2>1. PICK kind \in {"page", "form"} : Send(t, kind, None)
    BY <1>2 DEF Visit
  <2>2. /\ req[t] = None /\ UNCHANGED <<attempt, situation, server, jar, page, signedOut>>
        /\ kind \in Kinds /\ kind \notin FromPages
    BY <1>2, <2>1 DEF Visit, Idle, limiterVars, Kinds, FromPages
  <2> QED
    BY <2>1, <2>2, SendKeeps
<1>3. ASSUME NEW t \in Tabs, Use(t) PROVE GateInv'
  <2>1. PICK kind \in {"read", "change", "logout"} : Send(t, kind, page[t])
    BY <1>3 DEF Use
  <2>2. PICK csrf \in DOMAIN issued \cup {None} : csrf = page[t]
    BY <1>1 DEF GateTypeOK
  <2>3. /\ req[t] = None /\ UNCHANGED <<attempt, situation, server, jar, page, signedOut>>
        /\ kind \in Kinds /\ Send(t, kind, csrf)
    BY <1>3, <2>1, <2>2 DEF Use, Idle, limiterVars, Kinds
  <2> QED
    BY <2>2, <2>3, SendKeeps
<1>4. ASSUME NEW t \in Tabs, Submit(t) PROVE GateInv'
  <2>1. /\ req[t] = None /\ UNCHANGED <<attempt, situation, server, jar, page, signedOut>>
        /\ Send(t, "login", None) /\ "login" \in Kinds /\ "login" \notin FromPages
    BY <1>4 DEF Submit, Idle, limiterVars, Kinds, FromPages
  <2> QED
    BY <2>1, SendKeeps
<1>5. ASSUME NEW t \in Tabs, LoginAdmitted(t) PROVE GateInv'
  <2>1. /\ UNCHANGED <<situation, server, browser>> /\ Waits(t, {"login"})
        /\ \E ip \in IPs : attempt' = [attempt EXCEPT ![t] = ip]
    BY <1>1, <1>5, GateNumbers DEF LoginAdmitted, Admit, GateTypeOK
  <2>2. \A u \in Tabs : attempt'[u] = attempt[u] \/ u = t
    BY <2>1 DEF LimiterTypeOK, Tabs
  <2>3. UNCHANGED <<situation, setBack, secret, restarts, issued, jar, page, req, signedOut>>
    BY <2>1 DEF server, browser
  <2>4. AttemptInv'
    BY <1>1, <2>1, <2>2, <2>3 DEF AttemptInv, Waits
  <2> QED
    BY <1>1, <2>3, <2>4 DEF GateInv, GateTypeOK, SecretInv, JarInv, RequestInv, Fits, ExpiryInv
<1>6. ASSUME NEW t \in Tabs, Answer(t) PROVE GateInv'
  BY <1>5, <1>6, HandleKeeps, RefuseKeeps, IssueKeeps DEF Answer
<1>7. ASSUME Forget PROVE GateInv'
  BY <1>1, <1>7 DEF Forget, limiterVars, server, GateInv, GateTypeOK, SecretInv, JarInv,
                    RequestInv, Fits, AttemptInv, ExpiryInv
<1>8. ASSUME TimePasses \/ UNCHANGED vars PROVE GateInv'
  <2>1. UNCHANGED <<attempt, situation, setBack, secret, restarts, issued, jar, page, req, signedOut>>
    BY <1>8 DEF TimePasses, Advance, vars, limiterVars, server, browser
  <2> QED
    BY <1>1, <2>1 DEF GateInv, GateTypeOK, SecretInv, JarInv, RequestInv, Fits, AttemptInv, ExpiryInv
<1> QED
  BY <1>2, <1>3, <1>4, <1>6, <1>7, <1>8, TakeKeeps, RestartKeeps, StepBackKeeps DEF Next

\* Every step keeps the limiter's invariant.
LEMMA LimiterStep == LimiterInv /\ GateTypeOK /\ [Next]_vars => LimiterInv'
<1> SUFFICES ASSUME LimiterInv, GateTypeOK, [Next]_vars PROVE LimiterInv'
  OBVIOUS
<1>1. ASSUME UNCHANGED limiterVars PROVE LimiterInv'
  BY <1>1 DEF limiterVars, LimiterInv, LimiterTypeOK, KeptInv, Kept, Ordered, ExactInv,
              RoomInv, ToldInv, ToldKept, Load, Younger, Running, AllRunning, Pruned, PruneBefore, Count
<1>2. \A ip \in situation.ips : ip \in IPs
  BY GateNumbers DEF GateTypeOK
<1>3. ASSUME NEW t \in Tabs, Answer(t) PROVE LimiterInv'
  <2>1. CASE HandleProtected(t) \/ HandleLoginForm(t)
    BY <1>1, <2>1 DEF HandleProtected, HandleLoginForm
  <2>2. CASE LoginRefused(t)
    BY <1>2, <2>2, DenyKeeps DEF LoginRefused, Tabs
  <2>3. CASE LoginAdmitted(t)
    BY <1>2, <2>3, AdmitKeeps DEF LoginAdmitted, Tabs
  <2>4. CASE LoginFails(t)
    BY <2>4, FailKeeps DEF LoginFails, Tabs
  <2>5. CASE LoginIssueFails(t)
    BY <2>5, IssueFailsKeeps DEF LoginIssueFails, Tabs
  <2>6. CASE LoginSucceeds(t)
    BY <2>6, SucceedKeeps DEF LoginSucceeds, Tabs
  <2> QED
    BY <1>3, <2>1, <2>2, <2>3, <2>4, <2>5, <2>6 DEF Answer
<1>4. ASSUME NEW t \in Tabs, Visit(t) \/ Use(t) \/ Submit(t) \/ Take(t) PROVE LimiterInv'
  BY <1>1, <1>4 DEF Visit, Use, Submit, Take
<1>5. ASSUME Restart PROVE LimiterInv'
  BY <1>5, LimiterRestarts DEF Restart
<1>6. ASSUME TimePasses PROVE LimiterInv'
  BY <1>6, AdvanceKeeps DEF TimePasses
<1>7. ASSUME Forget \/ StepBack \/ UNCHANGED vars PROVE LimiterInv'
  BY <1>1, <1>7 DEF Forget, StepBack, vars
<1> QED
  BY <1>3, <1>4, <1>5, <1>6, <1>7 DEF Next

-----------------------------------------------------------------------------
(* What a request that needs a session is answered. *)

\* Only requireSession and what is behind it answers such a request.
LEMMA JudgedIsHandled ==
    \A t \in Tabs : LimiterTypeOK /\ GateInv /\ Next /\ Judged(t) => HandleProtected(t)
<1> SUFFICES ASSUME NEW t \in Tabs, LimiterTypeOK, GateInv, Next, Judged(t), ~HandleProtected(t)
             PROVE  FALSE
  OBVIOUS
<1>1. GateTypeOK /\ AttemptInv /\ req \in [Tabs -> Request \cup {None}]
  BY DEF GateInv, GateTypeOK
<1>2. /\ req[t] # None /\ req[t].kind \in Protected /\ req[t].answer = "none"
      /\ req'[t] # None /\ req'[t].answer # "none"
  BY DEF Judged, Waits
<1>3. ASSUME req'[t] = req[t] PROVE FALSE
  BY <1>2, <1>3
<1>4. ASSUME NEW u \in Tabs, u # t, \E r : req' = [req EXCEPT ![u] = r] PROVE FALSE
  BY <1>1, <1>3, <1>4
<1>5. ASSUME NEW u \in Tabs, Visit(u) \/ Use(u) \/ Submit(u) PROVE FALSE
  <2>1. req[u] = None /\ u # t /\ \E r : req' = [req EXCEPT ![u] = r]
    BY <1>2, <1>5 DEF Visit, Use, Submit, Idle, Send
  <2> QED
    BY <1>4, <2>1
<1>6. ASSUME NEW u \in Tabs, Take(u) PROVE FALSE
  <2>1. u # t /\ \E r : req' = [req EXCEPT ![u] = r]
    BY <1>2, <1>6 DEF Take, Follow, Done
  <2> QED
    BY <1>4, <2>1
<1>7. ASSUME NEW u \in Tabs, HandleProtected(u) \/ HandleLoginForm(u) PROVE FALSE
  <2>1. u # t
    BY <1>2, <1>7 DEF HandleLoginForm, Waits, Protected
  <2>2. \E r : req' = [req EXCEPT ![u] = r]
    BY <1>7 DEF HandleProtected, HandleLoginForm, Reply
  <2> QED
    BY <1>4, <2>1, <2>2
<1>8. ASSUME NEW u \in Tabs,
             LoginRefused(u) \/ LoginFails(u) \/ LoginIssueFails(u) \/ LoginSucceeds(u)
      PROVE  FALSE
  <2>1. req[u].kind = "login"
    BY <1>1, <1>8 DEF LoginRefused, LoginFails, LoginIssueFails, LoginSucceeds, Waits,
                      Fail, IssueFails, Succeed, AttemptInv
  <2>2. u # t
    BY <1>2, <2>1 DEF Protected
  <2>3. \E r : req' = [req EXCEPT ![u] = r]
    BY <1>8 DEF LoginRefused, LoginFails, LoginIssueFails, LoginSucceeds, Reply
  <2> QED
    BY <1>4, <2>2, <2>3
<1>9. ASSUME Restart PROVE FALSE
  BY <1>2, <1>9 DEF Restart
<1>10. ASSUME (\E u \in Tabs : LoginAdmitted(u)) \/ Forget \/ TimePasses \/ StepBack PROVE FALSE
  BY <1>3, <1>10 DEF LoginAdmitted, Forget, TimePasses, StepBack, browser
<1> QED
  BY <1>5, <1>6, <1>7, <1>8, <1>9, <1>10 DEF Next, Answer

LEMMA JudgementIsTimely ==
    \A t \in Tabs : LimiterTypeOK /\ GateInv /\ HandleProtected(t) /\ req[t].cookie # None =>
       LET s == issued[req[t].cookie] IN
       IF req'[t].answer = "toLogin" /\ req[t].kind # "logout"
         THEN s.secret = secret => Age(req[t].cookie) > TTL - PerSecond
         ELSE req'[t].answer # "toLogin" =>
                 s.secret = secret /\ Age(req[t].cookie) < TTL + setBack
<1> SUFFICES ASSUME NEW t \in Tabs, LimiterTypeOK, GateInv, HandleProtected(t), req[t].cookie # None
             PROVE  /\ req'[t].answer = "toLogin" /\ req[t].kind # "logout"
                       /\ issued[req[t].cookie].secret = secret
                       => Age(req[t].cookie) > TTL - PerSecond
                    /\ req'[t].answer # "toLogin"
                       => /\ issued[req[t].cookie].secret = secret
                          /\ Age(req[t].cookie) < TTL + setBack
  OBVIOUS
<1>1. GateTypeOK /\ RequestInv /\ ExpiryInv /\ req[t] # None
  BY DEF GateInv, HandleProtected, Waits
<1>2. PICK n \in DOMAIN issued : n = req[t].cookie
  BY <1>1 DEF RequestInv, Fits
<1>3. /\ req'[t].answer \in {"toLogin", "forbidden", "ok"}
      /\ req'[t].answer = "toLogin" <=> ~Verified(n) \/ (ValidCSRF(req[t]) /\ req[t].kind = "logout")
  <2>1. \A answer \in Answers : \A sets \in {KeepCookie, None} :
           Reply(t, answer, sets) => req'[t].answer = answer
    BY <1>1, Replying
  <2>2. {"toLogin", "forbidden", "ok"} \subseteq Answers
    BY DEF Answers
  <2>3. ~Verified(n) => Reply(t, "toLogin", None)
    BY <1>2 DEF HandleProtected
  <2>4. Verified(n) /\ ~ValidCSRF(req[t]) => Reply(t, "forbidden", KeepCookie)
    BY <1>2 DEF HandleProtected
  <2>5. Verified(n) /\ ValidCSRF(req[t]) /\ req[t].kind = "logout" => Reply(t, "toLogin", None)
    BY <1>2 DEF HandleProtected
  <2>6. Verified(n) /\ ValidCSRF(req[t]) /\ req[t].kind # "logout" => Reply(t, "ok", KeepCookie)
    BY <1>2 DEF HandleProtected
  <2> QED
    BY <2>1, <2>2, <2>3, <2>4, <2>5, <2>6
<1> DEFINE at == issued[n].at
           e  == issued[n].expires
           pe == PerSecond * e
           w  == Seconds(Wall)
           pw == PerSecond * w
<1>4. n # None
  BY <1>2
<1>5. /\ now \in Int /\ setBack \in Int /\ setBack >= 0 /\ MaxStepBacks \in Int /\ TTL \in Int
      /\ PerSecond \in Nat \ {0} /\ Wall \in Nat /\ Wall = now + MaxStepBacks - setBack
  BY <1>1, GateNumbers DEF LimiterTypeOK, Times, GateTypeOK, Wall
<1>6. at \in Int /\ e \in Nat
  <2>1. issued[n] \in Session
    BY <1>1 DEF GateTypeOK
  <2> QED
    BY <2>1 DEF Session, Times
<1>7. w \in Nat /\ pw <= Wall /\ Wall < pw + PerSecond
  BY <1>5, SecondsIs
<1>8. pe \in Int /\ pw \in Int
  BY <1>5, <1>6, <1>7
<1>9. pe <= at + MaxStepBacks + TTL /\ at + MaxStepBacks + TTL - setBack < pe + PerSecond
  BY <1>1 DEF ExpiryInv
<1>10. Verified(n) <=> issued[n].secret = secret /\ w < e
  BY <1>4 DEF Verified
<1>11. Age(n) = now - at
  BY DEF Age
<1> HIDE DEF at, e, w
<1>12. /\ w < e => pw + PerSecond <= pe
       /\ e <= w => pe <= pw
  <2>1. \A p \in Nat \ {0} : \A i, j \in Nat : /\ i < j => p * i + p <= p * j
                                              /\ i <= j => p * i <= p * j
    OBVIOUS
  <2> QED
    BY <1>5, <1>6, <1>7, <2>1
<1> HIDE DEF pe, pw
<1>13. w < e => now - at < TTL + setBack
  BY <1>5, <1>6, <1>7, <1>8, <1>9, <1>12
<1>14. ~(w < e) => now - at > TTL - PerSecond
  BY <1>5, <1>6, <1>7, <1>8, <1>9, <1>12
<1> QED
  BY <1>2, <1>3, <1>10, <1>11, <1>13, <1>14

-----------------------------------------------------------------------------
(* Theorems. *)

LEMMA AlwaysInv == Spec => [](LimiterInv /\ GateInv)
<1>1. Init => LimiterInv /\ GateInv
  BY LimiterStarts, GateStarts DEF Init
<1>2. (LimiterInv /\ GateInv) /\ [Next]_vars => (LimiterInv /\ GateInv)'
  BY LimiterStep, GateStep DEF LimiterInv, GateInv
<1> QED
  BY <1>1, <1>2, PTL DEF Spec

\* Limiter, gate and browser stay in the states their variables are declared for,
\* however the logins, the tabs, the clocks and the restarts fall.
THEOREM TypeCorrect == Spec => []TypeOK
<1>1. LimiterInv /\ GateInv => TypeOK
  BY DEF LimiterInv, GateInv, GateTypeOK, TypeOK
<1> QED
  BY <1>1, AlwaysInv, PTL

\* The limiter counts exactly the failures of the last Window, at every instant of
\* it, although it prunes only when it is asked about some address.
THEOREM CountsExact == Spec => []CountsAreExact
BY AlwaysInv, ExactFollows, PTL

\* Handlers that compare passwords at once carry a window over its limit by less
\* than their number, for any number of them.
THEOREM OverrunBounded == Spec => []OverrunIsBounded
BY AlwaysInv, RoomFollows, PTL

\* Who waits as Retry-After says is refused for his address's sake again fewer
\* times than there are handlers at once, so never when logins come one at a time.
THEOREM WaitingWorks == Spec => []WaitingAsToldWorks
BY AlwaysInv, ToldFollows, PTL

\* A browser that was sent to log in is let through to nothing before it has,
\* whatever its other tabs were answered meanwhile.
THEOREM SignedOut == Spec => []SignedOutStaysOut
<1>1. GateInv => SignedOutStaysOut
  BY DEF GateInv, RequestInv, Fits, SignedOutStaysOut
<1> QED
  BY <1>1, AlwaysInv, PTL

\* What is changed is changed from the page of the very login it is done under.
THEOREM ChangesFromPage == Spec => []ChangesComeFromTheirPage
<1>1. GateInv => ChangesComeFromTheirPage
  BY DEF GateInv, RequestInv, Fits, FromPages, ChangesComeFromTheirPage
<1> QED
  BY <1>1, AlwaysInv, PTL

\* A login lasts its TTL to the second, by a wall clock that may be set back and
\* under the secret it was signed with, and for every TTL and resolution.
THEOREM LoginLasts == Spec => LoginLastsTTL
<1> DEFINE Lasts ==
      \A t \in Tabs : Judged(t) /\ req[t].cookie # None =>
          LET s == issued[req[t].cookie] IN
          IF req'[t].answer = "toLogin" /\ req[t].kind # "logout"
            THEN s.secret = secret => Age(req[t].cookie) > TTL - PerSecond
            ELSE req'[t].answer # "toLogin" =>
                    s.secret = secret /\ Age(req[t].cookie) < TTL + setBack
<1>1. (LimiterInv /\ GateInv) /\ [Next]_vars => [Lasts]_vars
  <2> SUFFICES ASSUME LimiterInv, GateInv, Next PROVE Lasts
    OBVIOUS
  <2>1. LimiterTypeOK
    BY DEF LimiterInv
  <2>2. \A t \in Tabs : Judged(t) => HandleProtected(t)
    BY <2>1, JudgedIsHandled
  <2> QED
    BY <2>1, <2>2, JudgementIsTimely
<1>2. Spec => [][Lasts]_vars
  <2> HIDE DEF Lasts
  <2> QED
    BY <1>1, AlwaysInv, PTL DEF Spec
<1> QED
  BY <1>2 DEF LoginLastsTTL
=============================================================================
