---------------------------- MODULE Edges_proofs ----------------------------
(***************************************************************************)
(* What holds of the four parts for any constants, each by an inductive    *)
(* invariant of its own: the capture end keeps the speech it hears and its *)
(* order; the speaking end announces whole sentences; the prototype's      *)
(* sentinels come last, a stop costs it at most one chunk, and its line of *)
(* words is kept; and every part of every behaviour is well typed.         *)
(***************************************************************************)
EXTENDS MCEdges, TextUtils_proofs, SequenceTheorems, WellFoundedInduction

-----------------------------------------------------------------------------
(***************************************************************************)
(* The capture end.  What is still to come is in three parts that follow   *)
(* each other: the segment in hand, what the segmenter keeps, the frames.  *)
(***************************************************************************)
-----------------------------------------------------------------------------
(* The least and the greatest of some positions.                           *)

LEMMA Smallest ==
  ASSUME NEW S \in SUBSET Nat, S # {}
  PROVE  \E x \in S : \A y \in S : x <= y
<1> DEFINE R == OpToRel(<, Nat)
<1>1. IsWellFoundedOn(R, Nat)
  BY NatLessThanWellFounded, Zenon
<1>2. \A x, y \in Nat : x < y => <<x, y>> \in R
  BY Zenon DEF OpToRel
<1> HIDE DEF R
<1>3. PICK x \in S : \A y \in S : ~(<<y, x>> \in R)
  BY <1>1, WFMin
<1>4. \A y \in S : y \in Nat /\ ~(y < x)
  BY <1>2, <1>3
<1> QED
  BY <1>3, <1>4

LEMMA Largest ==
  ASSUME NEW n \in Nat, NEW S \in SUBSET (1 .. n), S # {}
  PROVE  \E x \in S : \A y \in S : y <= x
<1> DEFINE T == {n - x : x \in S}
<1>1. \A x \in S : n - x \in Nat /\ x \in Nat
  OBVIOUS
<1>2. T \in SUBSET Nat /\ T # {}
  BY <1>1, Zenon
<1>3. PICK t \in T : \A u \in T : t <= u
  BY <1>2, Smallest
<1>4. PICK x \in S : t = n - x
  BY <1>3
<1>5. \A y \in S : n - x <= n - y
  BY <1>3, <1>4
<1> QED
  BY <1>1, <1>4, <1>5

\* The place of the first usable backend is that of a usable one, if there is any.
LEMMA FirstUsableIs ==
  ASSUME NEW order, Len(order) \in Nat, NEW available
  PROVE  LET I == {i \in 1 .. Len(order) : order[i] \in available}
         IN  FirstUsable(order, available) \in (IF I # {} THEN I ELSE {0})
<1> DEFINE I == {i \in 1 .. Len(order) : order[i] \in available}
<1>1. FirstUsable(order, available) = IF I # {} THEN Min(I) ELSE 0
  BY Zenon DEF FirstUsable, SelectInSeq
<1>2. I # {} => Min(I) \in I
  <2>1. I \subseteq Nat
    OBVIOUS
  <2>2. I # {} => \E x \in I : \A y \in I : x <= y
    BY <2>1, Smallest
  <2> HIDE DEF I
  <2> QED
    BY <2>2, Zenon DEF Min
<1> QED
  BY <1>1, <1>2, Zenon

\* A manager selects what was requested or one of its registry, or none.
LEMMA SelectType ==
  ASSUME NEW order, Len(order) \in Nat, NEW requested, NEW available
  PROVE  \/ Select(requested, order, available) = requested
         \/ Select(requested, order, available) = NoBackend
         \/ \E i \in 1 .. Len(order) : Select(requested, order, available) = order[i]
<1>1. FirstUsable(order, available) # 0 => FirstUsable(order, available) \in 1 .. Len(order)
  BY FirstUsableIs, Zenon
<1> QED
  BY <1>1, Zenon DEF Select

\* With one that is available it selects one of them.
LEMMA SelectSome ==
  ASSUME NEW order, Len(order) \in Nat, NEW requested, NEW available,
         NEW k \in 1 .. Len(order), order[k] \in available
  PROVE  \/ Select(requested, order, available) = requested
         \/ \E i \in 1 .. Len(order) : Select(requested, order, available) = order[i]
<1>1. FirstUsable(order, available) \in {i \in 1 .. Len(order) : order[i] \in available}
  BY FirstUsableIs, Zenon
<1>2. FirstUsable(order, available) \in 1 .. Len(order)
  BY <1>1
<1>3. FirstUsable(order, available) # 0
  BY <1>2
<1> QED
  BY <1>2, <1>3, Zenon DEF Select

-----------------------------------------------------------------------------
(***************************************************************************)
(* Audio by its frames: their numbers, those of speech, and whether they   *)
(* are in the order of their recording.                                    *)
(***************************************************************************)
Ats(audio) == {audio[i].at : i \in 1 .. Len(audio)}

InOrder(audio) == \A i, j \in 1 .. Len(audio) : i < j => audio[i].at < audio[j].at

Precede(A, B) == \A m \in A, n \in B : m < n

Spoken1(frame) == IF frame.voiced THEN {frame.at} ELSE {}

LEMMA FrameType == ASSUME NEW f \in Frame PROVE f.at \in Nat /\ f.voiced \in BOOLEAN
BY DEF Frame

LEMMA AudioType ==
  ASSUME NEW audio \in Seq(Frame)
  PROVE  /\ Len(audio) \in Nat /\ VoicedAt(audio) \subseteq 1 .. Len(audio)
         /\ Numbers(audio) \subseteq Ats(audio) /\ Ats(audio) \subseteq Nat
         /\ \A i \in 1 .. Len(audio) : audio[i] \in Frame
<1>1. \A i \in 1 .. Len(audio) : audio[i] \in Frame
  OBVIOUS
<1>2. Ats(audio) \subseteq Nat
  BY <1>1, FrameType DEF Ats
<1> QED
  BY <1>1, <1>2 DEF VoicedAt, Numbers, Ats

LEMMA NoAudio ==
  /\ Ats(<<>>) = {} /\ Numbers(<<>>) = {} /\ InOrder(<<>>) /\ <<>> \in Seq(Frame)
  /\ Len(<<>>) = 0
BY DEF Ats, Numbers, VoicedAt, InOrder

LEMMA AppendAudio ==
  ASSUME NEW audio \in Seq(Frame), NEW f \in Frame
  PROVE  /\ Append(audio, f) \in Seq(Frame) /\ Len(Append(audio, f)) = Len(audio) + 1
         /\ Ats(Append(audio, f)) = Ats(audio) \cup {f.at}
         /\ Numbers(Append(audio, f)) = Numbers(audio) \cup Spoken1(f)
         /\ InOrder(audio) /\ Precede(Ats(audio), {f.at}) => InOrder(Append(audio, f))
<1> DEFINE l == Append(audio, f)
           n == Len(audio)
<1>1. /\ l \in Seq(Frame) /\ Len(l) = n + 1 /\ n \in Nat
      /\ \A i \in 1 .. n : l[i] = audio[i]
      /\ l[n + 1] = f
  OBVIOUS
<1> HIDE DEF l
<1>2. 1 .. Len(l) = (1 .. n) \cup {n + 1}
  BY <1>1
<1>3. Ats(l) = Ats(audio) \cup {f.at}
  BY <1>1, <1>2 DEF Ats
<1>4. Numbers(l) = Numbers(audio) \cup Spoken1(f)
  <2>1. VoicedAt(l) = VoicedAt(audio) \cup (IF f.voiced THEN {n + 1} ELSE {})
    <3>1. VoicedAt(l) = {i \in (1 .. n) \cup {n + 1} : l[i].voiced}
      BY <1>2, Zenon DEF VoicedAt
    <3>2. VoicedAt(audio) = {i \in 1 .. n : l[i].voiced}
      BY <1>1 DEF VoicedAt
    <3>3. l[n + 1].voiced = f.voiced
      BY <1>1
    <3> QED
      BY <3>1, <3>2, <3>3
  <2>2. \A i \in VoicedAt(audio) : l[i].at = audio[i].at
    BY <1>1 DEF VoicedAt
  <2>3. Numbers(l) = {l[i].at : i \in VoicedAt(audio) \cup (IF f.voiced THEN {n + 1} ELSE {})}
    BY <2>1, Zenon DEF Numbers
  <2>4. Numbers(audio) = {l[i].at : i \in VoicedAt(audio)}
    BY <2>2 DEF Numbers
  <2> QED
    BY <1>1, <2>3, <2>4 DEF Spoken1
<1>5. ASSUME InOrder(audio), Precede(Ats(audio), {f.at})
      PROVE  InOrder(l)
  <2> SUFFICES ASSUME NEW i \in 1 .. Len(l), NEW j \in 1 .. Len(l), i < j
               PROVE  l[i].at < l[j].at
    BY DEF InOrder
  <2>1. i \in 1 .. n
    BY <1>1
  <2>2. CASE j \in 1 .. n
    BY <1>1, <1>5, <2>1, <2>2 DEF InOrder
  <2>3. CASE j = n + 1
    <3>1. audio[i].at \in Ats(audio)
      BY <2>1 DEF Ats
    <3> QED
      BY <1>1, <1>5, <2>1, <2>3, <3>1 DEF Precede
  <2> QED
    BY <1>2, <2>2, <2>3
<1> QED
  BY <1>1, <1>3, <1>4, <1>5 DEF l

LEMMA ConcatAudio ==
  ASSUME NEW a \in Seq(Frame), NEW b \in Seq(Frame)
  PROVE  /\ a \o b \in Seq(Frame)
         /\ Ats(a \o b) = Ats(a) \cup Ats(b)
         /\ Numbers(a \o b) = Numbers(a) \cup Numbers(b)
         /\ InOrder(a) /\ InOrder(b) /\ Precede(Ats(a), Ats(b)) => InOrder(a \o b)
<1> DEFINE l == a \o b
           m == Len(a)
           n == Len(b)
<1>1. /\ l \in Seq(Frame) /\ Len(l) = m + n /\ m \in Nat /\ n \in Nat
      /\ \A i \in 1 .. m : l[i] = a[i]
      /\ \A i \in 1 .. n : l[m + i] = b[i]
  OBVIOUS
<1> HIDE DEF l
<1>2. /\ \A i \in 1 .. m : i \in 1 .. Len(l)
      /\ \A i \in 1 .. n : m + i \in 1 .. Len(l)
      /\ \A i \in 1 .. Len(l) : i \in 1 .. m \/ (i - m \in 1 .. n /\ m + (i - m) = i)
  BY <1>1
<1>3. Ats(l) = Ats(a) \cup Ats(b)
  <2>1. Ats(l) \subseteq Ats(a) \cup Ats(b)
    <3> SUFFICES ASSUME NEW i \in 1 .. Len(l) PROVE l[i].at \in Ats(a) \cup Ats(b)
      BY DEF Ats
    <3>1. CASE i \in 1 .. m
      BY <1>1, <3>1 DEF Ats
    <3>2. CASE i - m \in 1 .. n /\ m + (i - m) = i
      <4>1. l[i] = b[i - m]
        BY <1>1, <3>2
      <4> QED
        BY <3>2, <4>1 DEF Ats
    <3> QED
      BY <1>2, <3>1, <3>2
  <2>2. Ats(a) \subseteq Ats(l)
    BY <1>1, <1>2 DEF Ats
  <2>3. Ats(b) \subseteq Ats(l)
    BY <1>1, <1>2 DEF Ats
  <2> QED
    BY <2>1, <2>2, <2>3
<1>4. Numbers(l) = Numbers(a) \cup Numbers(b)
  <2>1. Numbers(l) \subseteq Numbers(a) \cup Numbers(b)
    <3> SUFFICES ASSUME NEW i \in 1 .. Len(l), l[i].voiced
                 PROVE  l[i].at \in Numbers(a) \cup Numbers(b)
      BY DEF Numbers, VoicedAt
    <3>1. CASE i \in 1 .. m
      BY <1>1, <3>1 DEF Numbers, VoicedAt
    <3>2. CASE i - m \in 1 .. n /\ m + (i - m) = i
      <4>1. l[i] = b[i - m]
        BY <1>1, <3>2
      <4> QED
        BY <3>2, <4>1 DEF Numbers, VoicedAt
    <3> QED
      BY <1>2, <3>1, <3>2
  <2>2. Numbers(a) \subseteq Numbers(l)
    <3> SUFFICES ASSUME NEW i \in 1 .. m, a[i].voiced PROVE a[i].at \in Numbers(l)
      BY DEF Numbers, VoicedAt
    <3> QED
      BY <1>1, <1>2 DEF Numbers, VoicedAt
  <2>3. Numbers(b) \subseteq Numbers(l)
    <3> SUFFICES ASSUME NEW i \in 1 .. n, b[i].voiced PROVE b[i].at \in Numbers(l)
      BY DEF Numbers, VoicedAt
    <3>1. l[m + i] = b[i] /\ m + i \in 1 .. Len(l)
      BY <1>1, <1>2
    <3> QED
      BY <3>1 DEF Numbers, VoicedAt
  <2> QED
    BY <2>1, <2>2, <2>3
<1>5. ASSUME InOrder(a), InOrder(b), Precede(Ats(a), Ats(b))
      PROVE  InOrder(l)
  <2> SUFFICES ASSUME NEW i \in 1 .. Len(l), NEW j \in 1 .. Len(l), i < j
               PROVE  l[i].at < l[j].at
    BY DEF InOrder
  <2>1. CASE i \in 1 .. m /\ j \in 1 .. m
    BY <1>1, <1>5, <2>1 DEF InOrder
  <2>2. CASE i \in 1 .. m /\ j - m \in 1 .. n /\ m + (j - m) = j
    <3>1. l[i] = a[i] /\ l[j] = b[j - m]
      BY <1>1, <2>2
    <3>2. a[i].at \in Ats(a) /\ b[j - m].at \in Ats(b)
      BY <2>2 DEF Ats
    <3> QED
      BY <1>5, <3>1, <3>2 DEF Precede
  <2>3. CASE /\ i - m \in 1 .. n /\ m + (i - m) = i
             /\ j - m \in 1 .. n /\ m + (j - m) = j
    <3>1. l[i] = b[i - m] /\ l[j] = b[j - m]
      BY <1>1, <2>3
    <3>2. i - m < j - m
      BY <1>1
    <3> QED
      BY <1>5, <2>3, <3>1, <3>2 DEF InOrder
  <2>4. ~(i - m \in 1 .. n /\ j \in 1 .. m)
    BY <1>1
  <2> QED
    BY <1>2, <2>1, <2>2, <2>3, <2>4
<1> QED
  BY <1>1, <1>3, <1>4, <1>5 DEF l

\* The first frame and the rest.
LEMMA TailAudio ==
  ASSUME NEW audio \in Seq(Frame), audio # <<>>
  PROVE  /\ Head(audio) \in Frame /\ Tail(audio) \in Seq(Frame)
         /\ Head(audio).at \in Ats(audio)
         /\ Ats(audio) = {Head(audio).at} \cup Ats(Tail(audio))
         /\ Numbers(audio) = Spoken1(Head(audio)) \cup Numbers(Tail(audio))
         /\ InOrder(audio) => /\ InOrder(Tail(audio))
                              /\ Precede({Head(audio).at}, Ats(Tail(audio)))
<1> DEFINE f == Head(audio)
           l == Tail(audio)
           n == Len(audio)
<1>1. /\ f \in Frame /\ l \in Seq(Frame) /\ n \in Nat /\ n >= 1 /\ Len(l) = n - 1
      /\ f = audio[1] /\ \A i \in 1 .. n - 1 : l[i] = audio[i + 1]
  OBVIOUS
<1> HIDE DEF f, l
<1>2. /\ 1 \in 1 .. n /\ \A i \in 1 .. n - 1 : i + 1 \in 1 .. n
      /\ \A i \in 1 .. n : i = 1 \/ (i - 1 \in 1 .. n - 1 /\ (i - 1) + 1 = i)
  BY <1>1
<1>3. f.at \in Ats(audio)
  BY <1>1, <1>2 DEF Ats
<1>4. Ats(l) \subseteq Ats(audio)
  BY <1>1, <1>2 DEF Ats
<1>5. Ats(audio) \subseteq {f.at} \cup Ats(l)
  <2> SUFFICES ASSUME NEW i \in 1 .. n PROVE audio[i].at \in {f.at} \cup Ats(l)
    BY DEF Ats
  <2>1. CASE i = 1
    BY <1>1, <2>1
  <2>2. CASE i - 1 \in 1 .. n - 1 /\ (i - 1) + 1 = i
    <3>1. l[i - 1] = audio[i]
      BY <1>1, <2>2
    <3> QED
      BY <1>1, <2>2, <3>1 DEF Ats
  <2> QED
    BY <1>2, <2>1, <2>2
<1>6. Numbers(audio) = Spoken1(f) \cup Numbers(l)
  <2>1. Numbers(audio) \subseteq Spoken1(f) \cup Numbers(l)
    <3> SUFFICES ASSUME NEW i \in 1 .. n, audio[i].voiced
                 PROVE  audio[i].at \in Spoken1(f) \cup Numbers(l)
      BY DEF Numbers, VoicedAt
    <3>1. CASE i = 1
      BY <1>1, <3>1 DEF Spoken1
    <3>2. CASE i - 1 \in 1 .. n - 1 /\ (i - 1) + 1 = i
      <4>1. l[i - 1] = audio[i]
        BY <1>1, <3>2
      <4> QED
        BY <1>1, <3>2, <4>1 DEF Numbers, VoicedAt
    <3> QED
      BY <1>2, <3>1, <3>2
  <2>2. Spoken1(f) \subseteq Numbers(audio)
    BY <1>1, <1>2 DEF Spoken1, Numbers, VoicedAt
  <2>3. Numbers(l) \subseteq Numbers(audio)
    <3> SUFFICES ASSUME NEW i \in 1 .. n - 1, l[i].voiced PROVE l[i].at \in Numbers(audio)
      BY <1>1 DEF Numbers, VoicedAt
    <3>1. l[i] = audio[i + 1] /\ i + 1 \in 1 .. n
      BY <1>1, <1>2
    <3> QED
      BY <3>1 DEF Numbers, VoicedAt
  <2> QED
    BY <2>1, <2>2, <2>3
<1>7. ASSUME InOrder(audio)
      PROVE  InOrder(l) /\ Precede({f.at}, Ats(l))
  <2>1. InOrder(l)
    <3> SUFFICES ASSUME NEW i \in 1 .. n - 1, NEW j \in 1 .. n - 1, i < j
                 PROVE  l[i].at < l[j].at
      BY <1>1 DEF InOrder
    <3>1. l[i] = audio[i + 1] /\ l[j] = audio[j + 1] /\ i + 1 < j + 1
      BY <1>1
    <3> QED
      BY <1>2, <1>7, <3>1 DEF InOrder
  <2>2. ASSUME NEW i \in 1 .. n - 1 PROVE f.at < l[i].at
    <3>1. l[i] = audio[i + 1] /\ 1 < i + 1 /\ i + 1 \in 1 .. n /\ 1 \in 1 .. n
      BY <1>1, <1>2
    <3> QED
      BY <1>1, <1>7, <3>1 DEF InOrder
  <2> QED
    BY <1>1, <2>1, <2>2 DEF Precede, Ats
<1> QED
  BY <1>1, <1>3, <1>4, <1>5, <1>6, <1>7 DEF f, l

\* What is trimmed off is no speech, and what is left is in order.
LEMMA TrimmedAudio ==
  ASSUME NEW audio \in Seq(Frame), VoicedAt(audio) # {}
  PROVE  /\ Trimmed(audio) \in Seq(Frame)
         /\ Ats(Trimmed(audio)) \subseteq Ats(audio)
         /\ Numbers(Trimmed(audio)) = Numbers(audio)
         /\ InOrder(audio) => InOrder(Trimmed(audio))
<1> DEFINE V == VoicedAt(audio)
           a == FirstVoiced(audio)
           b == LastVoiced(audio)
           l == Trimmed(audio)
           n == Len(audio)
<1>1. n \in Nat /\ V \subseteq 1 .. n /\ V \subseteq Nat
  BY AudioType
<1>2. a \in V /\ \A i \in V : a <= i
  <2>1. \E x \in V : \A y \in V : x <= y
    BY <1>1, Smallest
  <2> QED
    BY <2>1, Zenon DEF FirstVoiced
<1>3. b \in V /\ \A i \in V : i <= b
  <2>1. \E x \in V : \A y \in V : y <= x
    BY <1>1, Largest
  <2> QED
    BY <2>1, Zenon DEF LastVoiced
<1> HIDE DEF a, b
<1>4. a \in 1 .. n /\ b \in 1 .. n /\ a <= b
  BY <1>1, <1>2, <1>3
<1>5. /\ l = SubSeq(audio, a, b) /\ l \in Seq(Frame) /\ Len(l) = (b - a) + 1
      /\ \A i \in 1 .. (b - a) + 1 : l[i] = audio[(a + i) - 1]
  <2>1. l = SubSeq(audio, a, b)
    BY DEF a, b, Trimmed
  <2>2. \A c, d \in 1 .. n : c <= d =>
          /\ SubSeq(audio, c, d) \in Seq(Frame) /\ Len(SubSeq(audio, c, d)) = (d - c) + 1
          /\ \A i \in 1 .. (d - c) + 1 : SubSeq(audio, c, d)[i] = audio[(c + i) - 1]
    OBVIOUS
  <2> QED
    BY <1>4, <2>1, <2>2
<1> HIDE DEF l
<1>6. \A i \in 1 .. Len(l) : (a + i) - 1 \in 1 .. n /\ l[i] = audio[(a + i) - 1]
  BY <1>1, <1>4, <1>5
<1>7. Ats(l) \subseteq Ats(audio)
  BY <1>6 DEF Ats
<1>8. Numbers(l) \subseteq Numbers(audio)
  <2> SUFFICES ASSUME NEW i \in 1 .. Len(l), l[i].voiced PROVE l[i].at \in Numbers(audio)
    BY DEF Numbers, VoicedAt
  <2> QED
    BY <1>6 DEF Numbers, VoicedAt
<1>9. Numbers(audio) \subseteq Numbers(l)
  <2> SUFFICES ASSUME NEW i \in V PROVE audio[i].at \in Numbers(l)
    BY DEF Numbers
  <2>1. a <= i /\ i <= b /\ i \in Nat
    BY <1>1, <1>2, <1>3
  <2>2. (i - a) + 1 \in 1 .. (b - a) + 1 /\ (a + ((i - a) + 1)) - 1 = i
    BY <1>1, <1>4, <2>1
  <2>3. l[(i - a) + 1] = audio[i] /\ (i - a) + 1 \in 1 .. Len(l)
    BY <1>5, <2>2
  <2>4. audio[i].voiced
    BY DEF VoicedAt
  <2> QED
    BY <2>3, <2>4 DEF Numbers, VoicedAt
<1>10. InOrder(audio) => InOrder(l)
  <2> SUFFICES ASSUME InOrder(audio), NEW i \in 1 .. Len(l), NEW j \in 1 .. Len(l), i < j
               PROVE  l[i].at < l[j].at
    BY DEF InOrder
  <2>1. (a + i) - 1 < (a + j) - 1
    BY <1>1, <1>4, <1>5
  <2> QED
    BY <1>6, <2>1 DEF InOrder
<1> QED
  BY <1>5, <1>7, <1>8, <1>9, <1>10 DEF l

\* The segmenter keeps what it is given, hands on all of it, or all but silence
\* at its ends.
LEMMA Extracted ==
  ASSUME NEW audio \in Seq(Frame), NEW silero \in BOOLEAN, NEW force \in BOOLEAN,
         NEW r, r = Extract(audio, silero, force)
  PROVE  /\ r.out \in Seq(Frame) /\ r.rest \in Seq(Frame) /\ Len(r.rest) < HardCap
         /\ \/ r.out = <<>> /\ r.rest = audio
            \/ /\ r.rest = <<>> /\ Ats(r.out) \subseteq Ats(audio)
               /\ Numbers(r.out) = Numbers(audio)
               /\ InOrder(audio) => InOrder(r.out)
         /\ force => r.rest = <<>> \/ Len(audio) < MinLength
<1>1. Len(audio) \in Nat /\ (audio # <<>> => Len(audio) >= 1)
  OBVIOUS
<1>2. HardCap \in Nat /\ HardCap >= 1 /\ MinLength \in Nat
  BY CaptureAssumption
<1>3. CASE r = Emitted(audio)
  <2>1. r.out = audio /\ r.rest = <<>>
    BY <1>3 DEF Emitted
  <2> QED
    BY <1>2, <2>1, NoAudio
<1>4. CASE r = Kept(audio) /\ Len(audio) < HardCap /\ (force => Len(audio) < MinLength \/ audio = <<>>)
  <2>1. r.out = <<>> /\ r.rest = audio
    BY <1>4 DEF Kept
  <2> QED
    BY <1>4, <2>1, NoAudio
<1>5. CASE r = Emitted(Trimmed(audio)) /\ VoicedAt(audio) # {}
  <2>1. r.out = Trimmed(audio) /\ r.rest = <<>>
    BY <1>5 DEF Emitted
  <2> QED
    BY <1>2, <1>5, <2>1, NoAudio, TrimmedAudio
<1>6. CASE audio = <<>>
  <2>1. Len(audio) = 0 /\ ~(Len(audio) >= HardCap) /\ ~(Len(audio) \in 1 .. HardCap - 1)
    BY <1>2, <1>6
  <2>2. r = Kept(audio)
    BY <1>6, <2>1, Zenon DEF Extract
  <2> QED
    BY <1>2, <1>4, <1>6, <2>1, <2>2
<1>7. CASE audio # <<>> /\ Len(audio) >= HardCap
  <2>1. ~(Len(audio) \in 1 .. HardCap - 1)
    BY <1>1, <1>2, <1>7
  <2>2. r = Emitted(audio)
    BY <1>7, <2>1, Zenon DEF Extract
  <2> QED
    BY <1>3, <2>2
<1>8. CASE audio # <<>> /\ Len(audio) < HardCap
  <2>1. Len(audio) \in 1 .. HardCap - 1
    BY <1>1, <1>2, <1>8
  <2>2. CASE ~silero
    <3>1. r = Fallback(audio, force)
      BY <1>8, <2>1, <2>2 DEF Extract
    <3> QED
      BY <1>1, <1>2, <1>3, <1>4, <1>8, <3>1 DEF Fallback
  <2>3. CASE silero /\ VoicedAt(audio) = {}
    <3>1. r = IF force THEN Emitted(audio) ELSE Kept(audio)
      BY <1>8, <2>1, <2>3 DEF Extract
    <3> QED
      BY <1>3, <1>4, <1>8, <3>1
  <2>4. CASE silero /\ VoicedAt(audio) # {}
    <3>1. r = IF force \/ Len(audio) - LastVoiced(audio) >= Pause
              THEN Emitted(Trimmed(audio)) ELSE Kept(audio)
      BY <1>1, <1>2, <1>8, <2>1, <2>4 DEF Extract
    <3> QED
      BY <1>4, <1>5, <1>8, <2>4, <3>1
  <2> QED
    BY <2>2, <2>3, <2>4
<1> QED
  BY <1>1, <1>2, <1>6, <1>7, <1>8

-----------------------------------------------------------------------------
(***************************************************************************)
(* The inductive invariant: a segment is in hand exactly while the worker  *)
(* has one, only the microphone with voice detection queues frames, and    *)
(* the three parts of what is coming follow each other.                    *)
(***************************************************************************)
InHandPlaces == {"yielded", "save", "transcribe"}

CaptureTyped ==
  /\ CaptureTypeOK
  /\ place \in InHandPlaces <=> segment # <<>>
  /\ mode # "vad" => frames = <<>> /\ pending = <<>>
  /\ place = "flush" => mode = "vad"
  /\ mode = "wav" /\ place \in {"loop", "get"} => delivered = 0
  /\ mode # "wav" => delivered <= MaxFrames
  /\ torn # {} => place = "done"

AtsComing == Ats(segment) \cup Ats(pending) \cup Ats(frames)
SpeechComing == Numbers(segment) \cup Numbers(pending) \cup Numbers(frames)

PartsInOrder ==
  /\ InOrder(segment) /\ InOrder(pending) /\ InOrder(frames)
  /\ Precede(Ats(segment), Ats(pending) \cup Ats(frames)) /\ Precede(Ats(pending), Ats(frames))
  /\ AtsComing \subseteq 1 .. delivered
  /\ Precede(transcribed, AtsComing)

SpeechAccounted ==
  /\ SpeechComing \subseteq voiced
  /\ place # "done" => /\ voiced = transcribed \cup faint \cup SpeechComing
                       /\ (transcribed \cup faint) \cap SpeechComing = {}

CaptureInv == CaptureTyped /\ PartsInOrder /\ SpeechAccounted

LEMMA CaptureInvKeeps == CaptureInv => CaptureTypeOK /\ SpeechKept
<1> SUFFICES ASSUME CaptureInv PROVE CaptureTypeOK /\ SpeechKept
  OBVIOUS
<1> USE DEF CaptureInv
<1>1. segment \in Seq(Frame) /\ pending \in Seq(Frame) /\ frames \in Seq(Frame)
  BY DEF CaptureTyped, CaptureTypeOK
<1> DEFINE two == segment \o pending
<1>2. /\ two \in Seq(Frame) /\ Ats(two) = Ats(segment) \cup Ats(pending)
      /\ Numbers(two) = Numbers(segment) \cup Numbers(pending)
      /\ InOrder(two)
  BY <1>1, ConcatAudio DEF PartsInOrder, Precede
<1> HIDE DEF two
<1>3. Precede(Ats(two), Ats(frames))
  BY <1>2 DEF PartsInOrder, Precede
<1>4. /\ Coming = two \o frames /\ Coming \in Seq(Frame) /\ Ats(Coming) = AtsComing
      /\ Numbers(Coming) = SpeechComing /\ InOrder(Coming)
  <2>1. Coming = two \o frames
    BY DEF Coming, two
  <2>2. InOrder(frames)
    BY DEF PartsInOrder
  <2>3. /\ two \o frames \in Seq(Frame) /\ Ats(two \o frames) = Ats(two) \cup Ats(frames)
        /\ Numbers(two \o frames) = Numbers(two) \cup Numbers(frames) /\ InOrder(two \o frames)
    BY <1>1, <1>2, <1>3, <2>2, ConcatAudio
  <2>4. Ats(two) \cup Ats(frames) = AtsComing /\ Numbers(two) \cup Numbers(frames) = SpeechComing
    BY <1>2 DEF AtsComing, SpeechComing
  <2> QED
    BY <2>1, <2>3, <2>4
<1>5. \A i \in 1 .. Len(Coming) : Coming[i].at \in AtsComing
  BY <1>4 DEF Ats
<1>6. \A n \in transcribed, i \in 1 .. Len(Coming) : n < Coming[i].at
  BY <1>5 DEF PartsInOrder, Precede
<1> QED
  BY <1>4, <1>6 DEF CaptureTyped, SpeechAccounted, SpeechKept, InOrder

LEMMA CaptureInitInv ==
  ASSUME CaptureFresh, stopped \in BOOLEAN, place \in {"loop", "done"}
  PROVE  CaptureInv
<1>1. /\ frames = <<>> /\ pending = <<>> /\ segment = <<>> /\ wavs = {} /\ voiced = {}
      /\ delivered = 0 /\ transcribed = {} /\ faint = {} /\ torn = {}
      /\ mode \in {"vad", "fixed", "wav"} /\ backend # NoBackend
  BY DEF CaptureFresh
<1>2. backend \in ToSet(SttOrder)
  <2>1. PICK requested \in ToSet(SttOrder), available \in SUBSET ToSet(SttOrder) :
          backend = Select(requested, SttOrder, available)
    BY DEF CaptureFresh
  <2>2. Len(SttOrder) = 3 /\ DOMAIN SttOrder = 1 .. Len(SttOrder)
    BY DEF SttOrder
  <2>3. backend = requested \/ \E i \in 1 .. Len(SttOrder) : backend = SttOrder[i]
    BY <1>1, <2>1, <2>2, SelectType
  <2> QED
    BY <2>2, <2>3 DEF ToSet
<1>3. device \in ToSet(Devices) \cup {NoBackend}
  <2>1. PICK works \in SUBSET ToSet(Devices) : device = Select(Head(Devices), Devices, works)
    BY DEF CaptureFresh, LoadedOn
  <2>2. Len(Devices) = 2 /\ DOMAIN Devices = 1 .. Len(Devices) /\ Head(Devices) = Devices[1]
    BY DEF Devices
  <2>3. device = NoBackend \/ \E i \in 1 .. Len(Devices) : device = Devices[i]
    BY <2>1, <2>2, SelectType
  <2> QED
    BY <2>2, <2>3 DEF ToSet
<1>4. Len(pending) < HardCap /\ delivered \in 0 .. MaxFrames + 1 /\ delivered <= MaxFrames
  BY <1>1, NoAudio, CaptureAssumption
<1>5. CaptureTyped
  BY <1>1, <1>2, <1>3, <1>4, NoAudio DEF CaptureTyped, CaptureTypeOK, InHandPlaces
<1>6. PartsInOrder
  BY <1>1, NoAudio DEF PartsInOrder, AtsComing, Precede
<1>7. SpeechAccounted
  BY <1>1, NoAudio DEF SpeechAccounted, SpeechComing
<1> QED
  BY <1>5, <1>6, <1>7 DEF CaptureInv

-----------------------------------------------------------------------------
(* How the audio moves.                                                    *)

audioVars == <<frames, pending, voiced, delivered, transcribed, faint>>

\* It stays where it is.
LEMMA QuietAudio ==
  ASSUME PartsInOrder, SpeechAccounted, UNCHANGED <<audioVars, segment>>,
         place' = "done" \/ place # "done"
  PROVE  PartsInOrder' /\ SpeechAccounted'
<1>1. UNCHANGED <<frames, pending, segment, voiced, delivered, transcribed, faint>>
  BY DEF audioVars
<1>2. UNCHANGED <<AtsComing, SpeechComing>>
  BY <1>1 DEF AtsComing, SpeechComing
<1> QED
  BY <1>1, <1>2 DEF PartsInOrder, SpeechAccounted

\* The thread ends, with or without a segment in hand.
LEMMA AudioLeft ==
  ASSUME PartsInOrder, SpeechAccounted, UNCHANGED audioVars, segment' = <<>>, place' = "done"
  PROVE  PartsInOrder' /\ SpeechAccounted'
<1>1. UNCHANGED <<frames, pending, voiced, delivered, transcribed, faint>>
  BY DEF audioVars
<1>2. Ats(segment') = {} /\ Numbers(segment') = {} /\ InOrder(segment')
  BY NoAudio
<1>3. AtsComing' \subseteq AtsComing /\ SpeechComing' \subseteq SpeechComing
  BY <1>1, <1>2 DEF AtsComing, SpeechComing
<1> QED
  BY <1>1, <1>2, <1>3 DEF PartsInOrder, SpeechAccounted, Precede

\* A frame that has just been recorded.
LEMMA NewFrameIs ==
  ASSUME delivered \in 0 .. MaxFrames, NEW speech \in BOOLEAN, Delivered(speech)
  PROVE  /\ NewFrame(speech) \in Frame /\ NewFrame(speech).at = delivered + 1
         /\ delivered' = delivered + 1
         /\ voiced' = voiced \cup Spoken1(NewFrame(speech))
         /\ Spoken1(NewFrame(speech)) \subseteq {delivered + 1}
<1>1. NewFrame(speech) \in Frame
  BY CaptureAssumption DEF NewFrame, Frame
<1>2. NewFrame(speech).at = delivered + 1 /\ NewFrame(speech).voiced = speech
  BY DEF NewFrame
<1>3. voiced' = voiced \cup Spoken1(NewFrame(speech))
  BY <1>2 DEF Delivered, Spoken1
<1> QED
  BY <1>1, <1>2, <1>3 DEF Delivered, Spoken1

\* The callback puts it behind all the others.
LEMMA FrameQueued ==
  ASSUME CaptureInv, NEW speech \in BOOLEAN, Callback(speech)
  PROVE  CaptureInv'
<1> USE DEF CaptureInv
<1> DEFINE f == NewFrame(speech)
<1>1. /\ mode = "vad" /\ place # "done" /\ delivered < MaxFrames
      /\ frames' = Append(frames, f) /\ Delivered(speech)
      /\ UNCHANGED <<mode, backend, device, stopped, pending, segment, place, wavs,
                     transcribed, faint, torn>>
  BY DEF Callback, source
<1>2. delivered \in 0 .. MaxFrames /\ delivered \in Nat /\ MaxFrames \in Nat
      /\ voiced \subseteq 1 .. delivered /\ frames \in Seq(Frame)
  BY <1>1, CaptureAssumption DEF CaptureTyped, CaptureTypeOK
<1>3. /\ f \in Frame /\ f.at = delivered + 1 /\ delivered' = delivered + 1
      /\ voiced' = voiced \cup Spoken1(f) /\ Spoken1(f) \subseteq {delivered + 1}
  BY <1>1, <1>2, NewFrameIs
<1> HIDE DEF f
<1>4. \A n \in AtsComing : n \in Nat /\ n < delivered + 1 /\ n \in 1 .. delivered + 1
  BY <1>2 DEF PartsInOrder
<1>5. Precede(Ats(frames), {f.at})
  BY <1>3, <1>4 DEF AtsComing, Precede
<1>6. /\ frames' \in Seq(Frame) /\ Ats(frames') = Ats(frames) \cup {delivered + 1}
      /\ Numbers(frames') = Numbers(frames) \cup Spoken1(f)
      /\ InOrder(frames')
  BY <1>1, <1>2, <1>3, <1>5, AppendAudio DEF PartsInOrder
<1>7. /\ AtsComing' = AtsComing \cup {delivered + 1}
      /\ SpeechComing' = SpeechComing \cup Spoken1(f)
  BY <1>1, <1>6 DEF AtsComing, SpeechComing
<1>8. transcribed \subseteq 1 .. delivered /\ faint \subseteq 1 .. delivered
      /\ delivered + 1 \notin 1 .. delivered
  BY <1>2 DEF CaptureTyped, CaptureTypeOK
<1>9. PartsInOrder'
  <2>1. AtsComing' \subseteq 1 .. delivered'
    BY <1>2, <1>3, <1>4, <1>7
  <2>2. Precede(transcribed, AtsComing')
    <3>1. \A n \in transcribed : n < delivered + 1
      BY <1>2, <1>8
    <3> QED
      BY <1>7, <3>1 DEF PartsInOrder, Precede
  <2>3. Precede(Ats(segment), Ats(pending) \cup Ats(frames')) /\ Precede(Ats(pending), Ats(frames'))
    BY <1>4, <1>6 DEF PartsInOrder, Precede, AtsComing
  <2> QED
    BY <1>1, <1>6, <2>1, <2>2, <2>3 DEF PartsInOrder
<1>10. SpeechAccounted'
  <2>1. (transcribed \cup faint) \cap Spoken1(f) = {}
    BY <1>3, <1>8
  <2> QED
    BY <1>1, <1>3, <1>7, <2>1 DEF SpeechAccounted
<1>11. CaptureTyped'
  <2>0. 1 .. delivered \subseteq 1 .. delivered' /\ delivered + 1 \in 1 .. delivered'
    BY <1>2, <1>3
  <2>1. voiced' \subseteq 1 .. delivered' /\ transcribed \subseteq voiced' /\ faint \subseteq voiced'
    BY <1>2, <1>3, <2>0 DEF CaptureTyped, CaptureTypeOK
  <2>2. wavs \subseteq 1 .. delivered' /\ delivered' \in 0 .. MaxFrames + 1 /\ delivered' <= MaxFrames
    BY <1>1, <1>2, <1>3 DEF CaptureTyped, CaptureTypeOK
  <2> QED
    BY <1>1, <1>6, <2>1, <2>2 DEF CaptureTyped, CaptureTypeOK
<1> QED
  BY <1>9, <1>10, <1>11

\* A fixed chunk or a file is a segment of its own.
LEMMA SegmentRecorded ==
  ASSUME CaptureInv, NEW speech \in BOOLEAN, mode # "vad", place = "get",
         delivered \in 0 .. MaxFrames, Delivered(speech), segment' = <<NewFrame(speech)>>,
         place' = "yielded", mode # "wav" => delivered < MaxFrames,
         UNCHANGED <<source, stopped, frames, pending, wavs, transcribed, faint, torn>>
  PROVE  CaptureInv'
<1> USE DEF CaptureInv
<1> DEFINE f == NewFrame(speech)
<1>1. UNCHANGED <<mode, backend, device, stopped, frames, pending, wavs, transcribed, faint, torn>>
  BY DEF source
<1>2. /\ delivered \in Nat /\ MaxFrames \in Nat /\ voiced \subseteq 1 .. delivered
      /\ frames = <<>> /\ pending = <<>> /\ segment = <<>>
  BY CaptureAssumption DEF CaptureTyped, CaptureTypeOK, InHandPlaces
<1>3. /\ f \in Frame /\ f.at = delivered + 1 /\ delivered' = delivered + 1
      /\ voiced' = voiced \cup Spoken1(f) /\ Spoken1(f) \subseteq {delivered + 1}
  BY NewFrameIs
<1> HIDE DEF f
<1>4. /\ segment' \in Seq(Frame) /\ segment' # <<>> /\ Ats(segment') = {delivered + 1}
      /\ Numbers(segment') = Spoken1(f) /\ InOrder(segment')
  <2>1. segment' = Append(<<>>, f)
    BY DEF f
  <2>2. Precede(Ats(<<>>), {f.at})
    BY NoAudio DEF Precede
  <2>3. /\ Append(<<>>, f) \in Seq(Frame) /\ Ats(Append(<<>>, f)) = Ats(<<>>) \cup {f.at}
        /\ Numbers(Append(<<>>, f)) = Numbers(<<>>) \cup Spoken1(f) /\ InOrder(Append(<<>>, f))
    BY <1>3, <2>2, NoAudio, AppendAudio
  <2> QED
    BY <1>3, <2>1, <2>3, NoAudio
<1>5. AtsComing' = {delivered + 1} /\ SpeechComing' = Spoken1(f) /\ SpeechComing = {}
  BY <1>1, <1>2, <1>4, NoAudio DEF AtsComing, SpeechComing
<1>6. transcribed \subseteq 1 .. delivered /\ faint \subseteq 1 .. delivered
  BY DEF CaptureTyped, CaptureTypeOK
<1>7. PartsInOrder'
  <2>1. AtsComing' \subseteq 1 .. delivered' /\ Precede(transcribed, AtsComing')
    BY <1>2, <1>3, <1>5, <1>6 DEF Precede
  <2> QED
    BY <1>1, <1>2, <1>4, <2>1, NoAudio DEF PartsInOrder, Precede
<1>8. SpeechAccounted'
  <2>1. (transcribed \cup faint) \cap Spoken1(f) = {}
    BY <1>2, <1>3, <1>6
  <2> QED
    BY <1>1, <1>3, <1>5, <2>1 DEF SpeechAccounted
<1>9. CaptureTyped'
  <2>0. 1 .. delivered \subseteq 1 .. delivered' /\ delivered + 1 \in 1 .. delivered'
    BY <1>2, <1>3
  <2>1. voiced' \subseteq 1 .. delivered' /\ transcribed \subseteq voiced' /\ faint \subseteq voiced'
    BY <1>2, <1>3, <2>0 DEF CaptureTyped, CaptureTypeOK
  <2>2. /\ wavs \subseteq 1 .. delivered' /\ delivered' \in 0 .. MaxFrames + 1
        /\ mode # "wav" => delivered' <= MaxFrames
    BY <1>2, <1>3 DEF CaptureTyped, CaptureTypeOK
  <2> QED
    BY <1>1, <1>4, <2>1, <2>2 DEF CaptureTyped, CaptureTypeOK, InHandPlaces
<1> QED
  BY <1>7, <1>8, <1>9

\* The segmenter hands on what it has heard, keeps it, or drops it as too short.
LEMMA AudioExtracted ==
  ASSUME CaptureInv, NEW audio \in Seq(Frame), NEW silero \in BOOLEAN, NEW force \in BOOLEAN,
         NEW otherwise \in {"loop", "done"},
         mode = "vad", segment = <<>>, place \in {"get", "flush"},
         Ats(audio) \cup Ats(frames') = Ats(pending) \cup Ats(frames),
         Numbers(audio) \cup Numbers(frames') = Numbers(pending) \cup Numbers(frames),
         InOrder(audio), InOrder(frames'), Precede(Ats(audio), Ats(frames')),
         frames' \in Seq(Frame),
         Yield(Extract(audio, silero, force), otherwise),
         Stay
  PROVE  CaptureInv'
<1> USE DEF CaptureInv
<1> DEFINE r == Extract(audio, silero, force)
<1>1. UNCHANGED <<mode, backend, device, stopped, wavs, voiced, delivered, transcribed, torn>>
  BY DEF Stay, source
<1>2. /\ r.out \in Seq(Frame) /\ r.rest \in Seq(Frame) /\ Len(r.rest) < HardCap
      /\ \/ r.out = <<>> /\ r.rest = audio
         \/ /\ r.rest = <<>> /\ Ats(r.out) \subseteq Ats(audio)
            /\ Numbers(r.out) = Numbers(audio)
            /\ InOrder(audio) => InOrder(r.out)
  BY Extracted
<1>3. /\ pending' = r.rest
      /\ \/ /\ Len(r.out) >= MinLength /\ segment' = r.out /\ place' = "yielded" /\ faint' = faint
         \/ /\ segment' = <<>> /\ faint' = faint \cup Numbers(r.out) /\ place' = otherwise
  BY DEF Yield
<1> HIDE DEF r
<1>4. Len(r.out) >= MinLength => r.out # <<>>
  BY CaptureAssumption, NoAudio
<1>5. Numbers(audio) \cap Numbers(frames') = {}
  <2>1. Numbers(audio) \subseteq Ats(audio) /\ Numbers(frames') \subseteq Ats(frames')
        /\ Ats(audio) \subseteq Nat
    BY AudioType
  <2> QED
    BY <2>1 DEF Precede
<1>6. /\ AtsComing = Ats(audio) \cup Ats(frames')
      /\ SpeechComing = Numbers(audio) \cup Numbers(frames')
  BY NoAudio DEF AtsComing, SpeechComing
<1>7. /\ segment' \in Seq(Frame) /\ pending' \in Seq(Frame) /\ InOrder(segment') /\ InOrder(pending')
      /\ Ats(segment') \subseteq Ats(audio) /\ Ats(pending') \subseteq Ats(audio)
      /\ Ats(segment') = {} \/ Ats(pending') = {}
      /\ \/ /\ Numbers(segment') \cup Numbers(pending') = Numbers(audio)
            /\ faint' = faint
         \/ /\ Numbers(segment') \cup Numbers(pending') = {}
            /\ faint' = faint \cup Numbers(audio)
  BY <1>2, <1>3, <1>4, NoAudio
<1>8. AtsComing' \subseteq AtsComing
  BY <1>6, <1>7 DEF AtsComing
<1>9. PartsInOrder'
  <2>1. Precede(Ats(segment'), Ats(pending') \cup Ats(frames')) /\ Precede(Ats(pending'), Ats(frames'))
    BY <1>7 DEF Precede
  <2>2. AtsComing' \subseteq 1 .. delivered' /\ Precede(transcribed', AtsComing')
    BY <1>1, <1>8 DEF PartsInOrder, Precede
  <2> QED
    BY <1>7, <2>1, <2>2 DEF PartsInOrder
<1>10. SpeechAccounted'
  <2>1. place # "done" /\ SpeechComing' = Numbers(segment') \cup Numbers(pending') \cup Numbers(frames')
    BY DEF SpeechComing
  <2>2. /\ SpeechComing \subseteq voiced /\ voiced = transcribed \cup faint \cup SpeechComing
        /\ (transcribed \cup faint) \cap SpeechComing = {}
    BY <2>1 DEF SpeechAccounted
  <2>3. CASE Numbers(segment') \cup Numbers(pending') = Numbers(audio) /\ faint' = faint
    BY <1>1, <1>6, <2>1, <2>2, <2>3 DEF SpeechAccounted
  <2>4. CASE Numbers(segment') \cup Numbers(pending') = {} /\ faint' = faint \cup Numbers(audio)
    <3>1. SpeechComing' = Numbers(frames')
      BY <2>1, <2>4
    <3>2. /\ voiced = transcribed \cup faint' \cup Numbers(frames')
          /\ (transcribed \cup faint') \cap Numbers(frames') = {} /\ Numbers(frames') \subseteq voiced
      BY <1>5, <1>6, <2>2, <2>4
    <3> QED
      BY <1>1, <3>1, <3>2 DEF SpeechAccounted
  <2> QED
    BY <1>7, <2>3, <2>4
<1>11. CaptureTyped'
  <2>1. Numbers(audio) \subseteq voiced
    BY <1>6 DEF SpeechAccounted
  <2>2. faint' \subseteq voiced'
    BY <1>1, <1>7, <2>1 DEF CaptureTyped, CaptureTypeOK
  <2>3. place' \in {"loop", "yielded", "done"} /\ (place' \in InHandPlaces <=> segment' # <<>>)
    BY <1>3, <1>4 DEF InHandPlaces
  <2>4. Len(pending') < HardCap
    BY <1>2, <1>3
  <2>5. torn = {}
    BY DEF CaptureTyped
  <2> QED
    BY <1>1, <1>7, <2>2, <2>3, <2>4, <2>5 DEF CaptureTyped, CaptureTypeOK, InHandPlaces
<1> QED
  BY <1>9, <1>10, <1>11

LEMMA FrameHeard ==
  ASSUME CaptureInv, NEW silero \in BOOLEAN, GetFrame(silero)
  PROVE  CaptureInv'
<1> USE DEF CaptureInv
<1> DEFINE f == Head(frames)
           audio == Append(pending, f)
<1>1. /\ mode = "vad" /\ place = "get" /\ frames # <<>> /\ frames' = Tail(frames)
      /\ Yield(Extract(audio, silero, FALSE), "loop") /\ Stay
  BY DEF GetFrame
<1>2. /\ frames \in Seq(Frame) /\ pending \in Seq(Frame) /\ segment = <<>>
  BY <1>1 DEF CaptureTyped, CaptureTypeOK, InHandPlaces
<1>3. /\ InOrder(frames) /\ InOrder(pending) /\ Precede(Ats(pending), Ats(frames))
  BY DEF PartsInOrder
<1>4. /\ f \in Frame /\ frames' \in Seq(Frame) /\ f.at \in Ats(frames)
      /\ Ats(frames) = {f.at} \cup Ats(frames')
      /\ Numbers(frames) = Spoken1(f) \cup Numbers(frames')
      /\ InOrder(frames') /\ Precede({f.at}, Ats(frames'))
  BY <1>1, <1>2, <1>3, TailAudio
<1>5. Precede(Ats(pending), {f.at})
  BY <1>3, <1>4 DEF Precede
<1> HIDE DEF f
<1>6. /\ audio \in Seq(Frame) /\ Ats(audio) = Ats(pending) \cup {f.at}
      /\ Numbers(audio) = Numbers(pending) \cup Spoken1(f) /\ InOrder(audio)
  BY <1>2, <1>3, <1>4, <1>5, AppendAudio
<1>7. Precede(Ats(audio), Ats(frames'))
  BY <1>3, <1>4, <1>6 DEF Precede
<1>8. /\ Ats(audio) \cup Ats(frames') = Ats(pending) \cup Ats(frames)
      /\ Numbers(audio) \cup Numbers(frames') = Numbers(pending) \cup Numbers(frames)
  BY <1>4, <1>6
<1> HIDE DEF audio
<1> QED
  BY <1>1, <1>2, <1>4, <1>6, <1>7, <1>8, AudioExtracted

LEMMA RestFlushed ==
  ASSUME CaptureInv, NEW silero \in BOOLEAN, Flush(silero)
  PROVE  CaptureInv'
<1> USE DEF CaptureInv
<1>1. /\ place = "flush" /\ mode = "vad" /\ frames' = frames
      /\ Yield(Extract(pending, silero, TRUE), "done") /\ Stay
  BY DEF Flush, CaptureTyped
<1>2. frames \in Seq(Frame) /\ pending \in Seq(Frame) /\ segment = <<>>
  BY <1>1 DEF CaptureTyped, CaptureTypeOK, InHandPlaces
<1>3. InOrder(frames) /\ InOrder(pending) /\ Precede(Ats(pending), Ats(frames))
  BY DEF PartsInOrder
<1> QED
  BY <1>1, <1>2, <1>3, AudioExtracted

\* What is transcribed, or turned out unreliable, was the first that was coming.
LEMMA SegmentTranscribed ==
  ASSUME CaptureInv, NEW signs \in SUBSET Signs, Transcribe(signs)
  PROVE  CaptureInv'
<1> USE DEF CaptureInv
<1> DEFINE words == Numbers(segment)
<1>1. /\ place = "transcribe" /\ segment' = <<>>
      /\ wavs' = wavs \ {Head(segment).at}
      /\ place' \in {"loop", "done"} /\ (mode = "wav" => place' = "done")
      /\ UNCHANGED <<mode, backend, device, stopped, frames, pending, voiced, delivered, torn>>
      /\ \/ transcribed' = transcribed \cup words /\ faint' = faint
         \/ transcribed' = transcribed /\ faint' = faint \cup words
  BY DEF Transcribe, source
<1>2. segment \in Seq(Frame) /\ words \subseteq Ats(segment)
  BY AudioType DEF CaptureTyped, CaptureTypeOK
<1>3. words \subseteq voiced /\ SpeechComing = words \cup Numbers(pending) \cup Numbers(frames)
  BY DEF SpeechAccounted, SpeechComing
<1>4. /\ AtsComing' = Ats(pending) \cup Ats(frames) /\ SpeechComing' = Numbers(pending) \cup Numbers(frames)
      /\ AtsComing = Ats(segment) \cup AtsComing'
  BY <1>1, NoAudio DEF AtsComing, SpeechComing
<1>5. Precede(words, AtsComing')
  BY <1>2, <1>4 DEF PartsInOrder, Precede
<1>6. words \cap SpeechComing' = {}
  <2>1. SpeechComing' \subseteq AtsComing'
    BY <1>4, AudioType DEF CaptureTyped, CaptureTypeOK
  <2>2. \A n \in words : n \in Nat
    BY <1>2, AudioType
  <2> QED
    BY <1>5, <2>1, <2>2 DEF Precede
<1> HIDE DEF words
<1>7. PartsInOrder'
  <2>1. Precede(transcribed', AtsComing')
    BY <1>1, <1>4, <1>5 DEF PartsInOrder, Precede
  <2> QED
    BY <1>1, <1>4, <2>1, NoAudio DEF PartsInOrder, Precede
<1>8. SpeechAccounted'
  <2>1. /\ voiced = transcribed \cup faint \cup SpeechComing
        /\ (transcribed \cup faint) \cap SpeechComing = {}
    BY <1>1 DEF SpeechAccounted
  <2>2. /\ SpeechComing = words \cup SpeechComing' /\ SpeechComing' \subseteq voiced
        /\ transcribed' \cup faint' = transcribed \cup faint \cup words
    BY <1>1, <1>3, <1>4, <2>1
  <2>3. /\ voiced = transcribed' \cup faint' \cup SpeechComing'
        /\ (transcribed' \cup faint') \cap SpeechComing' = {}
    BY <1>6, <2>1, <2>2
  <2> QED
    BY <1>1, <2>2, <2>3 DEF SpeechAccounted
<1>9. CaptureTyped'
  <2>1. transcribed' \subseteq voiced' /\ faint' \subseteq voiced'
    BY <1>1, <1>3 DEF CaptureTyped, CaptureTypeOK
  <2>2. torn = {} /\ wavs' \subseteq 1 .. delivered' /\ torn' \subseteq wavs'
    BY <1>1 DEF CaptureTyped, CaptureTypeOK
  <2> QED
    BY <1>1, <2>1, <2>2, NoAudio DEF CaptureTyped, CaptureTypeOK, InHandPlaces
<1> QED
  BY <1>7, <1>8, <1>9

-----------------------------------------------------------------------------
\* The steps by which the audio stays where it is, or is left with the thread.
LEMMA OtherCaptureSteps ==
  ASSUME CaptureInv,
         \/ SourceLoop \/ GetTimeout \/ StopCheck \/ Save \/ SaveFails
         \/ SourceFails \/ TranscribeFails \/ StopCapture \/ UNCHANGED capVars
  PROVE  CaptureInv'
<1> USE DEF CaptureInv
<1>1. segment # <<>> /\ segment \in Seq(Frame) => Head(segment).at \in 1 .. delivered
  BY TailAudio DEF PartsInOrder, AtsComing
<1>2. segment \in Seq(Frame)
  BY DEF CaptureTyped, CaptureTypeOK
<1>3. CASE SourceLoop
  <2>1. /\ place = "loop" /\ UNCHANGED <<frames, pending, segment, voiced, delivered, transcribed, faint>>
        /\ UNCHANGED <<mode, backend, device, stopped, wavs, torn>>
        /\ place' \in {"get", "flush", "done"} /\ (place' = "flush" => mode = "vad")
    <3>1. place' \in {"get", "flush", "done"} /\ (place' = "flush" => mode = "vad")
      <4>1. CASE mode = "wav"
        BY <1>3, <4>1 DEF SourceLoop
      <4>2. CASE mode = "vad"
        BY <1>3, <4>2 DEF SourceLoop
      <4>3. CASE mode = "fixed"
        BY <1>3, <4>3 DEF SourceLoop
      <4> QED
        BY <4>1, <4>2, <4>3 DEF CaptureTyped, CaptureTypeOK
    <3> QED
      BY <1>3, <3>1 DEF SourceLoop, Stay, source
  <2>2. CaptureTyped'
    BY <2>1 DEF CaptureTyped, CaptureTypeOK, InHandPlaces
  <2> QED
    BY <2>1, <2>2, QuietAudio DEF audioVars
<1>4. CASE GetTimeout
  <2>1. /\ place = "get" /\ UNCHANGED <<frames, pending, segment, voiced, delivered, transcribed, faint>>
        /\ UNCHANGED <<mode, backend, device, stopped, wavs, torn>> /\ place' = "loop"
    BY <1>4 DEF GetTimeout, Stay, source
  <2>2. CaptureTyped'
    BY <2>1 DEF CaptureTyped, CaptureTypeOK, InHandPlaces
  <2> QED
    BY <2>1, <2>2, QuietAudio DEF audioVars
<1>5. CASE StopCheck
  <2>1. /\ place = "yielded" /\ UNCHANGED <<frames, pending, voiced, delivered, transcribed, faint>>
        /\ UNCHANGED <<mode, backend, device, stopped, wavs, torn>>
        /\ \/ place' = "done" /\ segment' = <<>>
           \/ place' = "save" /\ segment' = segment
    BY <1>5 DEF StopCheck, Stay, source
  <2>2. CaptureTyped'
    BY <2>1, NoAudio DEF CaptureTyped, CaptureTypeOK, InHandPlaces
  <2> QED
    BY <2>1, <2>2, QuietAudio, AudioLeft DEF audioVars
<1>6. CASE Save
  <2>1. /\ place = "save" /\ UNCHANGED <<frames, pending, segment, voiced, delivered, transcribed, faint>>
        /\ UNCHANGED <<mode, backend, device, stopped, torn>>
        /\ place' = "transcribe" /\ wavs' = wavs \cup {Head(segment).at}
    BY <1>6 DEF Save, source, capHistory
  <2>2. CaptureTyped'
    BY <1>1, <2>1 DEF CaptureTyped, CaptureTypeOK, InHandPlaces
  <2> QED
    BY <2>1, <2>2, QuietAudio DEF audioVars
<1>7. CASE SaveFails
  <2>1. /\ place = "save" /\ UNCHANGED <<frames, pending, voiced, delivered, transcribed, faint>>
        /\ UNCHANGED <<mode, backend, device, stopped>>
        /\ place' = "done" /\ segment' = <<>>
        /\ wavs' = wavs \cup {Head(segment).at} /\ torn' = torn \cup {Head(segment).at}
    BY <1>7 DEF SaveFails, Crash, source
  <2>2. CaptureTyped'
    BY <1>1, <2>1, NoAudio DEF CaptureTyped, CaptureTypeOK, InHandPlaces
  <2> QED
    BY <2>1, <2>2, AudioLeft DEF audioVars
<1>8. CASE SourceFails \/ TranscribeFails
  <2>1. /\ place \in {"get", "transcribe"}
        /\ UNCHANGED <<frames, pending, voiced, delivered, transcribed, faint>>
        /\ UNCHANGED <<mode, backend, device, stopped, torn>>
        /\ place' = "done" /\ segment' = <<>>
        /\ wavs' \subseteq wavs
    BY <1>8 DEF SourceFails, TranscribeFails, Crash, source, capHistory
  <2>2. torn = {}
    BY <2>1 DEF CaptureTyped
  <2>3. CaptureTyped'
    BY <2>1, <2>2, NoAudio DEF CaptureTyped, CaptureTypeOK, InHandPlaces
  <2> QED
    BY <2>1, <2>3, AudioLeft DEF audioVars
<1>9. CASE StopCapture \/ UNCHANGED capVars
  <2>1. /\ UNCHANGED <<frames, pending, segment, voiced, delivered, transcribed, faint, place>>
        /\ UNCHANGED <<mode, backend, device, wavs, torn>> /\ stopped' \in BOOLEAN
    BY <1>9 DEF StopCapture, capVars, source, capHistory, CaptureTyped, CaptureTypeOK
  <2>2. CaptureTyped'
    BY <2>1 DEF CaptureTyped, CaptureTypeOK, InHandPlaces
  <2> QED
    BY <2>1, <2>2, QuietAudio DEF audioVars
<1> QED
  BY <1>3, <1>4, <1>5, <1>6, <1>7, <1>8, <1>9

LEMMA CaptureStepInv == CaptureInv /\ [CaptureNext]_capVars => CaptureInv'
<1> SUFFICES ASSUME CaptureInv, [CaptureNext]_capVars PROVE CaptureInv'
  OBVIOUS
<1>1. ASSUME NEW speech \in BOOLEAN, Record(speech)
      PROVE  CaptureInv'
  <2>1. mode = "fixed" /\ place = "get" /\ (stopped \/ delivered < MaxFrames)
        /\ UNCHANGED <<source, stopped, frames, pending, wavs, transcribed, faint, torn>>
    BY <1>1 DEF Record
  <2>2. CASE stopped
    <3>1. /\ place' = "done" /\ UNCHANGED <<segment, voiced, delivered>>
          /\ UNCHANGED <<mode, backend, device>>
      BY <1>1, <2>2 DEF Record, source
    <3>2. CaptureTyped'
      BY <2>1, <3>1 DEF CaptureInv, CaptureTyped, CaptureTypeOK, InHandPlaces
    <3> QED
      BY <2>1, <3>1, <3>2, QuietAudio DEF CaptureInv, audioVars
  <2>3. CASE ~stopped
    <3>1. segment' = <<NewFrame(speech)>> /\ Delivered(speech) /\ place' = "yielded"
      BY <1>1, <2>3 DEF Record
    <3>2. delivered \in 0 .. MaxFrames /\ delivered < MaxFrames
      BY <2>1, <2>3, CaptureAssumption DEF CaptureInv, CaptureTyped, CaptureTypeOK
    <3> QED
      BY <2>1, <3>1, <3>2, SegmentRecorded
  <2> QED
    BY <2>2, <2>3
<1>2. CASE ReadWav
  <2>1. /\ mode = "wav" /\ place = "get" /\ segment' = <<NewFrame(TRUE)>> /\ Delivered(TRUE)
        /\ place' = "yielded"
        /\ UNCHANGED <<source, stopped, frames, pending, wavs, transcribed, faint, torn>>
    BY <1>2 DEF ReadWav
  <2>2. delivered \in 0 .. MaxFrames
    BY <2>1, CaptureAssumption DEF CaptureInv, CaptureTyped
  <2> QED
    BY <2>1, <2>2, SegmentRecorded
<1>3. CASE CaptureFinished
  BY <1>3, OtherCaptureSteps DEF CaptureFinished
<1> QED
  BY <1>1, <1>2, <1>3, FrameQueued, FrameHeard, RestFlushed, SegmentTranscribed,
     OtherCaptureSteps DEF CaptureNext, CaptureWork

\* The capture thread is well typed, and what the segmenter keeps is shorter than
\* the hard cap, whatever Silero says (VadSegmenter.push).
THEOREM CaptureTypes == CaptureSpec => []CaptureTypeOK
<1>1. CaptureInit => CaptureInv
  BY CaptureInitInv DEF CaptureInit
<1>2. CaptureInv => CaptureTypeOK
  BY CaptureInvKeeps
<1> QED
  BY <1>1, <1>2, CaptureStepInv, PTL DEF CaptureSpec

\* No speech is lost on the way to the transcription, or comes twice or out of
\* order, whatever the lengths, the pauses and the verdicts on the frames.
THEOREM CaptureKeepsSpeech == CaptureSpec => []SpeechKept
<1>1. CaptureInit => CaptureInv
  BY CaptureInitInv DEF CaptureInit
<1>2. CaptureInv => SpeechKept
  BY CaptureInvKeeps
<1> QED
  BY <1>1, <1>2, CaptureStepInv, PTL DEF CaptureSpec

-----------------------------------------------------------------------------
(***************************************************************************)
(* The speaking end.  A cached file in part is being written or is known to *)
(* be cut; two callers that have a file in hand at once are known to clash; *)
(* and who writes a file alone is the one who opened it.                   *)
(***************************************************************************)
Hands == {"copy", "write", "close"}

Tainted(t) == t \in cut \cup clash

\* The state of the calls, the directory and the history.
SpeechTyped ==
  /\ at \in [Callers -> Places] /\ key \in [Callers -> Keys]
  /\ tries \in [Callers -> 0 .. Attempts - 1] /\ out \in [Callers -> Contents]
  /\ cache \in [Keys -> Contents] /\ opener \in [Keys -> Callers \cup {Nobody}]
  /\ served \subseteq [key : Keys, audio : Contents]
  /\ cut \subseteq Keys /\ clash \subseteq Keys

\* Two who have the same file in hand clash.
HandsClash ==
  \A c, d \in Callers :
    c # d /\ at[c] \in Hands /\ at[d] \in Hands /\ key[c] = key[d] => key[c] \in clash

\* Who writes a file alone opened it last.
WriterOpened ==
  \A c \in Callers :
    at[c] \in {"write", "close"} => opener[key[c]] = c \/ key[c] \in clash

\* A file in part is being written, or known to be cut or disputed.
PartAccounted ==
  \A t \in Keys :
    cache[t] = "part" => Tainted(t) \/ \E c \in Callers : at[c] = "close" /\ key[c] = t

\* What is about to be copied is whole, and what is about to be announced.
CopiesWhole ==
  \A c \in Callers : at[c] = "copy" => cache[key[c]] = "whole" \/ Tainted(key[c])

HoldsWhole ==
  \A c \in Callers :
    /\ at[c] \in {"store", "write", "close"} => out[c] = "whole"
    /\ at[c] = "lip" => out[c] = "whole" \/ Tainted(key[c])

SpeechInv ==
  /\ SpeechTyped /\ HandsClash /\ WriterOpened /\ PartAccounted /\ CopiesWhole
  /\ HoldsWhole /\ ServedWhole

USE DEF Places, Contents, Hands

-----------------------------------------------------------------------------
LEMMA TryType ==
  /\ 0 \in 0 .. Attempts - 1
  /\ \A n \in 0 .. Attempts - 1 : n + 1 < Attempts => n + 1 \in 0 .. Attempts - 1
BY SpeechAssumption

LEMMA SpeechInitInv == SpeechInit => SpeechInv
<1> SUFFICES ASSUME SpeechInit PROVE SpeechInv
  OBVIOUS
<1>1. (CHOOSE t \in Keys : TRUE) \in Keys
  BY SpeechAssumption
<1>2. SpeechTyped
  BY <1>1, TryType DEF SpeechInit, SpeechTyped
<1>3. \A c \in Callers : at[c] = "idle"
  BY DEF SpeechInit
<1>4. \A t \in Keys : cache[t] = "none"
  BY DEF SpeechInit
<1>5. served = {}
  BY DEF SpeechInit
<1> QED
  BY <1>2, <1>3, <1>4, <1>5 DEF SpeechInv, HandsClash, WriterOpened, PartAccounted, CopiesWhole,
     HoldsWhole, ServedWhole

-----------------------------------------------------------------------------
(* A call that begins or synthesizes touches no shared file.               *)

LEMMA BeginSpeechInv == ASSUME SpeechInv, NEW c \in Callers, Begin(c) PROVE SpeechInv'
<1>1. SpeechTyped'
  BY DEF SpeechInv, SpeechTyped, Begin, Move
<1>2. HandsClash'
  BY DEF SpeechInv, HandsClash, Begin, Move
<1>3. WriterOpened'
  BY DEF SpeechInv, WriterOpened, Begin, Move
<1>4. PartAccounted'
  BY DEF SpeechInv, PartAccounted, Tainted, Begin, Move
<1>5. CopiesWhole'
  BY DEF SpeechInv, CopiesWhole, Tainted, Begin, Move
<1>6. HoldsWhole'
  BY DEF SpeechInv, HoldsWhole, Tainted, Begin, Move
<1>7. ServedWhole'
  BY DEF SpeechInv, ServedWhole, Begin
<1> QED
  BY <1>1, <1>2, <1>3, <1>4, <1>5, <1>6, <1>7 DEF SpeechInv

\* Whoever finds a file in part takes it in hand beside its writer, or it is cut.
LEMMA HitSpeechInv == ASSUME SpeechInv, NEW c \in Callers, Hit(c) PROVE SpeechInv'
<1>1. SpeechTyped'
  BY DEF SpeechInv, SpeechTyped, Hit, Enter
<1>2. HandsClash'
  BY DEF SpeechInv, HandsClash, InHand, Hit, Enter
<1>3. WriterOpened'
  BY DEF SpeechInv, WriterOpened, Hit, Enter
<1>4. PartAccounted'
  BY DEF SpeechInv, PartAccounted, Tainted, Hit, Enter
<1>5. CopiesWhole'
  BY DEF SpeechInv, SpeechTyped, PartAccounted, CopiesWhole, Tainted, InHand, Hit, Enter
<1>6. HoldsWhole'
  BY DEF SpeechInv, HoldsWhole, Tainted, Hit, Enter
<1>7. ServedWhole'
  BY DEF SpeechInv, ServedWhole, Hit, Enter
<1> QED
  BY <1>1, <1>2, <1>3, <1>4, <1>5, <1>6, <1>7 DEF SpeechInv

LEMMA MissSpeechInv == ASSUME SpeechInv, NEW c \in Callers, Miss(c) PROVE SpeechInv'
<1>1. SpeechTyped'
  BY DEF SpeechInv, SpeechTyped, Miss, Move
<1>2. HandsClash'
  BY DEF SpeechInv, SpeechTyped, HandsClash, Miss, Move
<1>3. WriterOpened'
  BY DEF SpeechInv, SpeechTyped, WriterOpened, Miss, Move
<1>4. PartAccounted'
  BY DEF SpeechInv, PartAccounted, Tainted, Miss, Move
<1>5. CopiesWhole'
  BY DEF SpeechInv, CopiesWhole, Tainted, Miss, Move
<1>6. HoldsWhole'
  BY DEF SpeechInv, HoldsWhole, Tainted, Miss, Move
<1>7. ServedWhole'
  BY DEF SpeechInv, ServedWhole, Miss
<1> QED
  BY <1>1, <1>2, <1>3, <1>4, <1>5, <1>6, <1>7 DEF SpeechInv

LEMMA CopySpeechInv == ASSUME SpeechInv, NEW c \in Callers, Copy(c) PROVE SpeechInv'
<1>1. SpeechTyped'
  BY DEF SpeechInv, SpeechTyped, Copy, Move
<1>2. HandsClash'
  BY DEF SpeechInv, HandsClash, Copy, Move
<1>3. WriterOpened'
  BY DEF SpeechInv, WriterOpened, Copy, Move
<1>4. PartAccounted'
  BY DEF SpeechInv, PartAccounted, Tainted, Copy, Move
<1>5. CopiesWhole'
  BY DEF SpeechInv, CopiesWhole, Tainted, Copy, Move
<1>6. HoldsWhole'
  BY DEF SpeechInv, SpeechTyped, CopiesWhole, HoldsWhole, Tainted, Copy, Move
<1>7. ServedWhole'
  BY DEF SpeechInv, ServedWhole, Copy
<1> QED
  BY <1>1, <1>2, <1>3, <1>4, <1>5, <1>6, <1>7 DEF SpeechInv

LEMMA CopyFailsSpeechInv == ASSUME SpeechInv, NEW c \in Callers, CopyFails(c) PROVE SpeechInv'
<1>1. SpeechTyped'
  BY DEF SpeechInv, SpeechTyped, CopyFails, Move
<1>2. HandsClash'
  BY DEF SpeechInv, HandsClash, CopyFails, Move
<1>3. WriterOpened'
  BY DEF SpeechInv, WriterOpened, CopyFails, Move
<1>4. PartAccounted'
  BY DEF SpeechInv, PartAccounted, Tainted, CopyFails, Move
<1>5. CopiesWhole'
  BY DEF SpeechInv, CopiesWhole, Tainted, CopyFails, Move
<1>6. HoldsWhole'
  BY DEF SpeechInv, HoldsWhole, Tainted, CopyFails, Move
<1>7. ServedWhole'
  BY DEF SpeechInv, ServedWhole, CopyFails
<1> QED
  BY <1>1, <1>2, <1>3, <1>4, <1>5, <1>6, <1>7 DEF SpeechInv

LEMMA SynthesizeSpeechInv == ASSUME SpeechInv, NEW c \in Callers, Synthesize(c) PROVE SpeechInv'
<1>1. SpeechTyped'
  BY DEF SpeechInv, SpeechTyped, Synthesize, Move
<1>2. HandsClash'
  BY DEF SpeechInv, HandsClash, Synthesize, Move
<1>3. WriterOpened'
  BY DEF SpeechInv, WriterOpened, Synthesize, Move
<1>4. PartAccounted'
  BY DEF SpeechInv, PartAccounted, Tainted, Synthesize, Move
<1>5. CopiesWhole'
  BY DEF SpeechInv, CopiesWhole, Tainted, Synthesize, Move
<1>6. HoldsWhole'
  BY DEF SpeechInv, SpeechTyped, HoldsWhole, Tainted, Synthesize, Move
<1>7. ServedWhole'
  BY DEF SpeechInv, ServedWhole, Synthesize
<1> QED
  BY <1>1, <1>2, <1>3, <1>4, <1>5, <1>6, <1>7 DEF SpeechInv

LEMMA EdgeFailsSpeechInv == ASSUME SpeechInv, NEW c \in Callers, EdgeFails(c) PROVE SpeechInv'
<1>1. SpeechTyped'
  BY TryType DEF SpeechInv, SpeechTyped, EdgeFails, Ends, Move
<1>2. HandsClash'
  BY DEF SpeechInv, SpeechTyped, HandsClash, EdgeFails, Ends, Move
<1>3. WriterOpened'
  BY DEF SpeechInv, SpeechTyped, WriterOpened, EdgeFails, Ends, Move
<1>4. PartAccounted'
  BY DEF SpeechInv, SpeechTyped, PartAccounted, Tainted, EdgeFails, Ends, Move
<1>5. CopiesWhole'
  BY DEF SpeechInv, SpeechTyped, CopiesWhole, Tainted, EdgeFails, Ends, Move
<1>6. HoldsWhole'
  BY DEF SpeechInv, SpeechTyped, HoldsWhole, Tainted, EdgeFails, Ends, Move
<1>7. ServedWhole'
  BY DEF SpeechInv, ServedWhole, EdgeFails
<1> QED
  BY <1>1, <1>2, <1>3, <1>4, <1>5, <1>6, <1>7 DEF SpeechInv

LEMMA CoquiFailsSpeechInv == ASSUME SpeechInv, NEW c \in Callers, CoquiFails(c) PROVE SpeechInv'
<1>1. SpeechTyped'
  BY TryType DEF SpeechInv, SpeechTyped, CoquiFails, Ends, Move
<1>2. HandsClash'
  BY DEF SpeechInv, HandsClash, CoquiFails, Ends, Move
<1>3. WriterOpened'
  BY DEF SpeechInv, WriterOpened, CoquiFails, Ends, Move
<1>4. PartAccounted'
  BY DEF SpeechInv, PartAccounted, Tainted, CoquiFails, Ends, Move
<1>5. CopiesWhole'
  BY DEF SpeechInv, CopiesWhole, Tainted, CoquiFails, Ends, Move
<1>6. HoldsWhole'
  BY DEF SpeechInv, HoldsWhole, Tainted, CoquiFails, Ends, Move
<1>7. ServedWhole'
  BY DEF SpeechInv, ServedWhole, CoquiFails
<1> QED
  BY <1>1, <1>2, <1>3, <1>4, <1>5, <1>6, <1>7 DEF SpeechInv

(* Whoever opens, fills or leaves a shared file.                           *)

\* Opening empties the file under whoever has it in hand: they clash.
LEMMA StoreSpeechInv == ASSUME SpeechInv, NEW c \in Callers, Store(c) PROVE SpeechInv'
<1>1. SpeechTyped'
  BY DEF SpeechInv, SpeechTyped, Store, Enter
<1>2. HandsClash'
  BY DEF SpeechInv, HandsClash, InHand, Store, Enter
<1>3. WriterOpened'
  BY DEF SpeechInv, SpeechTyped, WriterOpened, InHand, Store, Enter
<1>4. PartAccounted'
  BY DEF SpeechInv, PartAccounted, Tainted, Store, Enter
<1>5. CopiesWhole'
  BY DEF SpeechInv, CopiesWhole, Tainted, InHand, Store, Enter
<1>6. HoldsWhole'
  BY DEF SpeechInv, HoldsWhole, Tainted, Store, Enter
<1>7. ServedWhole'
  BY DEF SpeechInv, ServedWhole, Store, Enter
<1> QED
  BY <1>1, <1>2, <1>3, <1>4, <1>5, <1>6, <1>7 DEF SpeechInv

LEMMA StoreWriteSpeechInv == ASSUME SpeechInv, NEW c \in Callers, StoreWrite(c) PROVE SpeechInv'
<1>1. SpeechTyped'
  BY DEF SpeechInv, SpeechTyped, StoreWrite, Move
<1>2. HandsClash'
  BY DEF SpeechInv, HandsClash, StoreWrite, Move
<1>3. WriterOpened'
  BY DEF SpeechInv, WriterOpened, StoreWrite, Move
<1>4. PartAccounted'
  BY DEF SpeechInv, SpeechTyped, PartAccounted, Tainted, StoreWrite, Move
<1>5. CopiesWhole'
  BY DEF SpeechInv, CopiesWhole, Tainted, StoreWrite, Move
<1>6. HoldsWhole'
  BY DEF SpeechInv, SpeechTyped, HandsClash, WriterOpened, PartAccounted, CopiesWhole, HoldsWhole, ServedWhole, Tainted, InHand, StoreWrite, Move
<1>7. ServedWhole'
  BY DEF SpeechInv, ServedWhole, StoreWrite
<1> QED
  BY <1>1, <1>2, <1>3, <1>4, <1>5, <1>6, <1>7 DEF SpeechInv

\* Only the one who opened it last makes it whole; the other has clashed.
LEMMA StoreCloseSpeechInv == ASSUME SpeechInv, NEW c \in Callers, StoreClose(c) PROVE SpeechInv'
<1>1. SpeechTyped'
  BY DEF SpeechInv, SpeechTyped, StoreClose, Move
<1>2. HandsClash'
  BY DEF SpeechInv, HandsClash, StoreClose, Move
<1>3. WriterOpened'
  BY DEF SpeechInv, WriterOpened, StoreClose, Move
<1>4. PartAccounted'
  BY DEF SpeechInv, SpeechTyped, WriterOpened, PartAccounted, Tainted, StoreClose, Move
<1>5. CopiesWhole'
  BY DEF SpeechInv, CopiesWhole, Tainted, StoreClose, Move
<1>6. HoldsWhole'
  BY DEF SpeechInv, HoldsWhole, Tainted, StoreClose, Move
<1>7. ServedWhole'
  BY DEF SpeechInv, ServedWhole, StoreClose
<1> QED
  BY <1>1, <1>2, <1>3, <1>4, <1>5, <1>6, <1>7 DEF SpeechInv

LEMMA StoreFailsSpeechInv == ASSUME SpeechInv, NEW c \in Callers, StoreFails(c) PROVE SpeechInv'
<1>1. SpeechTyped'
  BY DEF SpeechInv, SpeechTyped, StoreFails, Move
<1>2. HandsClash'
  BY DEF SpeechInv, HandsClash, StoreFails, Move
<1>3. WriterOpened'
  BY DEF SpeechInv, WriterOpened, StoreFails, Move
<1>4. PartAccounted'
  BY DEF SpeechInv, PartAccounted, Tainted, StoreFails, Move
<1>5. CopiesWhole'
  BY DEF SpeechInv, CopiesWhole, Tainted, StoreFails, Move
<1>6. HoldsWhole'
  BY DEF SpeechInv, HoldsWhole, Tainted, StoreFails, Move
<1>7. ServedWhole'
  BY DEF SpeechInv, ServedWhole, StoreFails
<1> QED
  BY <1>1, <1>2, <1>3, <1>4, <1>5, <1>6, <1>7 DEF SpeechInv

(* The end of a sentence.                                                  *)

LEMMA AnnounceSpeechInv == ASSUME SpeechInv, NEW c \in Callers, Announce(c) PROVE SpeechInv'
<1>1. SpeechTyped'
  BY TryType DEF SpeechInv, SpeechTyped, Announce, Ends, Move
<1>2. HandsClash'
  BY DEF SpeechInv, HandsClash, Announce, Ends, Move
<1>3. WriterOpened'
  BY DEF SpeechInv, WriterOpened, Announce, Ends, Move
<1>4. PartAccounted'
  BY DEF SpeechInv, PartAccounted, Tainted, Announce, Ends, Move
<1>5. CopiesWhole'
  BY DEF SpeechInv, CopiesWhole, Tainted, Announce, Ends, Move
<1>6. HoldsWhole'
  BY DEF SpeechInv, SpeechTyped, HoldsWhole, Tainted, Announce, Ends, Move
<1>7. ServedWhole'
  BY DEF SpeechInv, HoldsWhole, ServedWhole, Tainted, Announce
<1> QED
  BY <1>1, <1>2, <1>3, <1>4, <1>5, <1>6, <1>7 DEF SpeechInv

LEMMA LipSyncFailsSpeechInv == ASSUME SpeechInv, NEW c \in Callers, LipSyncFails(c) PROVE SpeechInv'
<1>1. SpeechTyped'
  BY TryType DEF SpeechInv, SpeechTyped, LipSyncFails, Ends, Move
<1>2. HandsClash'
  BY DEF SpeechInv, HandsClash, LipSyncFails, Ends, Move
<1>3. WriterOpened'
  BY DEF SpeechInv, WriterOpened, LipSyncFails, Ends, Move
<1>4. PartAccounted'
  BY DEF SpeechInv, PartAccounted, Tainted, LipSyncFails, Ends, Move
<1>5. CopiesWhole'
  BY DEF SpeechInv, CopiesWhole, Tainted, LipSyncFails, Ends, Move
<1>6. HoldsWhole'
  BY DEF SpeechInv, SpeechTyped, HoldsWhole, Tainted, LipSyncFails, Ends, Move
<1>7. ServedWhole'
  BY DEF SpeechInv, ServedWhole, LipSyncFails
<1> QED
  BY <1>1, <1>2, <1>3, <1>4, <1>5, <1>6, <1>7 DEF SpeechInv

\* The restart forgets who was writing: what they had in part is known to be cut.
LEMMA CrashSpeechInv == ASSUME SpeechInv, CrashProcess PROVE SpeechInv'
<1>1. SpeechTyped'
  BY TryType DEF SpeechInv, SpeechTyped, CrashProcess, HalfWritten
<1>2. \A c \in Callers : at'[c] = "idle"
  BY DEF CrashProcess
<1>3. PartAccounted'
  BY DEF SpeechInv, PartAccounted, Tainted, CrashProcess, HalfWritten
<1>4. ServedWhole'
  BY DEF SpeechInv, ServedWhole, CrashProcess
<1> QED
  BY <1>1, <1>2, <1>3, <1>4 DEF SpeechInv, HandsClash, WriterOpened, CopiesWhole, HoldsWhole

LEMMA StutterSpeechInv == ASSUME SpeechInv, UNCHANGED spVars PROVE SpeechInv'
<1>1. SpeechTyped' /\ HandsClash' /\ WriterOpened' /\ PartAccounted'
  BY DEF SpeechInv, SpeechTyped, HandsClash, WriterOpened, PartAccounted, Tainted, spVars, calls, spHistory
<1>2. CopiesWhole' /\ HoldsWhole' /\ ServedWhole'
  BY DEF SpeechInv, CopiesWhole, HoldsWhole, ServedWhole, Tainted, spVars, calls, spHistory
<1> QED
  BY <1>1, <1>2 DEF SpeechInv

LEMMA SpeechStepInv == SpeechInv /\ [SpeechNext]_spVars => SpeechInv'
<1> SUFFICES ASSUME SpeechInv, [SpeechNext]_spVars PROVE SpeechInv'
  OBVIOUS
<1>1. ASSUME NEW c \in Callers, Begin(c) \/ SpeechWork(c) PROVE SpeechInv'
  BY <1>1, BeginSpeechInv, HitSpeechInv, MissSpeechInv, CopySpeechInv, CopyFailsSpeechInv, SynthesizeSpeechInv,
     EdgeFailsSpeechInv, CoquiFailsSpeechInv, StoreSpeechInv, StoreWriteSpeechInv, StoreCloseSpeechInv,
     StoreFailsSpeechInv, AnnounceSpeechInv, LipSyncFailsSpeechInv DEF SpeechWork
<1>2. CASE CrashProcess
  BY <1>2, CrashSpeechInv
<1>3. CASE UNCHANGED spVars
  BY <1>3, StutterSpeechInv
<1> QED
  BY <1>1, <1>2, <1>3 DEF SpeechNext

\* For any number of calls over one cache directory, and whatever fails or
\* crashes, SPEECH_READY announces a whole sentence unless its cached file was cut
\* or disputed before (TtsManager.synthesize, AudioCache.get and store).
THEOREM SpeechWhole == SpeechSpec => []ServedWhole
<1>1. SpeechInv => ServedWhole
  BY DEF SpeechInv
<1> QED
  BY SpeechInitInv, SpeechStepInv, <1>1, PTL DEF SpeechSpec

\* The engine and the lip-sync backend are of their registries: no engine, no
\* manager; and the null backend of lip sync is always there.
LEMMA BackendsType ==
  /\ Engines \ {NoBackend} \subseteq ToSet(TtsOrder)
  /\ LipBackends \subseteq ToSet(LipOrder)
<1>1. ASSUME NEW chosen \in Engines, chosen # NoBackend PROVE chosen \in ToSet(TtsOrder)
  <2>1. PICK requested \in ToSet(TtsOrder), available \in SUBSET ToSet(TtsOrder) :
          chosen = Select(requested, TtsOrder, available)
    BY DEF Engines
  <2>2. Len(TtsOrder) = 2 /\ DOMAIN TtsOrder = 1 .. Len(TtsOrder)
    BY DEF TtsOrder
  <2>3. chosen = requested \/ \E i \in 1 .. Len(TtsOrder) : chosen = TtsOrder[i]
    BY <1>1, <2>1, <2>2, SelectType
  <2> QED
    BY <2>2, <2>3 DEF ToSet
<1>2. ASSUME NEW chosen \in LipBackends PROVE chosen \in ToSet(LipOrder)
  <2>1. PICK requested \in ToSet(LipOrder), available \in SUBSET ToSet(LipOrder) :
          chosen = Select(requested, LipOrder, available \cup {"null"})
    BY <1>2 DEF LipBackends
  <2>2. Len(LipOrder) = 3 /\ DOMAIN LipOrder = 1 .. Len(LipOrder) /\ LipOrder[3] = "null"
    BY DEF LipOrder
  <2>3. chosen = requested \/ \E i \in 1 .. Len(LipOrder) : chosen = LipOrder[i]
    <3> DEFINE usable == available \cup {"null"}
    <3>1. 3 \in 1 .. Len(LipOrder) /\ LipOrder[3] \in usable /\ Len(LipOrder) \in Nat
      BY <2>2
    <3> HIDE DEF usable
    <3>2. \/ Select(requested, LipOrder, usable) = requested
          \/ \E i \in 1 .. Len(LipOrder) : Select(requested, LipOrder, usable) = LipOrder[i]
      BY <3>1, SelectSome, Zenon
    <3> QED
      BY <2>1, <3>2, Zenon DEF usable
  <2> QED
    BY <2>2, <2>3 DEF ToSet
<1> QED
  BY <1>1, <1>2

\* Nothing selects another one later.
ChoiceTyped == engine \in ToSet(TtsOrder) /\ lip \in ToSet(LipOrder)

LEMMA SpeechTypes ==
  /\ SpeechInit => SpeechInv /\ ChoiceTyped
  /\ SpeechInv /\ ChoiceTyped /\ [SpeechNext]_spVars => (SpeechInv /\ ChoiceTyped)'
  /\ SpeechInv /\ ChoiceTyped => SpeechTypeOK
<1>1. SpeechInit => ChoiceTyped
  BY BackendsType DEF SpeechInit, ChoiceTyped
<1>2. ASSUME [SpeechNext]_spVars PROVE UNCHANGED choice
  <2>1. ASSUME NEW c \in Callers, Begin(c) \/ SpeechWork(c) PROVE UNCHANGED choice
    BY <2>1 DEF choice, Begin, SpeechWork, Hit, Miss, Copy, CopyFails, Synthesize, EdgeFails,
       CoquiFails, Store, StoreWrite, StoreClose, StoreFails, Announce, LipSyncFails
  <2> QED
    BY <1>2, <2>1 DEF SpeechNext, CrashProcess, spVars, choice
<1>3. SpeechInv /\ ChoiceTyped => SpeechTypeOK
  BY DEF SpeechInv, SpeechTyped, ChoiceTyped, SpeechTypeOK
<1> QED
  BY <1>1, <1>2, <1>3, SpeechInitInv, SpeechStepInv DEF ChoiceTyped, choice

HIDE DEF Places, Contents, Hands

-----------------------------------------------------------------------------
(***************************************************************************)
(* The resource monitor.  A benchmark that asks for the summary still has  *)
(* a report to write, so the count of its reports never falls below zero.  *)
(***************************************************************************)
ReportsLeft ==
  command = "benchmark" =>
    /\ viewer # "refresh"
    /\ viewer \in {"ask", "look", "sample", "show"} => reports > 0

MonitorInv == MonitorTypeOK /\ ReportsLeft

LEMMA MonitorTypes ==
  /\ MonitorFresh /\ viewer \in {"start", "gone"} => MonitorInv
  /\ MonitorInv /\ [MonitorNext]_monVars => MonitorInv'
<1>0. 0 \in 0 .. MaxSamples /\ 0 \in 0 .. 2 /\ 2 \in 0 .. 2 /\ 2 > 0
  BY MonitorAssumption
<1>1. ASSUME MonitorFresh, viewer \in {"start", "gone"} PROVE MonitorInv
  BY <1>0, <1>1 DEF MonitorFresh, MonitorInv, MonitorTypeOK, ReportsLeft
<1> SUFFICES ASSUME MonitorInv, [MonitorNext]_monVars PROVE MonitorInv'
  BY <1>1
<1> USE DEF MonitorInv, MonitorTypeOK, ReportsLeft
<1>2. CASE StartMonitor \/ Refresh \/ TakeLock \/ Summarize \/ SummarizeNothing
  <2>1. CASE StartMonitor
    BY <2>1 DEF StartMonitor
  <2>2. CASE Refresh
    BY <2>2 DEF Refresh
  <2>3. CASE TakeLock \/ Summarize \/ SummarizeNothing
    BY <2>3 DEF TakeLock, Summarize, SummarizeNothing
  <2> QED
    BY <1>2, <2>1, <2>2, <2>3
<1>3. ASSUME NEW raised \in BOOLEAN, BenchmarksEnd(raised) PROVE MonitorInv'
  BY <1>3 DEF BenchmarksEnd
<1>4. CASE Show
  BY <1>4 DEF Show
<1>5. CASE Halt \/ JoinMonitor \/ InterruptViewer
  <2>1. CASE Halt \/ JoinMonitor
    BY <2>1 DEF Halt, JoinMonitor
  <2>2. CASE InterruptViewer
    BY <2>2, <1>0 DEF InterruptViewer
  <2> QED
    BY <1>5, <2>1, <2>2
<1>6. CASE MonitorLoop \/ Measure \/ AddSample \/ Sleep
  BY <1>6, MonitorAssumption DEF MonitorLoop, Measure, AddSample, Sleep
<1>7. CASE UNCHANGED monVars
  BY <1>7 DEF monVars
<1> QED
  BY <1>2, <1>3, <1>4, <1>5, <1>6, <1>7
  DEF MonitorNext, ViewerWork, SamplerWork, MonitorFinished

-----------------------------------------------------------------------------
(***************************************************************************)
(* The prototype.  The sentinel of a stop is the last on every queue       *)
(* between two stages, and behind it is at most one chunk of the microphone. *)
(***************************************************************************)
Text == Seq(Token)

-----------------------------------------------------------------------------
(* Facts about texts and items.                                            *)

\* Tagging the words that Whisper returns with where they were spoken gives a text.
LEMMA SpokenType ==
  ASSUME NEW segments \in Transcripts, NEW n \in Nat
  PROVE  Spoken(segments, n) \in Text
<1> DEFINE kinds == Said(segments)
<1>1. kinds \in Seq(STRING)
  BY PrototypeAssumption
<1>2. Len(kinds) \in Nat /\ \A i \in 1 .. Len(kinds) : kinds[i] \in STRING
  BY <1>1
<1>3. Spoken(segments, n) \in [1 .. Len(kinds) -> Token]
  BY <1>2 DEF Spoken, Token
<1> QED
  BY <1>2, <1>3 DEF Text

\* The tokens of a text, and of the sentences of a list, are tokens.
LEMMA ToSetType ==
  /\ \A t \in Text : ToSet(t) \subseteq Token
  /\ \A l \in Seq(Text) : \A s \in ToSet(l) : ToSet(s) \subseteq Token
<1>1. \A t \in Text : ToSet(t) \subseteq Token
  BY DEF Text, ToSet
<1>2. \A l \in Seq(Text) : \A s \in ToSet(l) : s \in Text
  BY DEF ToSet
<1> QED
  BY <1>1, <1>2

\* What a stage works on has a number of its own; the sentinel has none.
Jobs == [id : Nat \ {0}, text : Text]
Entries == Jobs \cup {Sentinel}

LEMMA SentinelType == Sentinel \in Entries /\ Sentinel \notin Jobs /\ <<>> \in Text
BY DEF Sentinel, Item, Entries, Jobs, Text

LEMMA JobType == ASSUME NEW n \in Nat \ {0}, NEW text \in Text PROVE Item(n, text) \in Jobs
BY DEF Item, Jobs

LEMMA NumberedType ==
  ASSUME NEW sentences \in Seq(Text), NEW n \in Nat
  PROVE  Numbered(sentences, n) \in Seq(Jobs)
<1>1. Len(sentences) \in Nat /\ \A i \in 1 .. Len(sentences) : sentences[i] \in Text
  OBVIOUS
<1>2. \A i \in 1 .. Len(sentences) : Item(n + i, sentences[i]) \in Jobs
  BY <1>1, JobType
<1>3. Numbered(sentences, n) \in [1 .. Len(sentences) -> Jobs]
  BY <1>2 DEF Numbered
<1> QED
  BY <1>1, <1>3

-----------------------------------------------------------------------------
(* Facts about a queue that a sentinel may close.                          *)

NoEnd(items) == \A i \in 1 .. Len(items) : items[i] # Sentinel

Closed(items) == \A i \in 1 .. Len(items) : items[i] = Sentinel => i = Len(items)

LEMMA AppendOpen ==
  ASSUME NEW q \in Seq(Entries), NoEnd(q), NEW x \in Entries
  PROVE  /\ Append(q, x) \in Seq(Entries) /\ Closed(Append(q, x))
         /\ x \in Jobs => NoEnd(Append(q, x))
BY SentinelType DEF NoEnd, Closed

LEMMA ConcatOpen ==
  ASSUME NEW q \in Seq(Entries), NoEnd(q), NEW r \in Seq(Jobs)
  PROVE  q \o r \in Seq(Entries) /\ NoEnd(q \o r)
<1>1. r \in Seq(Entries)
  BY DEF Entries
<1> QED
  BY <1>1, SentinelType DEF NoEnd

LEMMA TailClosed ==
  ASSUME NEW q \in Seq(Entries), q # <<>>, Closed(q)
  PROVE  /\ Tail(q) \in Seq(Entries) /\ Head(q) \in Entries /\ Closed(Tail(q))
         /\ NoEnd(q) => NoEnd(Tail(q)) /\ Head(q) # Sentinel
         /\ Head(q) = Sentinel => Tail(q) = <<>> /\ ~NoEnd(q)
<1>1. Len(q) \in Nat \ {0} /\ Len(Tail(q)) = Len(q) - 1 /\ Tail(q) \in Seq(Entries)
  OBVIOUS
<1>2. \A i \in 1 .. Len(q) - 1 : Tail(q)[i] = q[i + 1]
  OBVIOUS
<1>3. Head(q) = q[1] /\ Head(q) \in Entries
  OBVIOUS
<1>4. Closed(Tail(q))
  <2> SUFFICES ASSUME NEW i \in 1 .. Len(Tail(q)), Tail(q)[i] = Sentinel PROVE i = Len(Tail(q))
    BY DEF Closed
  <2>1. i + 1 \in 1 .. Len(q) /\ q[i + 1] = Sentinel
    BY <1>1, <1>2
  <2>2. i + 1 = Len(q)
    BY <2>1 DEF Closed
  <2> QED
    BY <2>2, <1>1
<1>5. NoEnd(q) => NoEnd(Tail(q)) /\ Head(q) # Sentinel
  BY <1>1, <1>2, <1>3 DEF NoEnd
<1>6. ASSUME Head(q) = Sentinel PROVE Tail(q) = <<>> /\ ~NoEnd(q)
  <2>1. 1 \in 1 .. Len(q) /\ q[1] = Sentinel
    BY <1>6, <1>1, <1>3
  <2>2. Len(q) = 1
    BY <2>1 DEF Closed
  <2>3. Tail(q) \in Seq(Entries) /\ Len(Tail(q)) = 0
    BY <2>2, <1>1
  <2> QED
    BY <2>1, <2>3, EmptySeq DEF NoEnd
<1> QED
  BY <1>1, <1>3, <1>4, <1>5, <1>6

-----------------------------------------------------------------------------
(***************************************************************************)
(* The types the argument needs, with what a stage holds while it works:   *)
(* never the sentinel.  The threads of a direction start together.         *)
(***************************************************************************)
StagePlaces ==
  {"off", "loop", "recording", "save", "end", "lock", "transcribe", "translate", "done", "dead"}

PlacesTyped ==
  /\ pc \in [Directions -> [Stages -> StagePlaces]]
  /\ \A d \in Directions : pc[d].stt = "off" => \A s \in Stages : pc[d][s] = "off"

QueuesTyped == queue \in [Directions -> [Queues -> Seq(Entries)]]

HoldTyped ==
  /\ hold \in [Directions -> [Stages -> Entries]]
  /\ \A d \in Directions :
       /\ pc[d].stt \in {"lock", "transcribe"} => hold[d].stt \in Jobs
       /\ pc[d].translator = "translate" => hold[d].translator \in Jobs

CountTyped == count \in [Directions -> [chunk : Nat, sentence : Nat]]

BufferTyped == buffer \in [Directions -> Text]

Typed == PlacesTyped /\ QueuesTyped /\ HoldTyped /\ CountTyped /\ BufferTyped

USE DEF Directions, Stages, Queues, StagePlaces

LEMMA InitType == Fresh => Typed
<1> SUFFICES ASSUME Fresh PROVE Typed
  OBVIOUS
<1>1. PlacesTyped
  BY DEF Fresh, PlacesTyped
<1>2. QueuesTyped
  BY DEF Fresh, QueuesTyped
<1>3. HoldTyped
  BY SentinelType DEF Fresh, HoldTyped
<1>4. CountTyped
  BY DEF Fresh, CountTyped
<1>5. BufferTyped
  BY SentinelType DEF Fresh, BufferTyped
<1> QED
  BY <1>1, <1>2, <1>3, <1>4, <1>5 DEF Typed

\* What the main thread does to the others.
MainWork ==
  LoadModel \/ InterruptUncaught \/ Interrupt \/ Leave \/ \E d \in Directions : StartWorkers(d)

LEMMA PlacesStep == ASSUME Typed, [Next]_vars PROVE PlacesTyped'
<1> USE DEF Typed, PlacesTyped, At, Goto
<1>1. CASE MainWork
  BY <1>1 DEF MainWork, LoadModel, InterruptUncaught, Interrupt, Leave, StartWorkers
<1>2. CASE Producer \/ RecordingFails \/ SaveChunkFails
  BY <1>2 DEF Producer, RecordingFails, SaveChunkFails, RecorderLoop, RecorderCheck, RecorderPut, WavPut, WavEnd
<1>3. ASSUME NEW d \in Directions, WakeStt(d) \/ Stt(d) PROVE PlacesTyped'
  <2>1. CASE WakeStt(d)
    BY <2>1 DEF WakeStt
  <2>2. CASE SttTake(d) \/ SttLock(d)
    BY <2>2 DEF SttTake, SttLock
  <2>3. CASE SttEnds(d)
    BY <2>3 DEF SttEnds
  <2>4. CASE Transcribes(d) \/ SttFails(d)
    BY <2>4 DEF Transcribes, SttFails, SttFinish
  <2> QED
    BY <1>3, <2>1, <2>2, <2>3, <2>4 DEF Stt
<1>4. ASSUME NEW d \in Directions, Buffer(d) PROVE PlacesTyped'
  <2>1. CASE pc' = pc
    BY <2>1
  <2>2. CASE BufferEnds(d)
    BY <2>2 DEF BufferEnds
  <2> QED
    BY <1>4, <2>1, <2>2 DEF Buffer, IgnoreFragment, AddFragment, BufferTimeout
<1>5. ASSUME NEW d \in Directions, Translator(d) \/ Speak(d) PROVE PlacesTyped'
  <2>1. CASE TranslatorTake(d) \/ Translated(d)
    BY <2>1 DEF TranslatorTake, Translated
  <2>2. CASE TranslatorFails(d) \/ TranslatorEnds(d)
    BY <2>2 DEF TranslatorFails, TranslatorEnds
  <2>3. CASE Speak(d)
    BY <2>3 DEF Speak, SpeechDies, SpeechEnds
  <2> QED
    BY <1>5, <2>1, <2>2, <2>3 DEF Translator
<1>6. CASE UNCHANGED vars
  BY <1>6 DEF vars
<1> QED
  BY <1>1, <1>2, <1>3, <1>4, <1>5, <1>6 DEF Next, Work, MainWork, Finished

LEMMA HoldStep == ASSUME Typed, [Next]_vars PROVE HoldTyped'
<1> USE DEF Typed, PlacesTyped, HoldTyped, At, Goto
<1>1. CASE MainWork
  BY <1>1 DEF MainWork, MainOnly, LoadModel, InterruptUncaught, Interrupt, Leave, StartWorkers
<1>2. CASE Producer \/ RecordingFails \/ SaveChunkFails
  BY <1>2 DEF Producer, ProducerOnly, RecordingFails, SaveChunkFails, RecorderLoop, RecorderCheck, RecorderPut,
     WavPut, WavEnd
<1>3. ASSUME NEW d \in Directions, SttTake(d) PROVE HoldTyped'
  <2>1. queue[d].audio \in Seq(Entries) /\ queue[d].audio # <<>> /\ Head(queue[d].audio) # Sentinel
    BY <1>3 DEF QueuesTyped, SttTake
  <2>2. Head(queue[d].audio) \in Jobs
    BY <2>1 DEF Entries
  <2> QED
    BY <1>3, <2>2 DEF SttTake, Entries
<1>4. ASSUME NEW d \in Directions, WakeStt(d) \/ SttEnds(d) \/ SttLock(d) \/ Transcribes(d) \/ SttFails(d)
      PROVE  HoldTyped'
  <2>1. CASE WakeStt(d)
    BY <2>1 DEF WakeStt, MainOnly
  <2>2. CASE SttEnds(d) \/ SttLock(d)
    BY <2>2 DEF SttEnds, SttLock
  <2>3. CASE Transcribes(d) \/ SttFails(d)
    BY <2>3, SentinelType DEF Transcribes, SttFails, SttFinish
  <2> QED
    BY <1>4, <2>1, <2>2, <2>3
<1>5. ASSUME NEW d \in Directions, Buffer(d) PROVE HoldTyped'
  BY <1>5 DEF Buffer, BufferOnly, IgnoreFragment, AddFragment, BufferTimeout, BufferEnds
<1>6. ASSUME NEW d \in Directions, TranslatorTake(d) PROVE HoldTyped'
  <2>1. /\ queue[d].sentence \in Seq(Entries) /\ queue[d].sentence # <<>>
        /\ Head(queue[d].sentence) # Sentinel
    BY <1>6 DEF QueuesTyped, TranslatorTake
  <2>2. Head(queue[d].sentence) \in Jobs
    BY <2>1 DEF Entries
  <2> QED
    BY <1>6, <2>2 DEF TranslatorTake, Entries
<1>7. ASSUME NEW d \in Directions, Translated(d) \/ TranslatorFails(d) \/ TranslatorEnds(d)
      PROVE  HoldTyped'
  BY <1>7, SentinelType DEF Translated, TranslatorFails, TranslatorEnds
<1>8. ASSUME NEW d \in Directions, Speak(d) PROVE HoldTyped'
  BY <1>8 DEF Speak, SpeechOnly, SpeechDies, SpeechEnds
<1>9. CASE UNCHANGED vars
  BY <1>9 DEF vars
<1> QED
  BY <1>1, <1>2, <1>3, <1>4, <1>5, <1>6, <1>7, <1>8, <1>9
  DEF Next, Work, MainWork, Finished, Stt, Translator

-----------------------------------------------------------------------------
(***************************************************************************)
(* The buffer.  What it releases are jobs, numbered on from the last one.  *)
(***************************************************************************)
Releases(d, texts, jobs, then) ==
  queue' = [queue EXCEPT ![d].text = texts, ![d].sentence = @ \o jobs \o then]

LEMMA EmitType ==
  ASSUME Typed, NEW d \in Directions, NEW candidates \in Seq(Text), NEW texts, NEW then,
         Emit(d, texts, candidates, then)
  PROVE  CountTyped' /\ \E jobs \in Seq(Jobs) : Releases(d, texts, jobs, then)
<1> DEFINE emitted == Translatable(candidates)
           n == count[d].sentence
<1>1. emitted \in Seq(Text) /\ Len(emitted) \in Nat
  BY TranslatableType
<1>2. n \in Nat
  BY DEF Typed, CountTyped
<1>3. count' = [count EXCEPT ![d].sentence = @ + Len(emitted)]
  BY DEF Emit
<1>4. CountTyped'
  BY <1>1, <1>2, <1>3 DEF Typed, CountTyped
<1>5. Numbered(emitted, n) \in Seq(Jobs)
  BY <1>1, <1>2, NumberedType
<1>6. Releases(d, texts, Numbered(emitted, n), then)
  BY DEF Emit, Releases
<1> QED
  BY <1>4, <1>5, <1>6

LEMMA BufferRelease ==
  ASSUME Typed, NEW d \in Directions, Buffer(d), ~IgnoreFragment(d)
  PROVE  /\ BufferTyped' /\ CountTyped'
         /\ \E jobs \in Seq(Jobs) :
              \/ /\ AddFragment(d) /\ Head(queue[d].text) # Sentinel
                 /\ Releases(d, Tail(queue[d].text), jobs, <<>>)
              \/ BufferTimeout(d) /\ Releases(d, <<>>, jobs, <<>>)
              \/ /\ BufferEnds(d) /\ Head(queue[d].text) = Sentinel
                 /\ Releases(d, Tail(queue[d].text), jobs, <<Sentinel>>)
<1>0. buffer[d] \in Text
  BY DEF Typed, BufferTyped
<1>1. CASE AddFragment(d)
  <2> DEFINE fragment == Head(queue[d].text).text
             text == Pending(d)
             rest == Unfinished(text)
             candidates == IF Full(rest) THEN Append(Sentences(text), rest) ELSE Sentences(text)
  <2>1. queue[d].text \in Seq(Entries) /\ queue[d].text # <<>> /\ Head(queue[d].text) # Sentinel
    BY <1>1 DEF Typed, QueuesTyped, AddFragment
  <2>2. Head(queue[d].text) \in Jobs
    BY <2>1 DEF Entries
  <2>3. text \in Text
    BY <1>0, <2>2 DEF Pending, Jobs, Text
  <2>4. Sentences(text) \in Seq(Text) /\ rest \in Text
    BY <2>3, SplitType DEF Sentences, Unfinished, Text
  <2>5. candidates \in Seq(Text)
    BY <2>4
  <2>6. Emit(d, Tail(queue[d].text), candidates, <<>>)
    BY <1>1 DEF AddFragment
  <2>7. CountTyped' /\ \E jobs \in Seq(Jobs) : Releases(d, Tail(queue[d].text), jobs, <<>>)
    BY <2>5, <2>6, EmitType
  <2>8. buffer' = [buffer EXCEPT ![d] = IF Full(rest) THEN <<>> ELSE rest]
    BY <1>1 DEF AddFragment
  <2>9. BufferTyped'
    BY <2>4, <2>8, SentinelType DEF Typed, BufferTyped
  <2> QED
    BY <1>1, <2>1, <2>7, <2>9
<1>2. CASE BufferTimeout(d)
  <2>1. <<buffer[d]>> \in Seq(Text)
    BY <1>0
  <2>2. CountTyped' /\ \E jobs \in Seq(Jobs) : Releases(d, <<>>, jobs, <<>>)
    BY <1>2, <2>1, EmitType DEF BufferTimeout
  <2>3. BufferTyped'
    BY <1>2, SentinelType DEF BufferTimeout, Typed, BufferTyped
  <2> QED
    BY <1>2, <2>2, <2>3
<1>3. CASE BufferEnds(d)
  <2> DEFINE candidates == IF buffer[d] # <<>> THEN <<buffer[d]>> ELSE <<>>
  <2>1. candidates \in Seq(Text)
    BY <1>0
  <2>2. Emit(d, Tail(queue[d].text), candidates, <<Sentinel>>) /\ Head(queue[d].text) = Sentinel
    BY <1>3 DEF BufferEnds
  <2>3. CountTyped' /\ \E jobs \in Seq(Jobs) : Releases(d, Tail(queue[d].text), jobs, <<Sentinel>>)
    BY <2>1, <2>2, EmitType
  <2>4. BufferTyped'
    BY <1>3, SentinelType DEF BufferEnds, Typed, BufferTyped
  <2> QED
    BY <1>3, <2>2, <2>3, <2>4
<1> QED
  BY <1>1, <1>2, <1>3 DEF Buffer

LEMMA CountStep == ASSUME Typed, [Next]_vars PROVE CountTyped' /\ BufferTyped'
<1> USE DEF Typed, CountTyped, BufferTyped
<1>1. CASE MainWork
  BY <1>1 DEF MainWork, MainOnly, LoadModel, InterruptUncaught, Interrupt, Leave, StartWorkers
<1>2. CASE Producer \/ RecordingFails \/ SaveChunkFails
  BY <1>2 DEF Producer, ProducerOnly, RecordingFails, SaveChunkFails, RecorderLoop, RecorderCheck, RecorderPut,
     WavPut, WavEnd
<1>3. ASSUME NEW d \in Directions, WakeStt(d) \/ Stt(d) PROVE CountTyped' /\ BufferTyped'
  BY <1>3 DEF WakeStt, MainOnly, Stt, SttOnly, SttTake, SttEnds, SttLock, Transcribes, SttFails,
     SttFinish
<1>4. ASSUME NEW d \in Directions, Buffer(d) PROVE CountTyped' /\ BufferTyped'
  <2>1. CASE IgnoreFragment(d)
    BY <2>1 DEF IgnoreFragment
  <2>2. CASE ~IgnoreFragment(d)
    BY <1>4, <2>2, BufferRelease
  <2> QED
    BY <2>1, <2>2
<1>5. ASSUME NEW d \in Directions, Translator(d) \/ Speak(d) PROVE CountTyped' /\ BufferTyped'
  BY <1>5 DEF Translator, TranslatorOnly, TranslatorTake, Translated, TranslatorFails,
     TranslatorEnds, Speak, SpeechOnly, SpeechDies, SpeechEnds
<1>6. CASE UNCHANGED vars
  BY <1>6 DEF vars
<1> QED
  BY <1>1, <1>2, <1>3, <1>4, <1>5, <1>6 DEF Next, Work, MainWork, Finished

-----------------------------------------------------------------------------
(***************************************************************************)
(* The queues.  A stage that is not done has put no sentinel on its queue, *)
(* and one that is done has found the queue before it closed and empty.    *)
(***************************************************************************)
Between(d, q, writer, reader) ==
  /\ Closed(queue[d][q])
  /\ pc[d][writer] # "done" => NoEnd(queue[d][q])
  /\ pc[d][reader] = "done" => queue[d][q] = <<>> /\ pc[d][writer] = "done"

Line(d) ==
  /\ Between(d, "text", "stt", "buffer")
  /\ Between(d, "sentence", "buffer", "translator")
  /\ Between(d, "translated", "translator", "speech")

IInv == Typed /\ \A d \in Directions : Line(d)

\* The other direction, and what no stage between the queues touches.
Aside(d) == \A e \in Directions \ {d} : queue'[e] = queue[e] /\ pc'[e] = pc[e]

LEMMA QuietLine ==
  ASSUME IInv, NEW e \in Directions,
         \A q \in {"text", "sentence", "translated"} : queue'[e][q] = queue[e][q],
         \A s \in Stages \ {"producer"} : pc'[e][s] = "done" <=> pc[e][s] = "done"
  PROVE  Line(e)'
BY DEF IInv, Line, Between, Closed, NoEnd

LEMMA StageLine ==
  ASSUME IInv, NEW d \in Directions, Aside(d), QueuesTyped', Line(d)'
  PROVE  QueuesTyped' /\ \A e \in Directions : Line(e)'
BY QuietLine DEF Aside

LEMMA InitIInv == Fresh => IInv
<1> SUFFICES ASSUME Fresh PROVE IInv
  OBVIOUS
<1>1. \A d \in Directions : Line(d)
  BY DEF Fresh, Line, Between, Closed, NoEnd
<1> QED
  BY <1>1, InitType DEF IInv

LEMMA MainLine ==
  ASSUME IInv, MainWork PROVE QueuesTyped' /\ \A e \in Directions : Line(e)'
<1>1. queue' = queue
  BY DEF MainWork, LoadModel, InterruptUncaught, Interrupt, Leave, StartWorkers
<1>2. \A e \in Directions, s \in Stages : pc'[e][s] = "done" <=> pc[e][s] = "done"
  BY DEF IInv, Typed, PlacesTyped, MainWork, LoadModel, InterruptUncaught, Interrupt, Leave, StartWorkers
<1> QED
  BY <1>1, <1>2, QuietLine DEF IInv, Typed, QueuesTyped

LEMMA ProducerLine ==
  ASSUME IInv, Producer \/ RecordingFails \/ SaveChunkFails \/ \E d \in Directions : WakeStt(d)
  PROVE  QueuesTyped' /\ \A e \in Directions : Line(e)'
<1> USE DEF IInv, Typed
<1>1. \A e \in Directions, s \in Stages \ {"producer"} : pc'[e][s] = pc[e][s]
  BY DEF PlacesTyped, Producer, RecordingFails, SaveChunkFails, RecorderLoop, RecorderCheck, RecorderPut, WavPut,
     WavEnd, WakeStt, Goto
<1>2. \A e \in Directions, q \in {"text", "sentence", "translated"} : queue'[e][q] = queue[e][q]
  BY DEF QueuesTyped, Producer, RecordingFails, SaveChunkFails, RecorderLoop, RecorderCheck, RecorderPut, WavPut,
     WavEnd, WakeStt
<1>3. \A d \in Directions : count[d].chunk \in Nat
  BY DEF CountTyped
<1>4. \A d \in Directions : Item(count[d].chunk + 1, <<>>) \in Entries /\ Item(1, <<>>) \in Entries
  BY <1>3, JobType, SentinelType DEF Entries
<1>5. ASSUME NEW d \in Directions, NEW x \in Entries,
             queue' = [queue EXCEPT ![d].audio = Append(@, x)]
      PROVE  QueuesTyped'
  <2>1. Append(queue[d].audio, x) \in Seq(Entries)
    BY DEF QueuesTyped
  <2> QED
    BY <1>5, <2>1 DEF QueuesTyped
<1>6. ASSUME RecorderPut \/ WavPut \/ WavEnd \/ \E d \in Directions : WakeStt(d)
      PROVE  QueuesTyped'
  BY <1>4, <1>5, <1>6, SentinelType DEF RecorderPut, WavPut, WavEnd, WakeStt
<1>7. ASSUME RecordingFails \/ SaveChunkFails \/ RecorderLoop \/ RecorderCheck PROVE QueuesTyped'
  BY <1>7 DEF QueuesTyped, RecordingFails, SaveChunkFails, RecorderLoop, RecorderCheck
<1>8. QueuesTyped'
  BY <1>6, <1>7 DEF Producer
<1> QED
  BY <1>1, <1>2, <1>8, QuietLine

LEMMA SttLine ==
  ASSUME IInv, NEW d \in Directions, Stt(d)
  PROVE  QueuesTyped' /\ \A e \in Directions : Line(e)'
<1> USE DEF IInv, Typed
<1> DEFINE line == queue[d]
<1>0. line.audio \in Seq(Entries) /\ line.text \in Seq(Entries)
  BY DEF QueuesTyped
<1>1. CASE SttTake(d)
  <2>0. Tail(line.audio) \in Seq(Entries)
    BY <1>0, <1>1 DEF SttTake
  <2>1. QueuesTyped'
    BY <2>0, <1>1 DEF SttTake, QueuesTyped
  <2>2. \A e \in Directions, q \in {"text", "sentence", "translated"} : queue'[e][q] = queue[e][q]
    BY <1>1 DEF SttTake, QueuesTyped
  <2>3. \A e \in Directions, s \in Stages : pc'[e][s] = "done" <=> pc[e][s] = "done"
    BY <1>1 DEF SttTake, PlacesTyped, At, Goto
  <2> QED
    BY <2>1, <2>2, <2>3, QuietLine
<1>2. CASE SttLock(d)
  <2>1. queue' = queue
    BY <1>2 DEF SttLock
  <2>2. \A e \in Directions, s \in Stages : pc'[e][s] = "done" <=> pc[e][s] = "done"
    BY <1>2 DEF SttLock, PlacesTyped, At, Goto
  <2> QED
    BY <2>1, <2>2, QuietLine DEF QueuesTyped
<1>3. CASE SttEnds(d)
  <2>1. NoEnd(line.text) /\ pc[d].buffer # "done"
    BY <1>3 DEF SttEnds, At, Line, Between
  <2>2. Append(line.text, Sentinel) \in Seq(Entries) /\ Closed(Append(line.text, Sentinel))
    BY <1>0, <2>1, AppendOpen, SentinelType
  <2>0. Tail(line.audio) \in Seq(Entries)
    BY <1>0, <1>3 DEF SttEnds
  <2>3. QueuesTyped'
    BY <2>0, <1>3, <2>2 DEF SttEnds, QueuesTyped
  <2>4. /\ Aside(d) /\ queue'[d].text = Append(line.text, Sentinel)
        /\ queue'[d].sentence = line.sentence /\ queue'[d].translated = line.translated
        /\ pc'[d] = [pc[d] EXCEPT !.stt = "done"]
    BY <1>3 DEF SttEnds, QueuesTyped, PlacesTyped, Goto, Aside
  <2>7. pc'[d].stt = "done" /\ pc'[d].buffer # "done"
    BY <2>1, <2>4 DEF PlacesTyped
  <2>5. Between(d, "text", "stt", "buffer")'
    BY <2>2, <2>4, <2>7 DEF Between, Closed
  <2>6. Between(d, "sentence", "buffer", "translator")' /\ Between(d, "translated", "translator", "speech")'
    BY <2>4 DEF Line, Between, PlacesTyped, Closed, NoEnd
  <2> QED
    BY <2>3, <2>4, <2>5, <2>6, StageLine DEF Line
<1>4. ASSUME NEW text \in Text, SttFinish(d, text)
      PROVE  QueuesTyped' /\ \A e \in Directions : Line(e)'
  <2> DEFINE item == Item(hold[d].stt.id, text)
             texts == IF Noise(text) THEN line.text ELSE Append(line.text, item)
  <2>1. NoEnd(line.text) /\ pc[d].buffer # "done" /\ hold[d].stt \in Jobs
    BY <1>4 DEF SttFinish, At, Line, Between, HoldTyped
  <2>2. item \in Jobs
    BY <2>1, JobType DEF Jobs
  <2>3. texts \in Seq(Entries) /\ Closed(texts) /\ NoEnd(texts)
    BY <1>0, <2>1, <2>2, AppendOpen DEF Entries, Closed, NoEnd
  <2>4. QueuesTyped'
    BY <1>0, <1>4, <2>3 DEF SttFinish, QueuesTyped
  <2>5. /\ Aside(d) /\ queue'[d].text = texts
        /\ queue'[d].sentence = line.sentence /\ queue'[d].translated = line.translated
        /\ pc'[d] = [pc[d] EXCEPT !.stt = "loop"]
    BY <1>4 DEF SttFinish, QueuesTyped, PlacesTyped, Goto, Aside
  <2>6. Line(d)'
    BY <2>1, <2>3, <2>5 DEF Line, Between, PlacesTyped
  <2> QED
    BY <2>4, <2>5, <2>6, StageLine
<1>5. CASE Transcribes(d)
  <2>1. hold[d].stt.id \in Nat
    BY <1>5 DEF Transcribes, SttFinish, At, HoldTyped, Jobs
  <2> QED
    BY <1>5, <2>1, <1>4, SpokenType DEF Transcribes
<1>6. CASE SttFails(d)
  BY <1>6, <1>4, SentinelType DEF SttFails
<1> QED
  BY <1>1, <1>2, <1>3, <1>5, <1>6 DEF Stt

LEMMA BufferLine ==
  ASSUME IInv, NEW d \in Directions, Buffer(d)
  PROVE  QueuesTyped' /\ \A e \in Directions : Line(e)'
<1> USE DEF IInv, Typed
<1> DEFINE line == queue[d]
<1>0. /\ line.text \in Seq(Entries) /\ line.sentence \in Seq(Entries)
      /\ Between(d, "text", "stt", "buffer") /\ Between(d, "sentence", "buffer", "translator")
      /\ Between(d, "translated", "translator", "speech")
  BY DEF QueuesTyped, Line
<1>1. pc[d].buffer = "loop"
  BY DEF Buffer, IgnoreFragment, AddFragment, BufferTimeout, BufferEnds, At
<1>2. NoEnd(line.sentence) /\ Closed(line.text) /\ pc[d].translator # "done"
  BY <1>0, <1>1 DEF Between
\* What is left of the text queue, and the stage goes on.
<1>3. ASSUME NEW texts \in Seq(Entries), Closed(texts), NoEnd(line.text) => NoEnd(texts),
             NEW sentences \in Seq(Entries), NoEnd(sentences), Aside(d), pc' = pc,
             queue'[d].text = texts, queue'[d].sentence = sentences,
             queue'[d].translated = line.translated, QueuesTyped'
      PROVE  QueuesTyped' /\ \A e \in Directions : Line(e)'
  <2>1. Between(d, "text", "stt", "buffer")'
    BY <1>0, <1>1, <1>3 DEF Between
  <2>2. Between(d, "sentence", "buffer", "translator")'
    BY <1>1, <1>2, <1>3 DEF Between, Closed, NoEnd
  <2>3. Between(d, "translated", "translator", "speech")'
    BY <1>0, <1>3 DEF Between
  <2> QED
    BY <1>3, <2>1, <2>2, <2>3, StageLine DEF Line
<1>4. ASSUME line.text # <<>>
      PROVE  /\ Tail(line.text) \in Seq(Entries) /\ Closed(Tail(line.text))
             /\ NoEnd(line.text) => NoEnd(Tail(line.text))
             /\ Head(line.text) = Sentinel => Tail(line.text) = <<>> /\ pc[d].stt = "done"
  BY <1>0, <1>2, <1>4, TailClosed DEF Between
<1>5. CASE IgnoreFragment(d)
  <2>1. queue' = [queue EXCEPT ![d].text = Tail(@)] /\ pc' = pc /\ line.text # <<>>
    BY <1>5 DEF IgnoreFragment
  <2>2. QueuesTyped' /\ Aside(d)
    BY <1>4, <2>1 DEF QueuesTyped, Aside
  <2>3. /\ queue'[d].text = Tail(line.text) /\ queue'[d].sentence = line.sentence
        /\ queue'[d].translated = line.translated
    BY <2>1 DEF QueuesTyped
  <2> QED
    BY <1>0, <1>2, <1>3, <1>4, <2>1, <2>2, <2>3
<1>6. ASSUME NEW texts \in Seq(Entries), NEW jobs \in Seq(Jobs), NEW then \in Seq(Entries),
             Releases(d, texts, jobs, then)
      PROVE  /\ QueuesTyped' /\ \A e \in Directions \ {d} : queue'[e] = queue[e]
             /\ queue'[d].text = texts /\ queue'[d].sentence = line.sentence \o jobs \o then
             /\ queue'[d].translated = line.translated
             /\ line.sentence \o jobs \in Seq(Entries) /\ NoEnd(line.sentence \o jobs)
  <2>1. line.sentence \o jobs \in Seq(Entries) /\ NoEnd(line.sentence \o jobs)
    BY <1>0, <1>2, ConcatOpen
  <2>2. line.sentence \o jobs \o then \in Seq(Entries)
    BY <2>1
  <2>3. queue' = [queue EXCEPT ![d].text = texts, ![d].sentence = line.sentence \o jobs \o then]
    BY <1>6 DEF Releases, QueuesTyped
  <2> QED
    BY <2>1, <2>2, <2>3 DEF QueuesTyped
<1>7. ASSUME NEW texts \in Seq(Entries), Closed(texts), NoEnd(line.text) => NoEnd(texts),
             NEW jobs \in Seq(Jobs), Releases(d, texts, jobs, <<>>), pc' = pc
      PROVE  QueuesTyped' /\ \A e \in Directions : Line(e)'
  <2>1. <<>> \in Seq(Entries)
    OBVIOUS
  <2>2. line.sentence \o jobs \o <<>> = line.sentence \o jobs
    BY <2>1, <1>6, <1>7, ConcatEmptySeq
  <2>3. Aside(d)
    BY <2>1, <1>6, <1>7 DEF Aside
  <2> QED
    BY <1>3, <1>6, <1>7, <2>1, <2>2, <2>3
<1>8. CASE ~IgnoreFragment(d)
  <2>1. PICK jobs \in Seq(Jobs) :
              \/ /\ AddFragment(d) /\ Head(line.text) # Sentinel
                 /\ Releases(d, Tail(line.text), jobs, <<>>)
              \/ BufferTimeout(d) /\ Releases(d, <<>>, jobs, <<>>)
              \/ /\ BufferEnds(d) /\ Head(line.text) = Sentinel
                 /\ Releases(d, Tail(line.text), jobs, <<Sentinel>>)
    BY <1>8, BufferRelease
  <2>2. CASE AddFragment(d) /\ Releases(d, Tail(line.text), jobs, <<>>)
    BY <2>2, <1>4, <1>7 DEF AddFragment
  <2>3. CASE BufferTimeout(d) /\ Releases(d, <<>>, jobs, <<>>)
    <3>1. <<>> \in Seq(Entries) /\ Closed(<<>>) /\ NoEnd(<<>>)
      BY DEF Closed, NoEnd
    <3> QED
      BY <2>3, <3>1, <1>7 DEF BufferTimeout, BufferOnly
  <2>4. CASE /\ BufferEnds(d) /\ Head(line.text) = Sentinel
             /\ Releases(d, Tail(line.text), jobs, <<Sentinel>>)
    <3>1. Tail(line.text) = <<>> /\ pc[d].stt = "done" /\ Tail(line.text) \in Seq(Entries)
      BY <2>4, <1>4 DEF BufferEnds
    <3>2. <<Sentinel>> \in Seq(Entries)
      BY SentinelType
    <3>0. <<>> \in Seq(Entries) /\ Releases(d, <<>>, jobs, <<Sentinel>>)
      BY <2>4, <3>1
    <3>3. /\ QueuesTyped' /\ queue'[d].text = <<>>
          /\ queue'[d].sentence = line.sentence \o jobs \o <<Sentinel>>
          /\ queue'[d].translated = line.translated /\ \A e \in Directions \ {d} : queue'[e] = queue[e]
          /\ line.sentence \o jobs \in Seq(Entries) /\ NoEnd(line.sentence \o jobs)
      BY <3>0, <3>2, <1>6
    <3>4. Closed(queue'[d].sentence)
      <4>1. line.sentence \o jobs \o <<Sentinel>> = Append(line.sentence \o jobs, Sentinel)
        BY <3>3, SentinelType
      <4> QED
        BY <4>1, <3>3, AppendOpen, SentinelType
    <3>5. Aside(d) /\ pc'[d] = [pc[d] EXCEPT !.buffer = "done"]
      BY <2>4, <3>3 DEF BufferEnds, Goto, Aside, PlacesTyped
    <3>6. Between(d, "text", "stt", "buffer")'
      BY <3>1, <3>3, <3>5 DEF Between, PlacesTyped, Closed, NoEnd
    <3>7. Between(d, "sentence", "buffer", "translator")'
      BY <1>2, <3>4, <3>5 DEF Between, PlacesTyped
    <3>8. Between(d, "translated", "translator", "speech")'
      BY <1>0, <3>3, <3>5 DEF Between, PlacesTyped
    <3> QED
      BY <3>3, <3>5, <3>6, <3>7, <3>8, StageLine DEF Line
  <2> QED
    BY <2>1, <2>2, <2>3, <2>4
<1> QED
  BY <1>5, <1>8

LEMMA TranslatorLine ==
  ASSUME IInv, NEW d \in Directions, Translator(d)
  PROVE  QueuesTyped' /\ \A e \in Directions : Line(e)'
<1> USE DEF IInv, Typed
<1> DEFINE line == queue[d]
<1>0. /\ line.sentence \in Seq(Entries) /\ line.translated \in Seq(Entries)
      /\ Between(d, "text", "stt", "buffer") /\ Between(d, "sentence", "buffer", "translator")
      /\ Between(d, "translated", "translator", "speech")
  BY DEF QueuesTyped, Line
<1>1. pc[d].translator \in {"loop", "translate"}
  BY DEF Translator, TranslatorTake, Translated, TranslatorFails, TranslatorEnds, At
<1>2. NoEnd(line.translated) /\ Closed(line.sentence) /\ pc[d].speech # "done"
  BY <1>0, <1>1 DEF Between
<1>3. ASSUME line.sentence # <<>>
      PROVE  /\ Tail(line.sentence) \in Seq(Entries) /\ Closed(Tail(line.sentence))
             /\ NoEnd(line.sentence) => NoEnd(Tail(line.sentence))
             /\ Head(line.sentence) = Sentinel => Tail(line.sentence) = <<>> /\ pc[d].buffer = "done"
  BY <1>0, <1>2, <1>3, TailClosed DEF Between
<1>4. CASE TranslatorTake(d)
  <2>1. /\ queue' = [queue EXCEPT ![d].sentence = Tail(@)] /\ line.sentence # <<>>
        /\ pc' = [pc EXCEPT ![d]["translator"] = "translate"]
    BY <1>4 DEF TranslatorTake, Goto
  <2>2. QueuesTyped' /\ Aside(d)
    BY <1>3, <2>1 DEF QueuesTyped, PlacesTyped, Aside
  <2>3. /\ queue'[d].sentence = Tail(line.sentence) /\ queue'[d].text = line.text
        /\ queue'[d].translated = line.translated
        /\ pc'[d] = [pc[d] EXCEPT !.translator = "translate"]
    BY <2>1 DEF QueuesTyped, PlacesTyped
  <2>4. Between(d, "text", "stt", "buffer")' /\ Between(d, "sentence", "buffer", "translator")'
    BY <1>0, <1>3, <2>1, <2>3 DEF Between, PlacesTyped
  <2>5. Between(d, "translated", "translator", "speech")'
    BY <1>2, <2>3 DEF Between, PlacesTyped, Closed, NoEnd
  <2> QED
    BY <2>2, <2>4, <2>5, StageLine DEF Line
<1>5. CASE Translated(d)
  <2>1. /\ queue' = [queue EXCEPT ![d].translated = Append(@, hold[d].translator)]
        /\ pc' = [pc EXCEPT ![d]["translator"] = "loop"] /\ hold[d].translator \in Jobs
    BY <1>5 DEF Translated, Goto, At, HoldTyped
  <2>2. /\ Append(line.translated, hold[d].translator) \in Seq(Entries)
        /\ Closed(Append(line.translated, hold[d].translator))
        /\ NoEnd(Append(line.translated, hold[d].translator))
    BY <1>0, <1>2, <2>1, AppendOpen DEF Entries
  <2>3. QueuesTyped' /\ Aside(d)
    BY <2>1, <2>2 DEF QueuesTyped, PlacesTyped, Aside
  <2>4. /\ queue'[d].sentence = line.sentence /\ queue'[d].text = line.text
        /\ queue'[d].translated = Append(line.translated, hold[d].translator)
        /\ pc'[d] = [pc[d] EXCEPT !.translator = "loop"]
    BY <2>1 DEF QueuesTyped, PlacesTyped
  <2>5. Between(d, "text", "stt", "buffer")' /\ Between(d, "sentence", "buffer", "translator")'
    BY <1>0, <2>4 DEF Between, PlacesTyped
  <2>8. pc'[d].translator = "loop" /\ pc'[d].speech # "done"
    BY <1>2, <2>4 DEF PlacesTyped
  <2>6. Between(d, "translated", "translator", "speech")'
    BY <2>2, <2>4, <2>8 DEF Between
  <2> QED
    BY <2>3, <2>5, <2>6, StageLine DEF Line
<1>6. CASE TranslatorFails(d)
  <2>1. queue' = queue
    BY <1>6 DEF TranslatorFails
  <2>2. \A e \in Directions, s \in Stages : pc'[e][s] = "done" <=> pc[e][s] = "done"
    BY <1>6 DEF TranslatorFails, PlacesTyped, At, Goto
  <2> QED
    BY <2>1, <2>2, QuietLine DEF QueuesTyped
<1>7. CASE TranslatorEnds(d)
  <2>1. /\ queue' = [queue EXCEPT ![d].sentence = Tail(@), ![d].translated = Append(@, Sentinel)]
        /\ pc' = [pc EXCEPT ![d]["translator"] = "done"]
        /\ line.sentence # <<>> /\ Head(line.sentence) = Sentinel
    BY <1>7 DEF TranslatorEnds, Goto
  <2>2. /\ Append(line.translated, Sentinel) \in Seq(Entries)
        /\ Closed(Append(line.translated, Sentinel))
    BY <1>0, <1>2, AppendOpen, SentinelType
  <2>3. QueuesTyped' /\ Aside(d)
    BY <1>3, <2>1, <2>2 DEF QueuesTyped, PlacesTyped, Aside
  <2>4. /\ queue'[d].sentence = <<>> /\ queue'[d].text = line.text
        /\ queue'[d].translated = Append(line.translated, Sentinel)
        /\ pc'[d] = [pc[d] EXCEPT !.translator = "done"]
    BY <1>3, <2>1 DEF QueuesTyped, PlacesTyped
  <2>5. Between(d, "text", "stt", "buffer")'
    BY <1>0, <2>4 DEF Between, PlacesTyped
  <2>6. Between(d, "sentence", "buffer", "translator")'
    BY <1>3, <2>1, <2>4 DEF Between, PlacesTyped, Closed, NoEnd
  <2>8. pc'[d].translator = "done" /\ pc'[d].speech # "done"
    BY <1>2, <2>4 DEF PlacesTyped
  <2>7. Between(d, "translated", "translator", "speech")'
    BY <2>2, <2>4, <2>8 DEF Between
  <2> QED
    BY <2>3, <2>5, <2>6, <2>7, StageLine DEF Line
<1> QED
  BY <1>4, <1>5, <1>6, <1>7 DEF Translator

LEMMA SpeechLine ==
  ASSUME IInv, NEW d \in Directions, Speak(d)
  PROVE  QueuesTyped' /\ \A e \in Directions : Line(e)'
<1> USE DEF IInv, Typed
<1> DEFINE line == queue[d]
<1>0. /\ line.translated \in Seq(Entries)
      /\ Between(d, "text", "stt", "buffer") /\ Between(d, "sentence", "buffer", "translator")
      /\ Between(d, "translated", "translator", "speech")
  BY DEF QueuesTyped, Line
<1>1. line.translated # <<>> /\ queue' = [queue EXCEPT ![d].translated = Tail(@)]
  BY DEF Speak, SpeechDies, SpeechEnds
<1>2. /\ Tail(line.translated) \in Seq(Entries) /\ Closed(Tail(line.translated))
      /\ NoEnd(line.translated) => NoEnd(Tail(line.translated))
      /\ Head(line.translated) = Sentinel =>
           Tail(line.translated) = <<>> /\ pc[d].translator = "done"
  BY <1>0, <1>1, TailClosed DEF Between
<1>3. PICK stage \in StagePlaces : pc' = [pc EXCEPT ![d]["speech"] = stage]
                             /\ (stage = "done" => Head(line.translated) = Sentinel)
  BY DEF Speak, SpeechDies, SpeechEnds, Goto
<1>4. QueuesTyped' /\ Aside(d)
  BY <1>1, <1>2, <1>3 DEF QueuesTyped, PlacesTyped, Aside
<1>5. /\ queue'[d].sentence = line.sentence /\ queue'[d].text = line.text
      /\ queue'[d].translated = Tail(line.translated)
      /\ pc'[d] = [pc[d] EXCEPT !.speech = stage]
  BY <1>1, <1>3 DEF QueuesTyped, PlacesTyped
<1>6. Between(d, "text", "stt", "buffer")' /\ Between(d, "sentence", "buffer", "translator")'
  BY <1>0, <1>5 DEF Between, PlacesTyped
<1>7. Between(d, "translated", "translator", "speech")'
  BY <1>0, <1>2, <1>3, <1>5 DEF Between, PlacesTyped
<1> QED
  BY <1>4, <1>6, <1>7, StageLine DEF Line

LEMMA StepIInv == IInv /\ [Next]_vars => IInv'
<1> SUFFICES ASSUME IInv, [Next]_vars PROVE IInv'
  OBVIOUS
<1>1. PlacesTyped' /\ HoldTyped' /\ CountTyped' /\ BufferTyped'
  BY PlacesStep, HoldStep, CountStep DEF IInv
<1>2. CASE UNCHANGED vars
  <2>1. queue' = queue /\ pc' = pc
    BY <1>2 DEF vars
  <2> QED
    BY <1>1, <2>1, QuietLine DEF IInv, Typed, QueuesTyped
<1>3. CASE Next /\ ~UNCHANGED vars
  <2>1. QueuesTyped' /\ \A e \in Directions : Line(e)'
    BY <1>3, MainLine, ProducerLine, SttLine, BufferLine, TranslatorLine, SpeechLine
    DEF Next, Work, MainWork, Finished
  <2> QED
    BY <1>1, <2>1 DEF IInv, Typed
<1> QED
  BY <1>2, <1>3

LEMMA LinesClosed == IInv => SentinelComesLast
<1>1. /\ DOMAIN Writer = {"text", "sentence", "translated"}
      /\ Writer["text"] = "stt" /\ Writer["sentence"] = "buffer"
      /\ Writer["translated"] = "translator"
      /\ Reader["text"] = "buffer" /\ Reader["sentence"] = "translator"
      /\ Reader["translated"] = "speech"
  BY DEF Writer, Reader
<1>2. ASSUME IInv, NEW d \in Directions, NEW q \in DOMAIN Writer
      PROVE  Between(d, q, Writer[q], Reader[q])
  BY <1>1, <1>2 DEF IInv, Line
<1> QED
  BY <1>2 DEF SentinelComesLast, Between, Closed, NoEnd

\* Whatever Whisper returns, however many chunks are recorded and whenever the stop
\* comes, between two stages the sentinel is the last item of its queue, and a stage
\* that ends by it has handled all that was queued for it (stop_pipelines and the
\* stages of main.py).
THEOREM PrototypeSentinel == Spec => []SentinelComesLast
<1>1. Init => IInv
  BY InitIInv DEF Init
<1> QED
  BY StepIInv, LinesClosed, <1>1, PTL DEF Spec

-----------------------------------------------------------------------------
(***************************************************************************)
(* The chunks of the microphone.  They are queued in the order they were   *)
(* recorded, and the main thread wakes the first stage once, after it has  *)
(* set the stop event: the recorder, which looks at the event before it    *)
(* saves another chunk, has at most one to put behind the sentinel.        *)
(***************************************************************************)
Audio == queue["me"].audio

\* What Late says of a queue and of a stage that is done or not.
LateIn(audio, done) ==
  {j \in 1 .. Len(audio) :
     audio[j] # Sentinel /\ (done \/ \E i \in 1 .. j - 1 : audio[i] = Sentinel)}

Recorded(audio, first, last) ==
  /\ \A i \in 1 .. Len(audio) : audio[i] # Sentinel => audio[i].id \in first + 1 .. last
  /\ \A i, j \in 1 .. Len(audio) :
       i < j /\ audio[i] # Sentinel /\ audio[j] # Sentinel => audio[i].id < audio[j].id

Woken == pc["me"].stt = "done" \/ ~NoEnd(Audio)

Ids(audio) == {audio[i].id : i \in 1 .. Len(audio)}

\* The chunks that wait for their transcription.
WaitingChunks == {n \in 1 .. count["me"].chunk : n = hold["me"].stt.id \/ n \in Ids(Audio)}

StraysTyped == strays \in [torn : SUBSET Nat, kept : SUBSET Nat]

\* A file is there for a chunk that waits, or because its deletion failed.
Filed ==
  /\ StraysTyped /\ strays.kept \subseteq 1 .. count["me"].chunk
  /\ WaitingChunks \cap strays.kept = {}
  /\ DOMAIN files = Directions /\ files["me"] = WaitingChunks \cup strays.kept

Chunks ==
  /\ Filed
  /\ Recorded(Audio, hold["me"].stt.id, count["me"].chunk)
  /\ hold["me"].stt.id \in 0 .. count["me"].chunk
  /\ pc["me"].stt \notin {"lock", "transcribe"} => hold["me"].stt = Sentinel

TooLate == LateIn(Audio, pc["me"].stt = "done")

Stopping ==
  /\ main = "me" => stop
  /\ Woken => stop /\ main \notin {"load", "start", "run", "me"}
  /\ \A i, j \in TooLate : i = j
  /\ TooLate # {} => pc["me"].producer # "save"

CInv == IInv /\ Chunks /\ Stopping

LEMMA NoneLate ==
  ASSUME NEW q \in Seq(Entries), NoEnd(q)
  PROVE  LateIn(q, FALSE) = {}
BY DEF LateIn, NoEnd

\* A chunk put behind late ones is late as well, and no other becomes late.
LEMMA LateAppend ==
  ASSUME NEW q \in Seq(Entries), NEW x \in Entries, NEW done \in BOOLEAN
  PROVE  /\ LateIn(Append(q, x), done) \subseteq LateIn(q, done) \cup {Len(q) + 1}
         /\ x = Sentinel => LateIn(Append(q, x), done) = LateIn(q, done)
         /\ LateIn(Append(q, x), done) # LateIn(q, done) => done \/ ~NoEnd(q)
BY DEF LateIn, NoEnd

\* Taking the head moves the late ones up by one.
LEMMA LateTail ==
  ASSUME NEW q \in Seq(Entries), q # <<>>, NEW done \in BOOLEAN,
         done => Head(q) = Sentinel
  PROVE  \A j \in LateIn(Tail(q), done) : j \in Nat /\ j + 1 \in LateIn(q, FALSE)
<1>1. Len(q) \in Nat \ {0} /\ Len(Tail(q)) = Len(q) - 1 /\ Head(q) = q[1]
  OBVIOUS
<1>2. \A i \in 1 .. Len(q) - 1 : Tail(q)[i] = q[i + 1]
  OBVIOUS
<1> SUFFICES ASSUME NEW j \in LateIn(Tail(q), done) PROVE j \in Nat /\ j + 1 \in LateIn(q, FALSE)
  OBVIOUS
<1>3. j \in 1 .. Len(q) - 1 /\ q[j + 1] # Sentinel
  BY <1>1, <1>2 DEF LateIn
<1>4. \E i \in 1 .. (j + 1) - 1 : q[i] = Sentinel
  <2>1. CASE done
    BY <2>1, <1>1, <1>3
  <2>2. CASE ~done
    <3>1. PICK i \in 1 .. j - 1 : Tail(q)[i] = Sentinel
      BY <2>2 DEF LateIn
    <3>2. i + 1 \in 1 .. (j + 1) - 1 /\ q[i + 1] = Sentinel
      BY <3>1, <1>2, <1>3
    <3> QED
      BY <3>2
  <2> QED
    BY <2>1, <2>2
<1> QED
  BY <1>3, <1>4, <1>1 DEF LateIn

LEMMA InitCInv == Fresh /\ main \in {"load", "exited"} => CInv
<1> SUFFICES ASSUME Fresh, main \in {"load", "exited"} PROVE CInv
  OBVIOUS
<1>1. Audio = <<>> /\ hold["me"].stt = Sentinel /\ hold["me"].stt.id = 0 /\ count["me"].chunk = 0
      /\ DOMAIN files = Directions /\ files["me"] = {} /\ pc["me"].stt = "off"
      /\ strays = [torn |-> {}, kept |-> {}]
  BY DEF Fresh, Audio, Sentinel, Item
<1>2. Chunks
  BY <1>1 DEF Chunks, Filed, StraysTyped, Recorded, WaitingChunks, Ids
<1>3. Stopping
  BY <1>1 DEF Stopping, Woken, TooLate, LateIn, NoEnd
<1> QED
  BY <1>2, <1>3, InitIInv DEF CInv

\* A step that leaves the microphone's chunks and the stop alone.
LEMMA QuietChunks ==
  ASSUME CInv, queue'["me"].audio = Audio, hold'["me"].stt = hold["me"].stt,
         count'["me"].chunk = count["me"].chunk,
         files'["me"] = files["me"], DOMAIN files' = DOMAIN files,
         StraysTyped', strays'.kept = strays.kept,
         pc'["me"].stt = pc["me"].stt,
         pc'["me"].producer = "save" => pc["me"].producer = "save",
         stop' = stop, main' = main
  PROVE  Chunks' /\ Stopping'
<1>1. Chunks'
  BY DEF CInv, Chunks, Filed, Recorded, WaitingChunks, Ids, Audio
<1>2. TooLate' = TooLate /\ Woken' = Woken
  BY DEF TooLate, LateIn, Woken, NoEnd, Audio
<1>3. Stopping'
  BY <1>2 DEF CInv, Stopping
<1> QED
  BY <1>1, <1>3

LEMMA MainChunks ==
  ASSUME CInv, MainWork PROVE Chunks' /\ Stopping'
<1> USE DEF CInv, IInv, Typed
<1>1. /\ queue' = queue /\ hold' = hold /\ count' = count /\ files' = files /\ strays' = strays
  BY DEF MainWork, LoadModel, InterruptUncaught, Interrupt, Leave, StartWorkers, MainOnly, disk
<1>2. pc'["me"].stt = pc["me"].stt \/ (pc["me"].stt = "off" /\ pc'["me"].stt = "loop")
  BY DEF PlacesTyped, MainWork, LoadModel, InterruptUncaught, Interrupt, Leave, StartWorkers
<1>3. pc'["me"].producer = "save" => pc["me"].producer = "save"
  BY DEF PlacesTyped, MainWork, LoadModel, InterruptUncaught, Interrupt, Leave, StartWorkers
<1>4. Chunks'
  BY <1>1, <1>2 DEF Chunks, Filed, StraysTyped, Recorded, WaitingChunks, Ids, Audio
<1>5. TooLate' = TooLate /\ Woken' = Woken
  BY <1>1, <1>2 DEF TooLate, LateIn, Woken, NoEnd, Audio
<1>6. /\ main' = "me" => stop'
      /\ Woken => stop' /\ main' \notin {"load", "start", "run", "me"}
  BY DEF Stopping, MainWork, LoadModel, InterruptUncaught, Interrupt, Leave, StartWorkers, MainOnly
<1>7. Stopping'
  BY <1>3, <1>5, <1>6 DEF Stopping
<1> QED
  BY <1>4, <1>7

\* The chunks after one more item, which is the sentinel or the newest chunk.
LEMMA AppendRecorded ==
  ASSUME NEW q \in Seq(Entries), NEW first \in Nat, NEW last \in Nat, Recorded(q, first, last),
         NEW x \in Entries, first <= last
  PROVE  /\ x = Sentinel => Recorded(Append(q, x), first, last)
         /\ x.id = last + 1 => Recorded(Append(q, x), first, last + 1)
<1>1. /\ Len(q) \in Nat /\ Len(Append(q, x)) = Len(q) + 1 /\ Append(q, x)[Len(q) + 1] = x
      /\ \A i \in 1 .. Len(q) : Append(q, x)[i] = q[i]
  OBVIOUS
<1>2. ASSUME x = Sentinel PROVE Recorded(Append(q, x), first, last)
  <2>1. \A i \in 1 .. Len(Append(q, x)) : Append(q, x)[i] # Sentinel => i \in 1 .. Len(q)
    BY <1>1, <1>2
  <2> QED
    BY <1>1, <2>1 DEF Recorded
<1>3. ASSUME x.id = last + 1 PROVE Recorded(Append(q, x), first, last + 1)
  <2>1. \A n \in first + 1 .. last : n \in first + 1 .. last + 1 /\ n < last + 1
    OBVIOUS
  <2>2. last + 1 \in first + 1 .. last + 1
    OBVIOUS
  <2>3. \A i \in 1 .. Len(Append(q, x)) : i \in 1 .. Len(q) \/ i = Len(q) + 1
    BY <1>1
  <2> QED
    BY <1>1, <1>3, <2>1, <2>2, <2>3 DEF Recorded
<1> QED
  BY <1>2, <1>3

LEMMA TailRecorded ==
  ASSUME NEW q \in Seq(Entries), q # <<>>, NEW first \in Nat, NEW last \in Nat,
         Recorded(q, first, last)
  PROVE  /\ Recorded(Tail(q), first, last)
         /\ Head(q) # Sentinel =>
              Head(q).id \in first + 1 .. last /\ Recorded(Tail(q), Head(q).id, last)
<1>1. Len(q) \in Nat \ {0} /\ Len(Tail(q)) = Len(q) - 1 /\ Head(q) = q[1]
  OBVIOUS
<1>2. \A i \in 1 .. Len(q) - 1 : Tail(q)[i] = q[i + 1]
  OBVIOUS
<1>3. Recorded(Tail(q), first, last)
  <2>1. \A i \in 1 .. Len(Tail(q)) : i + 1 \in 1 .. Len(q) /\ Tail(q)[i] = q[i + 1]
    BY <1>1, <1>2
  <2>2. \A i, j \in 1 .. Len(Tail(q)) : i < j => i + 1 < j + 1
    BY <1>1
  <2> QED
    BY <2>1, <2>2 DEF Recorded
<1>4. ASSUME Head(q) # Sentinel
      PROVE  Head(q).id \in first + 1 .. last /\ Recorded(Tail(q), Head(q).id, last)
  <2>1. q[1].id \in first + 1 .. last
    BY <1>1, <1>4 DEF Recorded
  <2>2. \A i \in 1 .. Len(Tail(q)) : Tail(q)[i] # Sentinel => Tail(q)[i].id \in q[1].id + 1 .. last
    BY <1>1, <1>2, <1>4, <2>1 DEF Recorded
  <2> QED
    BY <1>1, <1>3, <2>1, <2>2 DEF Recorded
<1> QED
  BY <1>3, <1>4

LEMMA IdsStep ==
  ASSUME NEW q \in Seq(Entries)
  PROVE  /\ \A x \in Entries : Ids(Append(q, x)) = Ids(q) \cup {x.id}
         /\ q # <<>> => Ids(q) = {Head(q).id} \cup Ids(Tail(q))
<1>1. ASSUME NEW x \in Entries PROVE Ids(Append(q, x)) = Ids(q) \cup {x.id}
  BY DEF Ids
<1>2. ASSUME q # <<>> PROVE Ids(q) = {Head(q).id} \cup Ids(Tail(q))
  <2>1. Len(q) \in Nat \ {0} /\ Len(Tail(q)) = Len(q) - 1 /\ Head(q) = q[1]
    BY <1>2
  <2>2. \A i \in 1 .. Len(q) - 1 : Tail(q)[i] = q[i + 1]
    BY <1>2
  <2>3. ASSUME NEW i \in 1 .. Len(q) PROVE q[i].id \in {Head(q).id} \cup Ids(Tail(q))
    <3>1. CASE i = 1
      BY <3>1, <2>1
    <3>2. CASE i # 1
      <4>1. i - 1 \in 1 .. Len(Tail(q)) /\ Tail(q)[i - 1] = q[i]
        BY <3>2, <2>1, <2>2
      <4> QED
        BY <4>1 DEF Ids
    <3> QED
      BY <3>1, <3>2
  <2>4. ASSUME NEW i \in 1 .. Len(Tail(q)) PROVE Tail(q)[i].id \in Ids(q)
    <3>1. i + 1 \in 1 .. Len(q) /\ Tail(q)[i] = q[i + 1]
      BY <2>1, <2>2
    <3> QED
      BY <3>1 DEF Ids
  <2>5. Head(q).id \in Ids(q)
    BY <2>1 DEF Ids
  <2> QED
    BY <2>3, <2>4, <2>5 DEF Ids
<1> QED
  BY <1>1, <1>2

LEMMA WakeChunks ==
  ASSUME CInv, NEW d \in Directions, WakeStt(d) PROVE Chunks' /\ Stopping'
<1> USE DEF CInv, IInv, Typed
<1>0. pc' = pc /\ hold' = hold /\ count' = count /\ files' = files /\ strays' = strays /\ stop' = stop
  BY DEF WakeStt, MainOnly, disk
<1>1. CASE d = "other"
  <2>1. queue'["me"].audio = Audio /\ main = "other" /\ main' = "join"
    BY <1>1 DEF WakeStt, QueuesTyped, Audio
  <2>2. Chunks'
    BY <1>0, <2>1 DEF Chunks, Filed, StraysTyped, Recorded, WaitingChunks, Ids, Audio
  <2>3. TooLate' = TooLate /\ Woken' = Woken
    BY <1>0, <2>1 DEF TooLate, LateIn, Woken, NoEnd, Audio
  <2> QED
    BY <1>0, <2>1, <2>2, <2>3 DEF Stopping
<1>2. CASE d = "me"
  <2>1. /\ queue'["me"].audio = Append(Audio, Sentinel) /\ Audio \in Seq(Entries)
        /\ main = "me" /\ main' \in {"other", "join"}
    BY <1>2 DEF WakeStt, QueuesTyped, Audio
  <2>2. Audio' = Append(Audio, Sentinel) /\ hold["me"].stt.id \in Nat /\ count["me"].chunk \in Nat
    BY <2>1 DEF Audio, Chunks, CountTyped
  <2>3. Recorded(Audio', hold["me"].stt.id, count["me"].chunk)
    BY <2>1, <2>2, AppendRecorded, SentinelType DEF Chunks
  <2>4. Ids(Audio') = Ids(Audio) \cup {0}
    BY <2>1, <2>2, IdsStep, SentinelType DEF Sentinel, Item
  <2>5. Chunks'
    BY <1>0, <2>3, <2>4 DEF Chunks, Filed, StraysTyped, WaitingChunks
  <2>6. TooLate' = TooLate
    <3>1. (pc["me"].stt = "done") \in BOOLEAN
      OBVIOUS
    <3> QED
      BY <1>0, <2>1, <2>2, <3>1, LateAppend, SentinelType DEF TooLate
  <2> QED
    BY <1>0, <2>1, <2>5, <2>6 DEF Stopping
<1> QED
  BY <1>1, <1>2

LEMMA ProducerChunks ==
  ASSUME CInv, Producer \/ RecordingFails \/ SaveChunkFails PROVE Chunks' /\ Stopping'
<1> USE DEF CInv, IInv, Typed
<1>1. hold' = hold /\ stop' = stop /\ main' = main
  BY DEF Producer, RecordingFails, SaveChunkFails, RecorderLoop, RecorderCheck, RecorderPut, WavPut, WavEnd,
     ProducerOnly, ThreadOnly
<1>2. CASE RecorderLoop \/ RecordingFails \/ SaveChunkFails \/ WavPut \/ WavEnd
  <2>1. /\ queue'["me"].audio = Audio /\ count'["me"].chunk = count["me"].chunk
        /\ files'["me"] = files["me"] /\ DOMAIN files' = DOMAIN files
    BY <1>2 DEF RecorderLoop, RecordingFails, SaveChunkFails, WavPut, WavEnd, disk, QueuesTyped,
       CountTyped, Audio
  <2>3. StraysTyped' /\ strays'.kept = strays.kept
    <3>1. count["me"].chunk + 1 \in Nat /\ StraysTyped
      BY DEF CountTyped, Chunks, Filed
    <3>2. strays' = strays \/ strays' = [strays EXCEPT !.torn = @ \cup {count["me"].chunk + 1}]
      BY <1>2 DEF RecorderLoop, RecordingFails, SaveChunkFails, WavPut, WavEnd, disk
    <3> QED
      BY <3>1, <3>2 DEF StraysTyped
  <2>2. /\ pc'["me"].stt = pc["me"].stt
        /\ pc'["me"].producer = "save" => pc["me"].producer = "save"
    BY <1>2 DEF RecorderLoop, RecordingFails, SaveChunkFails, WavPut, WavEnd, PlacesTyped, Goto
  <2> QED
    BY <1>1, <2>1, <2>2, <2>3, QuietChunks
<1>3. CASE RecorderCheck
  <2>1. /\ queue' = queue /\ count' = count /\ files' = files /\ strays' = strays
        /\ pc'["me"].stt = pc["me"].stt
        /\ pc'["me"].producer = "save" => ~stop
    BY <1>3 DEF RecorderCheck, disk, PlacesTyped, Goto
  <2>2. Chunks'
    BY <1>1, <2>1 DEF Chunks, Filed, StraysTyped, Recorded, WaitingChunks, Ids, Audio
  <2>3. TooLate' = TooLate /\ Woken' = Woken
    BY <2>1 DEF TooLate, LateIn, Woken, NoEnd, Audio
  <2>4. ~stop => TooLate = {}
    BY DEF Stopping, Woken, NoEnd, TooLate, LateIn
  <2> QED
    BY <1>1, <2>1, <2>2, <2>3, <2>4 DEF Stopping
<1>4. CASE RecorderPut
  <2> DEFINE n == count["me"].chunk + 1
             x == Item(n, <<>>)
  <2>1. n \in Nat \ {0} /\ x \in Jobs /\ x \in Entries /\ x.id = n /\ x # Sentinel
    BY JobType, SentinelType DEF CountTyped, Entries, Item
  <2>2. /\ Audio' = Append(Audio, x) /\ Audio \in Seq(Entries)
        /\ count'["me"].chunk = n /\ files'["me"] = files["me"] \cup {n} /\ DOMAIN files' = Directions
    <3>1. files' = [files EXCEPT !["me"] = @ \cup {n}] /\ DOMAIN files = Directions
      BY <1>4 DEF RecorderPut, Chunks, Filed
    <3>2. files'["me"] = files["me"] \cup {n} /\ DOMAIN files' = Directions
      BY <3>1
    <3> QED
      BY <1>4, <3>2 DEF RecorderPut, QueuesTyped, CountTyped, Audio
  <2>3. /\ pc["me"].producer = "save" /\ pc'["me"].producer = "loop"
        /\ pc'["me"].stt = pc["me"].stt
    BY <1>4 DEF RecorderPut, PlacesTyped, At, Goto
  <2>4. Chunks'
    <3>1. Recorded(Audio', hold["me"].stt.id, n) /\ hold["me"].stt.id \in 0 .. n
      BY <2>1, <2>2, AppendRecorded DEF Chunks, CountTyped
    <3>2. Ids(Audio') = Ids(Audio) \cup {n}
      BY <2>1, <2>2, IdsStep
    <3>3. WaitingChunks' = WaitingChunks \cup {n}
      <4>1. \A m : m \in 1 .. n <=> m \in 1 .. count["me"].chunk \/ m = n
        BY DEF CountTyped
      <4>2. WaitingChunks' = {m \in 1 .. n : m = hold["me"].stt.id \/ m \in Ids(Audio) \cup {n}}
        BY <1>1, <2>2, <3>2 DEF WaitingChunks
      <4> QED
        BY <4>1, <4>2 DEF WaitingChunks
    <3>4. strays' = strays /\ n \notin strays.kept /\ strays.kept \subseteq 1 .. n
      BY <1>4 DEF RecorderPut, Chunks, Filed, CountTyped
    <3>5. Filed'
      BY <2>2, <3>3, <3>4 DEF Chunks, Filed, StraysTyped
    <3> QED
      BY <1>1, <2>2, <2>3, <3>1, <3>5 DEF Chunks
  <2>5. TooLate = {}
    BY <2>3 DEF Stopping
  <2>6. TooLate' \subseteq {Len(Audio) + 1} /\ (TooLate' # {} => Woken)
    <3>1. (pc["me"].stt = "done") \in BOOLEAN
      OBVIOUS
    <3> QED
      BY <2>1, <2>2, <2>3, <2>5, <3>1, LateAppend DEF TooLate, Woken
  <2>7. Woken' => Woken
    BY <2>1, <2>2, <2>3, AppendOpen DEF Woken
  <2> QED
    BY <1>1, <2>3, <2>4, <2>6, <2>7 DEF Stopping
<1> QED
  BY <1>2, <1>3, <1>4 DEF Producer

\* What the stages leave alone, which is the recorder's.
LEMMA SttAside ==
  ASSUME Typed, NEW d \in Directions, Stt(d)
  PROVE  /\ stop' = stop /\ main' = main /\ count' = count
         /\ pc'["me"].producer = pc["me"].producer
<1>1. CASE SttTake(d) \/ SttLock(d)
  BY <1>1 DEF SttTake, SttLock, SttOnly, ThreadOnly, Typed, PlacesTyped, Goto
<1>2. CASE SttEnds(d)
  BY <1>2 DEF SttEnds, SttOnly, ThreadOnly, Typed, PlacesTyped, Goto
<1>3. CASE Transcribes(d) \/ SttFails(d)
  BY <1>3 DEF Transcribes, SttFails, SttFinish, SttOnly, ThreadOnly, Typed, PlacesTyped, Goto
<1> QED
  BY <1>1, <1>2, <1>3 DEF Stt

LEMMA SttChunks ==
  ASSUME CInv, NEW d \in Directions, Stt(d) PROVE Chunks' /\ Stopping'
<1> USE DEF CInv, IInv, Typed
<1>0. /\ stop' = stop /\ main' = main /\ count' = count
      /\ pc'["me"].producer = pc["me"].producer
  BY SttAside
<1>1. CASE d = "other"
  <2>1. /\ queue'["me"] = queue["me"] /\ hold'["me"] = hold["me"] /\ pc'["me"] = pc["me"]
        /\ files'["me"] = files["me"] /\ DOMAIN files' = DOMAIN files /\ strays' = strays
    BY <1>1 DEF Stt, SttTake, SttEnds, SttLock, Transcribes, SttFails, SttFinish, Deleted, disk,
       PlacesTyped, QueuesTyped, HoldTyped, Chunks, Filed, Goto
  <2> QED
    BY <1>0, <2>1, QuietChunks DEF Audio, Chunks, Filed, StraysTyped
<1>2. /\ Audio \in Seq(Entries) /\ count["me"].chunk \in Nat /\ hold["me"].stt.id \in Nat
      /\ hold["me"].stt.id <= count["me"].chunk
  BY DEF QueuesTyped, Audio, CountTyped, Chunks
<1>3. CASE d = "me" /\ SttTake(d)
  <2>1. /\ Audio # <<>> /\ Head(Audio) # Sentinel /\ Audio' = Tail(Audio)
        /\ hold'["me"].stt = Head(Audio) /\ files' = files /\ strays' = strays
        /\ pc["me"].stt = "loop" /\ pc'["me"].stt = "lock"
    BY <1>3 DEF SttTake, disk, QueuesTyped, HoldTyped, PlacesTyped, At, Goto, Audio
  <2>2. hold["me"].stt.id = 0
    BY <2>1 DEF Chunks, Sentinel, Item
  <2>3. Head(Audio).id \in 1 .. count["me"].chunk /\ Recorded(Audio', Head(Audio).id, count["me"].chunk)
    BY <1>2, <2>1, <2>2, TailRecorded DEF Chunks
  <2>4. WaitingChunks' = WaitingChunks
    <3>1. Ids(Audio) = {Head(Audio).id} \cup Ids(Audio')
      BY <1>2, <2>1, IdsStep
    <3> QED
      BY <1>0, <2>1, <2>2, <3>1 DEF WaitingChunks
  <2>5. Chunks'
    BY <1>0, <2>1, <2>3, <2>4 DEF Chunks, Filed, StraysTyped
  <2>6. \A j \in TooLate' : j \in Nat /\ j + 1 \in TooLate
    BY <1>2, <2>1, LateTail DEF TooLate
  <2>7. Woken' => Woken
    <3>1. NoEnd(Audio) => NoEnd(Audio')
      BY <1>2, <2>1 DEF NoEnd
    <3> QED
      BY <2>1, <3>1 DEF Woken
  <2> QED
    BY <1>0, <2>5, <2>6, <2>7 DEF Stopping
<1>4. CASE d = "me" /\ SttEnds(d)
  <2>1. /\ Audio # <<>> /\ Head(Audio) = Sentinel /\ Audio' = Tail(Audio)
        /\ hold' = hold /\ files' = files /\ strays' = strays
        /\ pc["me"].stt = "loop" /\ pc'["me"].stt = "done"
    BY <1>4 DEF SttEnds, disk, QueuesTyped, PlacesTyped, At, Goto, Audio
  <2>2. Recorded(Audio', hold["me"].stt.id, count["me"].chunk)
    BY <1>2, <2>1, TailRecorded DEF Chunks
  <2>3. WaitingChunks' = WaitingChunks
    <3>1. Ids(Audio) = {0} \cup Ids(Audio')
      BY <1>2, <2>1, IdsStep DEF Sentinel, Item
    <3> QED
      BY <1>0, <2>1, <3>1 DEF WaitingChunks
  <2>4. Chunks'
    BY <1>0, <2>1, <2>2, <2>3 DEF Chunks, Filed, StraysTyped
  <2>5. \A j \in TooLate' : j \in Nat /\ j + 1 \in TooLate
    BY <1>2, <2>1, LateTail DEF TooLate
  <2>6. Woken
    BY <1>2, <2>1 DEF Woken, NoEnd
  <2> QED
    BY <1>0, <2>4, <2>5, <2>6 DEF Stopping
<1>5. CASE d = "me" /\ SttLock(d)
  <2>1. queue' = queue /\ hold' = hold /\ files' = files /\ strays' = strays
    BY <1>5 DEF SttLock, SttOnly, disk
  <2>2. pc["me"].stt = "lock" /\ pc'["me"].stt = "transcribe"
    BY <1>5 DEF SttLock, PlacesTyped, At, Goto
  <2>3. Chunks'
    BY <1>0, <2>1, <2>2 DEF Chunks, Filed, StraysTyped, Recorded, WaitingChunks, Ids, Audio
  <2>4. TooLate' = TooLate /\ Woken' = Woken
    BY <2>1, <2>2 DEF TooLate, LateIn, Woken, NoEnd, Audio
  <2> QED
    BY <1>0, <2>3, <2>4 DEF Stopping
<1>6. ASSUME NEW text, d = "me", SttFinish(d, text) PROVE Chunks' /\ Stopping'
  <2> DEFINE h == hold["me"].stt.id
  <2>1. /\ queue'["me"].audio = Audio
        /\ hold'["me"].stt = Sentinel /\ pc["me"].stt = "transcribe" /\ pc'["me"].stt = "loop"
    BY <1>6 DEF SttFinish, QueuesTyped, HoldTyped, PlacesTyped, At, Goto, Audio
  <2>2. /\ DOMAIN files' = Directions
        /\ \/ files'["me"] = files["me"] \ {h} /\ strays' = strays
           \/ files' = files /\ strays' = [strays EXCEPT !.kept = @ \cup {h}]
    <3>1. DOMAIN files = Directions
      BY DEF Chunks, Filed
    <3>2. CASE files' = [files EXCEPT !["me"] = @ \ {h}] /\ strays' = strays
      BY <3>1, <3>2
    <3>3. CASE files' = files /\ strays' = [strays EXCEPT !.kept = @ \cup {h}]
      BY <3>1, <3>3
    <3> QED
      BY <1>6, <3>2, <3>3 DEF SttFinish, Deleted
  <2>3. h \in Nat \ {0}
    BY <2>1 DEF HoldTyped, Jobs
  <2>4. Sentinel.id = 0
    BY DEF Sentinel, Item
  <2>5. Recorded(Audio, 0, count["me"].chunk)
    <3>1. \A n \in h + 1 .. count["me"].chunk : n \in 0 + 1 .. count["me"].chunk
      BY <2>3, <1>2
    <3> QED
      BY <3>1 DEF Chunks, Recorded
  <2>6. h \notin Ids(Audio)
    <3> SUFFICES ASSUME NEW i \in 1 .. Len(Audio), Audio[i].id = h PROVE FALSE
      BY DEF Ids
    <3>1. Audio[i] # Sentinel
      BY <2>3, <2>4
    <3>2. Audio[i].id \in h + 1 .. count["me"].chunk
      BY <3>1 DEF Chunks, Recorded
    <3> QED
      BY <3>2, <2>3, <1>2
  <2>7. 0 \notin 1 .. count["me"].chunk
    BY <1>2
  <2>8. WaitingChunks' = WaitingChunks \ {h}
    BY <1>0, <2>1, <2>4, <2>6, <2>7 DEF WaitingChunks, Audio
  <2>9. h \in WaitingChunks
    BY <1>2, <2>3 DEF WaitingChunks
  <2>10. Filed'
    <3>1. Filed
      BY DEF Chunks
    <3>2. h \in 1 .. count["me"].chunk /\ h \notin strays.kept
      BY <2>9, <3>1 DEF Filed, WaitingChunks
    <3>3. CASE files'["me"] = files["me"] \ {h} /\ strays' = strays
      BY <1>0, <2>2, <2>8, <3>1, <3>2, <3>3 DEF Filed, StraysTyped
    <3>4. CASE files' = files /\ strays' = [strays EXCEPT !.kept = @ \cup {h}]
      <4>1. StraysTyped' /\ strays'.kept = strays.kept \cup {h}
        BY <2>3, <3>1, <3>4 DEF Filed, StraysTyped
      <4> QED
        BY <1>0, <2>2, <2>8, <2>9, <3>1, <3>2, <3>4, <4>1 DEF Filed
    <3> QED
      BY <2>2, <3>3, <3>4
  <2>11. Chunks'
    BY <1>0, <1>2, <2>1, <2>4, <2>5, <2>10 DEF Chunks, Audio
  <2>12. TooLate' = TooLate /\ Woken' = Woken
    BY <2>1 DEF TooLate, LateIn, Woken, NoEnd, Audio
  <2> QED
    BY <1>0, <2>11, <2>12 DEF Stopping
<1>7. CASE d = "me" /\ (Transcribes(d) \/ SttFails(d))
  BY <1>7, <1>6 DEF Transcribes, SttFails
<1> QED
  BY <1>1, <1>3, <1>4, <1>5, <1>7 DEF Stt

LEMMA LaterAside ==
  ASSUME Typed, NEW d \in Directions, Buffer(d) \/ Translator(d) \/ Speak(d)
  PROVE  /\ stop' = stop /\ main' = main /\ files' = files /\ strays' = strays
         /\ hold'["me"].stt = hold["me"].stt
         /\ pc'["me"].stt = pc["me"].stt /\ pc'["me"].producer = pc["me"].producer
         /\ queue'["me"].audio = Audio /\ count'["me"].chunk = count["me"].chunk
<1> USE DEF Typed
<1>1. stop' = stop /\ main' = main /\ files' = files /\ strays' = strays
  BY DEF Buffer, IgnoreFragment, AddFragment, BufferTimeout, BufferEnds, BufferOnly, ThreadOnly, disk,
     Translator, TranslatorTake, Translated, TranslatorFails, TranslatorEnds, TranslatorOnly,
     Speak, SpeechDies, SpeechEnds, SpeechOnly
<1>2. hold'["me"].stt = hold["me"].stt
  <2>1. CASE Buffer(d) \/ Speak(d)
    BY <2>1 DEF Buffer, IgnoreFragment, AddFragment, BufferTimeout, BufferEnds, BufferOnly,
       Speak, SpeechDies, SpeechEnds, SpeechOnly
  <2>2. CASE TranslatorTake(d) \/ TranslatorEnds(d)
    BY <2>2 DEF TranslatorTake, TranslatorEnds, HoldTyped
  <2>3. CASE Translated(d) \/ TranslatorFails(d)
    BY <2>3 DEF Translated, TranslatorFails, HoldTyped
  <2> QED
    BY <2>1, <2>2, <2>3 DEF Translator
<1>3. pc'["me"].stt = pc["me"].stt /\ pc'["me"].producer = pc["me"].producer
  <2>1. CASE Buffer(d)
    BY <2>1 DEF Buffer, IgnoreFragment, AddFragment, BufferTimeout, BufferEnds, PlacesTyped, Goto
  <2>2. CASE TranslatorTake(d) \/ Translated(d)
    BY <2>2 DEF TranslatorTake, Translated, PlacesTyped, Goto
  <2>3. CASE TranslatorFails(d) \/ TranslatorEnds(d)
    BY <2>3 DEF TranslatorFails, TranslatorEnds, PlacesTyped, Goto
  <2>4. CASE Speak(d)
    BY <2>4 DEF Speak, SpeechDies, SpeechEnds, PlacesTyped, Goto
  <2> QED
    BY <2>1, <2>2, <2>3, <2>4 DEF Translator
<1>4. queue'["me"].audio = Audio /\ count'["me"].chunk = count["me"].chunk
  <2>1. CASE IgnoreFragment(d)
    BY <2>1 DEF IgnoreFragment, QueuesTyped, Audio
  <2>2. ASSUME NEW texts, NEW candidates, NEW then, Emit(d, texts, candidates, then)
        PROVE  queue'["me"].audio = Audio /\ count'["me"].chunk = count["me"].chunk
    BY <2>2 DEF Emit, QueuesTyped, CountTyped, Audio
  <2>3. CASE AddFragment(d) \/ BufferTimeout(d) \/ BufferEnds(d)
    BY <2>2, <2>3 DEF AddFragment, BufferTimeout, BufferEnds
  <2>4. CASE Translator(d)
    <3>1. count' = count
      BY <2>4 DEF Translator, TranslatorTake, Translated, TranslatorFails, TranslatorEnds, TranslatorOnly
    <3>2. CASE TranslatorTake(d) \/ TranslatorFails(d)
      BY <3>1, <3>2 DEF TranslatorTake, TranslatorFails, QueuesTyped, Audio
    <3>3. CASE Translated(d)
      BY <3>1, <3>3 DEF Translated, QueuesTyped, Audio
    <3>4. CASE TranslatorEnds(d)
      BY <3>1, <3>4 DEF TranslatorEnds, QueuesTyped, Audio
    <3> QED
      BY <2>4, <3>2, <3>3, <3>4 DEF Translator
  <2>5. CASE Speak(d)
    BY <2>5 DEF Speak, SpeechDies, SpeechEnds, SpeechOnly, QueuesTyped, Audio
  <2> QED
    BY <2>1, <2>3, <2>4, <2>5 DEF Buffer
<1> QED
  BY <1>1, <1>2, <1>3, <1>4

LEMMA LaterChunks ==
  ASSUME CInv, NEW d \in Directions, Buffer(d) \/ Translator(d) \/ Speak(d)
  PROVE  Chunks' /\ Stopping'
BY LaterAside, QuietChunks DEF CInv, IInv, Chunks, Filed, StraysTyped

LEMMA StepCInv == CInv /\ [Next]_vars => CInv'
<1> SUFFICES ASSUME CInv, [Next]_vars PROVE CInv'
  OBVIOUS
<1>1. IInv'
  BY StepIInv DEF CInv
<1>2. CASE UNCHANGED vars
  BY <1>1, <1>2, QuietChunks DEF CInv, vars, disk, Audio, Chunks, Filed, StraysTyped
<1>3. CASE Next /\ ~UNCHANGED vars
  <2>1. Chunks' /\ Stopping'
    BY <1>3, MainChunks, WakeChunks, ProducerChunks, SttChunks, LaterChunks
    DEF Next, Work, MainWork, Finished
  <2> QED
    BY <1>1, <2>1 DEF CInv
<1> QED
  BY <1>2, <1>3

LEMMA OneLate == CInv => OneChunkLate
<1> SUFFICES ASSUME CInv PROVE OneChunkLate
  OBVIOUS
<1>1. Late = TooLate
  BY DEF Late, TooLate, LateIn, Audio
<1> QED
  BY <1>1 DEF CInv, Stopping, OneChunkLate

LEMMA FilesAreThere == CInv => FilesFollowChunks
<1> SUFFICES ASSUME CInv PROVE FilesFollowChunks
  OBVIOUS
<1>1. Waiting = WaitingChunks
  BY DEF Waiting, WaitingChunks, Ids, Audio
<1>2. files["me"] = Waiting \cup strays.kept /\ Waiting \cap strays.kept = {}
  BY <1>1 DEF CInv, Chunks, Filed
<1>3. ASSUME pc["me"].stt = "done", NEW m \in Waiting, NEW n \in Waiting PROVE m = n
  <2>1. hold["me"].stt.id = 0
    BY <1>3 DEF CInv, Chunks, Sentinel, Item
  <2>2. count["me"].chunk \in Nat
    BY DEF CInv, IInv, Typed, CountTyped
  <2>3. m # 0 /\ n # 0
    BY <2>2 DEF Waiting
  <2>4. PICK i \in 1 .. Len(Audio), j \in 1 .. Len(Audio) : Audio[i].id = m /\ Audio[j].id = n
    BY <2>1, <2>3 DEF Waiting, Audio
  <2>5. i \in TooLate /\ j \in TooLate
    BY <1>3, <2>3, <2>4 DEF TooLate, LateIn, Sentinel, Item
  <2> QED
    BY <2>4, <2>5 DEF CInv, Stopping
<1> QED
  BY <1>2, <1>3 DEF FilesFollowChunks

\* However many chunks are recorded and whenever the stop comes, at most one chunk of
\* the microphone comes behind the sentinel; and however often the device, the disk
\* or Whisper fails, a chunk has its temporary file while it waits and none
\* afterwards, unless the deletion of that very file failed, so that an STT thread
\* that has ended leaves at most one more behind (save_microphone_chunk,
\* microphone_recorder_worker, stop_pipelines, the finally block of stt_worker).
THEOREM PrototypeChunks == Spec => []ChunksAccounted
<1>1. Init => CInv
  BY InitCInv DEF Init
<1>2. CInv => ChunksAccounted
  BY OneLate, FilesAreThere DEF ChunksAccounted
<1> QED
  BY StepCInv, <1>1, <1>2, PTL DEF Spec

-----------------------------------------------------------------------------
(***************************************************************************)
(* The types of the rest of the state.                                     *)
(***************************************************************************)
ThreadsTyped ==
  /\ active \in {{"me"}, Directions} /\ stop \in BOOLEAN
  /\ main \in {"load", "start", "run", "join", "exited"} \cup Directions
  /\ lock \in Directions \cup {"free"}

HistoryTyped ==
  /\ files \in [Directions -> SUBSET Nat]
  /\ heard \in [Directions -> SUBSET Token]
  /\ gone \in [Directions -> SUBSET Token]
  /\ reached \in [Directions -> SUBSET Token]

PrototypeInv == CInv /\ ThreadsTyped /\ HistoryTyped

LEMMA PrototypeInvType == PrototypeInv => TypeOK
<1>1. Entries \subseteq Items
  <2>1. Jobs \subseteq Items
    BY DEF Jobs, Items, Text
  <2>2. Sentinel \in Items
    BY SentinelType DEF Items, Sentinel, Item, Text
  <2> QED
    BY <2>1, <2>2 DEF Entries
<1>2. QueuesTyped => queue \in [Directions -> [Queues -> Seq(Items)]]
  BY <1>1 DEF QueuesTyped
<1>3. HoldTyped => hold \in [Directions -> [Stages -> Items]]
  BY <1>1 DEF HoldTyped
<1>4. PrototypeInv => strays \in [torn : SUBSET Nat, kept : SUBSET Nat]
  BY DEF PrototypeInv, CInv, Chunks, Filed, StraysTyped
<1> QED
  BY <1>2, <1>3, <1>4 DEF PrototypeInv, CInv, IInv, Typed, PlacesTyped, CountTyped, BufferTyped, Text,
     ThreadsTyped, HistoryTyped, TypeOK

LEMMA InitPrototypeInv ==
  Fresh /\ main \in {"load", "exited"} => PrototypeInv
<1> SUFFICES ASSUME Fresh, main \in {"load", "exited"} PROVE PrototypeInv
  OBVIOUS
<1>1. ThreadsTyped /\ HistoryTyped
  BY DEF Fresh, ThreadsTyped, HistoryTyped
<1> QED
  BY <1>1, InitCInv DEF PrototypeInv

LEMMA ThreadsStep == ASSUME ThreadsTyped, [Next]_vars PROVE ThreadsTyped' /\ active' = active
<1> USE DEF ThreadsTyped
<1>1. CASE MainWork
  BY <1>1 DEF MainWork, MainOnly, LoadModel, InterruptUncaught, Interrupt, Leave, StartWorkers
<1>2. CASE Producer \/ RecordingFails \/ SaveChunkFails
  BY <1>2 DEF Producer, ProducerOnly, ThreadOnly, RecordingFails, SaveChunkFails, RecorderLoop, RecorderCheck,
     RecorderPut, WavPut, WavEnd
<1>3. ASSUME NEW d \in Directions, WakeStt(d) PROVE ThreadsTyped' /\ active' = active
  BY <1>3 DEF WakeStt, MainOnly
<1>4. ASSUME NEW d \in Directions, Stt(d) PROVE ThreadsTyped' /\ active' = active
  BY <1>4 DEF Stt, SttOnly, ThreadOnly, SttTake, SttEnds, SttLock, Transcribes, SttFails, SttFinish
<1>5. ASSUME NEW d \in Directions, Buffer(d) \/ Translator(d) \/ Speak(d)
      PROVE  ThreadsTyped' /\ active' = active
  BY <1>5 DEF Buffer, BufferOnly, IgnoreFragment, AddFragment, BufferTimeout, BufferEnds,
     ThreadOnly, Translator, TranslatorOnly, TranslatorTake, Translated, TranslatorFails,
     TranslatorEnds, Speak, SpeechOnly, SpeechDies, SpeechEnds
<1>6. CASE UNCHANGED vars
  BY <1>6 DEF vars
<1> QED
  BY <1>1, <1>2, <1>3, <1>4, <1>5, <1>6 DEF Next, Work, MainWork, Finished

\* What a guard drops are tokens, as the candidates are texts.
LEMMA EmitGone ==
  ASSUME HistoryTyped, NEW d \in Directions, NEW candidates \in Seq(Text), NEW texts, NEW then,
         Emit(d, texts, candidates, then)
  PROVE  gone' \in [Directions -> SUBSET Token]
<1> DEFINE dropped == UNION {ToSet(s) : s \in {t \in ToSet(candidates) : ~Worthwhile(t)}}
<1>1. dropped \subseteq Token
  BY ToSetType
<1>2. gone' = [gone EXCEPT ![d] = @ \cup dropped]
  BY DEF Emit
<1> QED
  BY <1>1, <1>2 DEF HistoryTyped

LEMMA BufferHistory ==
  ASSUME CInv, HistoryTyped, NEW d \in Directions, Buffer(d)
  PROVE  HistoryTyped'
<1> USE DEF CInv, IInv, Typed
<1>1. files' = files /\ reached' = reached
  BY DEF Buffer, IgnoreFragment, AddFragment, BufferTimeout, BufferEnds, BufferOnly, disk
<1>2. buffer[d] \in Text
  BY DEF BufferTyped
<1>3. CASE IgnoreFragment(d)
  BY <1>1, <1>3 DEF IgnoreFragment, HistoryTyped
<1>4. CASE AddFragment(d)
  <2> DEFINE fragment == Head(queue[d].text).text
             text == Pending(d)
             rest == Unfinished(text)
             candidates == IF Full(rest) THEN Append(Sentences(text), rest) ELSE Sentences(text)
  <2>1. queue[d].text \in Seq(Entries) /\ queue[d].text # <<>> /\ Head(queue[d].text) # Sentinel
    BY <1>4 DEF QueuesTyped, AddFragment
  <2>2. Head(queue[d].text) \in Jobs
    BY <2>1 DEF Entries
  <2>3. fragment \in Text /\ text \in Text
    BY <1>2, <2>2 DEF Pending, Jobs, Text
  <2>4. Sentences(text) \in Seq(Text) /\ rest \in Text
    BY <2>3, SplitType DEF Sentences, Unfinished, Text
  <2>5. candidates \in Seq(Text)
    BY <2>4
  <2>6. Emit(d, Tail(queue[d].text), candidates, <<>>)
    BY <1>4 DEF AddFragment
  <2>7. gone' \in [Directions -> SUBSET Token]
    BY <2>5, <2>6, EmitGone
  <2>8. heard' = [heard EXCEPT ![d] = @ \cup ToSet(fragment)] /\ ToSet(fragment) \subseteq Token
    BY <1>4, <2>3, ToSetType DEF AddFragment
  <2> QED
    BY <1>1, <2>7, <2>8 DEF HistoryTyped
<1>5. CASE BufferTimeout(d)
  <2>1. <<buffer[d]>> \in Seq(Text) /\ Emit(d, <<>>, <<buffer[d]>>, <<>>) /\ heard' = heard
    BY <1>2, <1>5 DEF BufferTimeout
  <2>2. gone' \in [Directions -> SUBSET Token]
    BY <2>1, EmitGone
  <2> QED
    BY <1>1, <2>1, <2>2 DEF HistoryTyped
<1>6. CASE BufferEnds(d)
  <2> DEFINE candidates == IF buffer[d] # <<>> THEN <<buffer[d]>> ELSE <<>>
  <2>1. candidates \in Seq(Text)
    BY <1>2
  <2>2. Emit(d, Tail(queue[d].text), candidates, <<Sentinel>>) /\ heard' = heard
    BY <1>6 DEF BufferEnds
  <2>3. gone' \in [Directions -> SUBSET Token]
    BY <2>1, <2>2, EmitGone
  <2> QED
    BY <1>1, <2>2, <2>3 DEF HistoryTyped
<1> QED
  BY <1>3, <1>4, <1>5, <1>6 DEF Buffer

LEMMA HistoryStep == ASSUME CInv, HistoryTyped, [Next]_vars PROVE HistoryTyped'
<1> USE DEF HistoryTyped
<1>1. CASE MainWork
  BY <1>1 DEF MainWork, MainOnly, history, disk, LoadModel, InterruptUncaught, Interrupt, Leave, StartWorkers
<1>2. CASE Producer \/ RecordingFails \/ SaveChunkFails
  <2>1. heard' = heard /\ gone' = gone /\ reached' = reached
    BY <1>2 DEF Producer, ProducerOnly, history, RecordingFails, SaveChunkFails, RecorderLoop, RecorderCheck,
       RecorderPut, WavPut, WavEnd
  <2>2. count["me"].chunk + 1 \in Nat
    BY DEF CInv, IInv, Typed, CountTyped
  <2>3. files' \in [Directions -> SUBSET Nat]
    BY <1>2, <2>2 DEF Producer, RecordingFails, SaveChunkFails, RecorderLoop, RecorderCheck,
       RecorderPut, WavPut, WavEnd, disk
  <2> QED
    BY <2>1, <2>3
<1>3. ASSUME NEW d \in Directions, WakeStt(d) \/ Stt(d) PROVE HistoryTyped'
  <2>1. heard' = heard /\ gone' = gone /\ reached' = reached
    BY <1>3 DEF WakeStt, MainOnly, history, Stt, SttOnly, SttTake, SttEnds, SttLock, Transcribes,
       SttFails, SttFinish
  <2>2. files' \in [Directions -> SUBSET Nat]
    BY <1>3 DEF WakeStt, MainOnly, Stt, SttTake, SttEnds, SttLock, Transcribes, SttFails, SttFinish,
       Deleted, disk
  <2> QED
    BY <2>1, <2>2
<1>4. ASSUME NEW d \in Directions, Buffer(d) PROVE HistoryTyped'
  BY <1>4, BufferHistory
<1>5. ASSUME NEW d \in Directions, Translator(d) PROVE HistoryTyped'
  <2>1. heard' = heard /\ reached' = reached /\ files' = files
    BY <1>5 DEF Translator, TranslatorOnly, TranslatorTake, Translated, TranslatorFails,
       TranslatorEnds, disk
  <2>2. At(d, "translator", "translate") => ToSet(hold[d].translator.text) \subseteq Token
    BY ToSetType DEF At, CInv, IInv, Typed, HoldTyped, Jobs
  <2>3. gone' \in [Directions -> SUBSET Token]
    BY <1>5, <2>2 DEF Translator, TranslatorTake, Translated, TranslatorFails, TranslatorEnds
  <2> QED
    BY <2>1, <2>3
<1>6. ASSUME NEW d \in Directions, Speak(d) PROVE HistoryTyped'
  <2>1. heard' = heard /\ gone' = gone /\ files' = files
    BY <1>6 DEF Speak, SpeechOnly, SpeechDies, SpeechEnds, disk
  <2>2. /\ queue[d].translated \in Seq(Entries)
        /\ \A e \in Entries : ToSet(e.text) \subseteq Token
    BY ToSetType, SentinelType DEF CInv, IInv, Typed, QueuesTyped, Entries, Jobs, Sentinel, Item
  <2>3. queue[d].translated # <<>> => ToSet(Head(queue[d].translated).text) \subseteq Token
    BY <2>2
  <2>4. reached' \in [Directions -> SUBSET Token]
    BY <1>6, <2>3 DEF Speak, SpeechDies, SpeechEnds
  <2> QED
    BY <2>1, <2>4
<1>7. CASE UNCHANGED vars
  BY <1>7 DEF vars, history, disk
<1> QED
  BY <1>1, <1>2, <1>3, <1>4, <1>5, <1>6, <1>7 DEF Next, Work, MainWork, Finished

LEMMA StepPrototypeInv == PrototypeInv /\ [Next]_vars => PrototypeInv'
BY StepCInv, ThreadsStep, HistoryStep DEF PrototypeInv

-----------------------------------------------------------------------------
(***************************************************************************)
(* The order of the words on the prototype's line.  A text is in order, a  *)
(* list of texts as well, and a part of the line is ahead of another.      *)
(***************************************************************************)
InOrderOf(text) == \A i, j \in 1 .. Len(text) : i < j => Before(text[i], text[j])

Ahead(A, B) == \A a \in A, b \in B : Before(a, b)

InLine(l) ==
  /\ \A n \in 1 .. Len(l) : InOrderOf(l[n])
  /\ \A m, n \in 1 .. Len(l) : m < n => Ahead(ToSet(l[m]), ToSet(l[n]))

\* What is ahead of something has nothing in common with it.
LEMMA AheadApart ==
  ASSUME NEW A \in SUBSET Token, NEW B, Ahead(A, B)
  PROVE  A \cap B = {}
<1>1. \A a \in A : ~Before(a, a)
  BY DEF Before, Token
<1> QED
  BY <1>1 DEF Ahead

\* So the tokens of a text in order are distinct, and the texts of a list too.
LEMMA OrderDistinct ==
  /\ \A t \in Text : InOrderOf(t) => Distinct(t)
  /\ \A l \in Seq(Text) : InLine(l) => Apart(l)
<1>1. ASSUME NEW t \in Text, InOrderOf(t) PROVE Distinct(t)
  <2> SUFFICES ASSUME NEW i \in 1 .. Len(t), NEW j \in 1 .. Len(t), t[i] = t[j] PROVE i = j
    BY DEF Distinct
  <2>1. t[i] \in Token /\ i \in Int /\ j \in Int
    BY DEF Text
  <2>2. ~Before(t[i], t[i])
    BY <2>1 DEF Before, Token
  <2>3. ~(i < j) /\ ~(j < i)
    BY <1>1, <2>2 DEF InOrderOf
  <2> QED
    BY <2>1, <2>3
<1>2. ASSUME NEW l \in Seq(Text), InLine(l) PROVE Apart(l)
  <2> SUFFICES ASSUME NEW m \in 1 .. Len(l), NEW n \in 1 .. Len(l), m # n
               PROVE  ToSet(l[m]) \cap ToSet(l[n]) = {}
    BY DEF Apart
  <2>1. m < n \/ n < m
    OBVIOUS
  <2>2. l[m] \in Text /\ l[n] \in Text
    OBVIOUS
  <2>3. ToSet(l[m]) \in SUBSET Token /\ ToSet(l[n]) \in SUBSET Token
    BY <2>2, ToSetType
  <2>4. Ahead(ToSet(l[m]), ToSet(l[n])) \/ Ahead(ToSet(l[n]), ToSet(l[m]))
    BY <1>2, <2>1 DEF InLine
  <2> QED
    BY <2>3, <2>4, AheadApart
<1> QED
  BY <1>1, <1>2

LEMMA EmptyOrder ==
  /\ InOrderOf(<<>>) /\ InLine(<<>>)
  /\ \A t \in Text : InOrderOf(t) => InLine(<<t>>)
BY DEF InOrderOf, InLine

\* A part of a text is in the order of the text.
LEMMA PartOrder ==
  ASSUME NEW t \in Text, InOrderOf(t), NEW a \in 0 .. Len(t), NEW b \in 0 .. Len(t)
  PROVE  InOrderOf(SubSeq(t, a + 1, b))
<1> DEFINE u == SubSeq(t, a + 1, b)
<1>1. t \in Seq(Token) /\ Len(t) \in Nat
  BY DEF Text
<1>2. \A i \in 1 .. Len(u) : u[i] = t[a + i] /\ a + i \in 1 .. Len(t) /\ i \in Int
  BY <1>1
<1>3. \A i, j \in 1 .. Len(u) : i < j => a + i < a + j
  BY <1>1
<1> HIDE DEF u
<1>4. InOrderOf(u)
  BY <1>2, <1>3 DEF InOrderOf
<1> QED
  BY <1>4 DEF u

\* The sentences of a text, and what is left of it, are in the order of the text.
LEMMA SplitOrder ==
  ASSUME NEW t \in Text, InOrderOf(t)
  PROVE  /\ InLine(CompleteSentences(t)) /\ InOrderOf(Remainder(t))
         /\ Ahead(AllTokens(CompleteSentences(t)), ToSet(Remainder(t)))
<1> DEFINE N == Len(t)
           M == Marks(t)
           c == Cardinality(M)
           l == CompleteSentences(t)
           r == Remainder(t)
<1>0. t \in Seq(Token) /\ N \in Nat /\ M \in SUBSET (1 .. N)
  BY DEF Text, Marks
<1>1. /\ c \in Nat /\ Len(l) = c
      /\ \A n \in 1 .. c : ToSet(l[n]) = {t[p] : p \in PositionsOf(t, n - 1)}
      /\ ToSet(r) = {t[p] : p \in PositionsOf(t, c)}
  BY <1>0, PieceTokens
<1>2. \A k \in Int : SentenceEnd(t, k) \in 0 .. N
  BY <1>0, NthBound DEF SentenceEnd
<1>3. \A n \in 1 .. c : InOrderOf(l[n])
  <2> SUFFICES ASSUME NEW n \in 1 .. c PROVE InOrderOf(l[n])
    OBVIOUS
  <2>1. l[n] = SubSeq(t, SentenceEnd(t, n - 1) + 1, SentenceEnd(t, n))
    BY DEF CompleteSentences
  <2>2. n \in Int /\ n - 1 \in Int
    BY <1>1
  <2>3. SentenceEnd(t, n - 1) \in 0 .. Len(t) /\ SentenceEnd(t, n) \in 0 .. Len(t)
    BY <1>2, <2>2
  <2>4. InOrderOf(SubSeq(t, SentenceEnd(t, n - 1) + 1, SentenceEnd(t, n)))
    BY <2>3, PartOrder
  <2> QED
    BY <2>1, <2>4
<1>4. InOrderOf(r)
  <2>1. c \in Int
    BY <1>1
  <2>2. SentenceEnd(t, c) \in 0 .. Len(t) /\ Len(t) \in 0 .. Len(t)
    BY <1>0, <1>2, <2>1
  <2>3. InOrderOf(SubSeq(t, SentenceEnd(t, c) + 1, Len(t)))
    BY <2>2, PartOrder
  <2> QED
    BY <2>3 DEF Remainder
<1>5. ASSUME NEW a \in Int, NEW b \in Int, a < b,
             NEW p \in PositionsOf(t, a), NEW q \in PositionsOf(t, b)
      PROVE  Before(t[p], t[q])
  <2>1. p \in 1 .. N /\ q \in 1 .. N /\ Rank(M, p) = a /\ Rank(M, q) = b
    BY DEF PositionsOf
  <2>2. p \in 1 .. N + 1 /\ q \in 1 .. N + 1
    BY <1>0, <2>1
  <2>3. q <= p => Rank(M, q) <= Rank(M, p)
    BY <1>0, <2>2, RankFacts
  <2>4. p < q
    <3> HIDE DEF N, M
    <3> QED
      BY <1>0, <1>5, <2>1, <2>3
  <2> QED
    BY <2>1, <2>4 DEF InOrderOf
<1> HIDE DEF N, M, c, l, r
<1>6. ASSUME NEW a \in Int, NEW b \in Int, a < b
      PROVE  Ahead({t[p] : p \in PositionsOf(t, a)}, {t[p] : p \in PositionsOf(t, b)})
  BY <1>5, <1>6 DEF Ahead
<1>7. ASSUME NEW m \in 1 .. c, NEW n \in 1 .. c, m < n
      PROVE  Ahead(ToSet(l[m]), ToSet(l[n]))
  <2>1. m - 1 \in Int /\ n - 1 \in Int /\ m - 1 < n - 1
    BY <1>1, <1>7
  <2>2. Ahead({t[p] : p \in PositionsOf(t, m - 1)}, {t[p] : p \in PositionsOf(t, n - 1)})
    BY <1>6, <2>1
  <2> QED
    BY <1>1, <2>2
<1>8. ASSUME NEW m \in 1 .. c
      PROVE  Ahead(ToSet(l[m]), ToSet(r))
  <2>1. m - 1 \in Int /\ c \in Int /\ m - 1 < c
    BY <1>1
  <2>2. Ahead({t[p] : p \in PositionsOf(t, m - 1)}, {t[p] : p \in PositionsOf(t, c)})
    BY <1>6, <2>1
  <2> QED
    BY <1>1, <2>2
<1>9. InLine(l)
  BY <1>1, <1>3, <1>7 DEF InLine
<1>10. Ahead(AllTokens(l), ToSet(r))
  BY <1>1, <1>8 DEF Ahead, AllTokens
<1> QED
  BY <1>4, <1>9, <1>10 DEF l, r

\* Those that the last guard passes are in the same order.
LEMMA TranslatableOrder ==
  ASSUME NEW l \in Seq(Text), InLine(l)
  PROVE  InLine(Translatable(l))
<1> DEFINE P == {k \in 1 .. Len(l) : ShouldTranslate(l[k])}
           m == Len(l)
           kept == Translatable(l)
           size == Cardinality(P)
<1>1. m \in Nat /\ P \in SUBSET (1 .. m)
  OBVIOUS
<1>2. size \in Nat
  BY <1>1, RankFacts
<1>3. kept = [n \in 1 .. size |-> l[Nth(P, n, m)]] /\ Len(kept) = size
  BY <1>2 DEF Translatable, Pick
<1>4. \A n \in 1 .. size : kept[n] = l[Nth(P, n, m)]
  BY <1>3
<1>5. \A n \in 1 .. size : Nth(P, n, m) \in P /\ Rank(P, Nth(P, n, m)) = n - 1
  BY <1>1, NthMember
<1>6. \A i, j \in 1 .. m : InOrderOf(l[i]) /\ (i < j => Ahead(ToSet(l[i]), ToSet(l[j])))
  BY DEF InLine
<1> HIDE DEF kept, size, P, m
<1>7. ASSUME NEW j \in 1 .. size, NEW k \in 1 .. size, j < k
      PROVE  Nth(P, j, m) < Nth(P, k, m)
  <2> DEFINE a == Nth(P, j, m)
             b == Nth(P, k, m)
  <2>1. a \in 1 .. m /\ b \in 1 .. m /\ Rank(P, a) = j - 1 /\ Rank(P, b) = k - 1
    BY <1>1, <1>5
  <2> HIDE DEF a, b
  <2>2. a \in 1 .. m + 1 /\ b \in 1 .. m + 1
    BY <1>1, <2>1
  <2>3. b <= a => Rank(P, b) <= Rank(P, a)
    BY <1>1, <2>2, RankFacts
  <2>4. j \in Int /\ k \in Int /\ a \in Int /\ b \in Int
    BY <1>1, <1>2, <2>1
  <2>5. a < b
    BY <1>7, <2>1, <2>3, <2>4
  <2> QED
    BY <2>5 DEF a, b
<1>8. \A n \in 1 .. size : Nth(P, n, m) \in 1 .. m
  BY <1>1, <1>5
<1>9. \A n \in 1 .. size : InOrderOf(kept[n])
  BY <1>4, <1>6, <1>8
<1>10. ASSUME NEW j \in 1 .. size, NEW k \in 1 .. size, j < k
       PROVE  Ahead(ToSet(kept[j]), ToSet(kept[k]))
  <2>1. Ahead(ToSet(l[Nth(P, j, m)]), ToSet(l[Nth(P, k, m)]))
    BY <1>6, <1>7, <1>8, <1>10
  <2> QED
    BY <1>4, <2>1
<1>11. Len(kept) = size
  BY <1>3
<1>12. InLine(kept)
  BY <1>9, <1>10, <1>11 DEF InLine
<1> QED
  BY <1>12 DEF kept

\* A text after another one that is ahead of it.
LEMMA JoinOrder ==
  ASSUME NEW s \in Text, NEW t \in Text, InOrderOf(s), InOrderOf(t), Ahead(ToSet(s), ToSet(t))
  PROVE  s \o t \in Text /\ InOrderOf(s \o t) /\ ToSet(s \o t) = ToSet(s) \cup ToSet(t)
<1> DEFINE u == s \o t
<1>1. s \in Seq(Token) /\ t \in Seq(Token)
  BY DEF Text
<1>2. u \in Text /\ ToSet(u) = ToSet(s) \cup ToSet(t)
  BY <1>1, JoinedTokens DEF Text
<1>3. ASSUME NEW i \in 1 .. Len(u)
      PROVE  \/ i \in 1 .. Len(s) /\ u[i] = s[i]
             \/ i > Len(s) /\ i - Len(s) \in 1 .. Len(t) /\ u[i] = t[i - Len(s)]
  BY <1>1
<1>4. Len(s) \in Nat /\ Len(t) \in Nat /\ Len(u) \in Nat
  BY <1>1
<1>5. /\ \A i \in 1 .. Len(s) : s[i] \in ToSet(s)
      /\ \A i \in 1 .. Len(t) : t[i] \in ToSet(t)
  BY DEF ToSet
<1> HIDE DEF u
<1>6. ASSUME NEW i \in 1 .. Len(u), NEW j \in 1 .. Len(u), i < j
      PROVE  Before(u[i], u[j])
  <2>1. CASE j \in 1 .. Len(s) /\ u[j] = s[j]
    <3>1. i \in 1 .. Len(s) /\ u[i] = s[i]
      BY <1>3, <1>4, <1>6, <2>1
    <3> QED
      BY <1>6, <2>1, <3>1 DEF InOrderOf
  <2>2. CASE j > Len(s) /\ j - Len(s) \in 1 .. Len(t) /\ u[j] = t[j - Len(s)]
    <3>1. CASE i \in 1 .. Len(s) /\ u[i] = s[i]
      BY <1>5, <2>2, <3>1, Zenon DEF Ahead
    <3>2. CASE i > Len(s) /\ i - Len(s) \in 1 .. Len(t) /\ u[i] = t[i - Len(s)]
      <4>1. i - Len(s) < j - Len(s)
        BY <1>4, <1>6
      <4> QED
        BY <2>2, <3>2, <4>1 DEF InOrderOf
    <3> QED
      BY <1>3, <3>1, <3>2
  <2> QED
    BY <1>3, <2>1, <2>2
<1>7. InOrderOf(u)
  BY <1>6 DEF InOrderOf
<1> QED
  BY <1>2, <1>7 DEF u

\* A list after another one that is ahead of it.
LEMMA ConcatLine ==
  ASSUME NEW l \in Seq(Text), NEW k \in Seq(Text), InLine(l), InLine(k),
         Ahead(AllTokens(l), AllTokens(k))
  PROVE  /\ l \o k \in Seq(Text) /\ InLine(l \o k)
         /\ AllTokens(l \o k) = AllTokens(l) \cup AllTokens(k)
<1> DEFINE u == l \o k
<1>1. u \in Seq(Text) /\ AllTokens(u) = AllTokens(l) \cup AllTokens(k)
  BY ListsTokens
<1>3. ASSUME NEW i \in 1 .. Len(u)
      PROVE  \/ i \in 1 .. Len(l) /\ u[i] = l[i]
             \/ i > Len(l) /\ i - Len(l) \in 1 .. Len(k) /\ u[i] = k[i - Len(l)]
  OBVIOUS
<1>4. Len(l) \in Nat /\ Len(k) \in Nat /\ Len(u) \in Nat
  OBVIOUS
<1>5. \A i \in 1 .. Len(l), j \in 1 .. Len(k) : Ahead(ToSet(l[i]), ToSet(k[j]))
  BY DEF Ahead, AllTokens
<1> HIDE DEF u
<1>6. ASSUME NEW i \in 1 .. Len(u), NEW j \in 1 .. Len(u), i < j
      PROVE  Ahead(ToSet(u[i]), ToSet(u[j]))
  <2>1. CASE j \in 1 .. Len(l) /\ u[j] = l[j]
    <3>1. i \in 1 .. Len(l) /\ u[i] = l[i]
      BY <1>3, <1>4, <1>6, <2>1
    <3> QED
      BY <1>6, <2>1, <3>1 DEF InLine
  <2>2. CASE j > Len(l) /\ j - Len(l) \in 1 .. Len(k) /\ u[j] = k[j - Len(l)]
    <3>1. CASE i \in 1 .. Len(l) /\ u[i] = l[i]
      <4>1. Ahead(ToSet(l[i]), ToSet(k[j - Len(l)]))
        BY <1>5, <2>2, <3>1
      <4> QED
        BY <2>2, <3>1, <4>1
    <3>2. CASE i > Len(l) /\ i - Len(l) \in 1 .. Len(k) /\ u[i] = k[i - Len(l)]
      <4>1. i - Len(l) < j - Len(l)
        BY <1>4, <1>6
      <4>2. Ahead(ToSet(k[i - Len(l)]), ToSet(k[j - Len(l)]))
        BY <2>2, <3>2, <4>1 DEF InLine
      <4> QED
        BY <2>2, <3>2, <4>2
    <3> QED
      BY <1>3, <3>1, <3>2
  <2> QED
    BY <1>3, <2>1, <2>2
<1>7. ASSUME NEW i \in 1 .. Len(u)
      PROVE  InOrderOf(u[i])
  <2>1. CASE i \in 1 .. Len(l) /\ u[i] = l[i]
    BY <2>1 DEF InLine
  <2>2. CASE i - Len(l) \in 1 .. Len(k) /\ u[i] = k[i - Len(l)]
    BY <2>2 DEF InLine
  <2> QED
    BY <1>3, <2>1, <2>2
<1>8. InLine(u)
  BY <1>6, <1>7 DEF InLine
<1> QED
  BY <1>1, <1>8 DEF u

LEMMA AppendLine ==
  ASSUME NEW l \in Seq(Text), InLine(l), NEW t \in Text, InOrderOf(t), Ahead(AllTokens(l), ToSet(t))
  PROVE  /\ Append(l, t) \in Seq(Text) /\ InLine(Append(l, t))
         /\ AllTokens(Append(l, t)) = AllTokens(l) \cup ToSet(t)
<1>1. Append(l, t) = l \o <<t>> /\ <<t>> \in Seq(Text)
  OBVIOUS
<1>2. AllTokens(<<t>>) = ToSet(t)
  BY SingleTokens, Zenon
<1>3. InLine(<<t>>)
  BY EmptyOrder
<1>4. /\ l \o <<t>> \in Seq(Text) /\ InLine(l \o <<t>>)
      /\ AllTokens(l \o <<t>>) = AllTokens(l) \cup AllTokens(<<t>>)
  BY <1>1, <1>2, <1>3, ConcatLine
<1> QED
  BY <1>1, <1>2, <1>4, Zenon

LEMMA HeadLine ==
  ASSUME NEW l \in Seq(Text), l # <<>>, InLine(l)
  PROVE  /\ Head(l) \in Text /\ InOrderOf(Head(l)) /\ Tail(l) \in Seq(Text) /\ InLine(Tail(l))
         /\ Ahead(ToSet(Head(l)), AllTokens(Tail(l)))
         /\ AllTokens(l) = ToSet(Head(l)) \cup AllTokens(Tail(l))
<1> DEFINE t == Tail(l)
<1>0. Len(l) \in Nat \ {0} /\ Len(t) = Len(l) - 1 /\ Head(l) = l[1] /\ t \in Seq(Text) /\ l[1] \in Text
  OBVIOUS
<1>1. \A i \in 1 .. Len(t) : t[i] = l[i + 1] /\ i + 1 \in 1 .. Len(l) /\ 1 < i + 1
  OBVIOUS
<1>2. AllTokens(l) = ToSet(Head(l)) \cup AllTokens(t)
  BY HeadTokens
<1>3. 1 \in 1 .. Len(l) /\ InOrderOf(l[1])
  BY <1>0 DEF InLine
<1>4. \A i, j \in 1 .. Len(t) : i < j => i + 1 < j + 1
  OBVIOUS
<1> HIDE DEF t
<1>5. \A i \in 1 .. Len(t) : Ahead(ToSet(l[1]), ToSet(t[i]))
  BY <1>1, <1>3 DEF InLine
<1>6. Ahead(ToSet(l[1]), AllTokens(t))
  BY <1>5 DEF Ahead, AllTokens
<1>7. InLine(t)
  BY <1>1, <1>4 DEF InLine
<1> QED
  BY <1>0, <1>2, <1>3, <1>6, <1>7 DEF t

-----------------------------------------------------------------------------
(* The texts of the items of a queue. *)

LEMMA EntryText == \A x \in Entries : x.text \in Text /\ x.id \in Nat
BY SentinelType DEF Entries, Jobs, Sentinel, Item

LEMMA TextsType == ASSUME NEW q \in Seq(Entries) PROVE Texts(q) \in Seq(Text)
<1>1. Len(q) \in Nat /\ \A i \in 1 .. Len(q) : q[i] \in Entries
  OBVIOUS
<1>2. Texts(q) \in [1 .. Len(q) -> Text]
  BY <1>1, EntryText DEF Texts
<1> QED
  BY <1>1, <1>2

\* Two lists with as many texts, and the same ones, are the same list.
LEMMA SameTexts ==
  ASSUME NEW l \in Seq(Text), NEW k \in Seq(Text), Len(l) = Len(k),
         \A i \in 1 .. Len(l) : l[i] = k[i]
  PROVE  l = k
OBVIOUS

LEMMA TextsAppend ==
  ASSUME NEW q \in Seq(Entries), NEW x \in Entries
  PROVE  Texts(Append(q, x)) = Append(Texts(q), x.text)
<1>1. Append(q, x) \in Seq(Entries) /\ x.text \in Text
  BY EntryText
<1>2. Texts(Append(q, x)) \in Seq(Text) /\ Texts(q) \in Seq(Text)
  BY <1>1, TextsType
<1>3. Append(Texts(q), x.text) \in Seq(Text)
  BY <1>1, <1>2
<1>4. Len(Texts(Append(q, x))) = Len(q) + 1 /\ Len(Append(Texts(q), x.text)) = Len(q) + 1
  BY <1>2 DEF Texts
<1>5. \A i \in 1 .. Len(q) + 1 : Texts(Append(q, x))[i] = Append(Texts(q), x.text)[i]
  BY DEF Texts
<1> QED
  BY <1>2, <1>3, <1>4, <1>5, SameTexts

LEMMA TextsTail ==
  ASSUME NEW q \in Seq(Entries), q # <<>>
  PROVE  /\ Texts(q) # <<>> /\ Head(Texts(q)) = Head(q).text /\ Head(q) \in Entries
         /\ Texts(Tail(q)) = Tail(Texts(q)) /\ Tail(q) \in Seq(Entries)
<1>1. Len(q) \in Nat \ {0} /\ Tail(q) \in Seq(Entries) /\ Len(Tail(q)) = Len(q) - 1
      /\ Head(q) = q[1] /\ Head(q) \in Entries
  OBVIOUS
<1>2. \A i \in 1 .. Len(q) - 1 : Tail(q)[i] = q[i + 1]
  OBVIOUS
<1>3. Texts(q) \in Seq(Text) /\ Len(Texts(q)) = Len(q) /\ Texts(Tail(q)) \in Seq(Text)
      /\ Len(Texts(Tail(q))) = Len(q) - 1
  BY <1>1, TextsType DEF Texts
<1>4. Texts(q)[1] = q[1].text /\ \A i \in 1 .. Len(q) - 1 : Texts(q)[i + 1] = q[i + 1].text
  BY <1>1 DEF Texts
<1>5. \A i \in 1 .. Len(q) - 1 : Texts(Tail(q))[i] = q[i + 1].text
  BY <1>1, <1>2 DEF Texts
<1> DEFINE l == Texts(q)
           k == Texts(Tail(q))
<1> HIDE DEF l, k
<1>6. l \in Seq(Text) /\ Len(l) = Len(q) /\ k \in Seq(Text) /\ Len(k) = Len(l) - 1 /\ Len(l) \in Nat \ {0}
  BY <1>1, <1>3 DEF l, k
<1>7. \A i \in 1 .. Len(l) - 1 : k[i] = l[i + 1]
  BY <1>3, <1>4, <1>5 DEF l, k
<1>8. l # <<>> /\ Head(l) = l[1] /\ Tail(l) \in Seq(Text) /\ Len(Tail(l)) = Len(l) - 1
      /\ \A i \in 1 .. Len(l) - 1 : Tail(l)[i] = l[i + 1]
  BY <1>6
<1>9. k = Tail(l)
  BY <1>6, <1>7, <1>8, SameTexts
<1> QED
  BY <1>1, <1>4, <1>8, <1>9 DEF l, k

LEMMA TextsConcat ==
  ASSUME NEW q \in Seq(Entries), NEW r \in Seq(Entries)
  PROVE  Texts(q \o r) = Texts(q) \o Texts(r)
<1>1. q \o r \in Seq(Entries) /\ Len(q \o r) = Len(q) + Len(r) /\ Len(q) \in Nat /\ Len(r) \in Nat
  OBVIOUS
<1>2. /\ Texts(q \o r) \in Seq(Text) /\ Texts(q) \in Seq(Text) /\ Texts(r) \in Seq(Text)
      /\ Len(Texts(q \o r)) = Len(q) + Len(r) /\ Len(Texts(q)) = Len(q) /\ Len(Texts(r)) = Len(r)
  BY <1>1, TextsType DEF Texts
<1>3. \A i \in 1 .. Len(q) + Len(r) :
        Texts(q \o r)[i] = IF i <= Len(q) THEN q[i].text ELSE r[i - Len(q)].text
  BY <1>1 DEF Texts
<1>4. /\ \A i \in 1 .. Len(q) : Texts(q)[i] = q[i].text
      /\ \A i \in 1 .. Len(r) : Texts(r)[i] = r[i].text
  BY DEF Texts
<1> DEFINE l == Texts(q)
           k == Texts(r)
           u == Texts(q \o r)
<1> HIDE DEF l, k, u
<1>5. /\ l \in Seq(Text) /\ k \in Seq(Text) /\ u \in Seq(Text)
      /\ Len(u) = Len(l) + Len(k) /\ Len(l) = Len(q) /\ Len(k) = Len(r)
  BY <1>2 DEF l, k, u
<1>10. \A a, b \in Seq(Text) : a \o b \in Seq(Text) /\ Len(a \o b) = Len(a) + Len(b)
  OBVIOUS
<1>6. l \o k \in Seq(Text) /\ Len(l \o k) = Len(l) + Len(k)
  BY <1>5, <1>10, Zenon
<1>9. \A i \in 1 .. Len(l) + Len(k) : (l \o k)[i] = IF i <= Len(l) THEN l[i] ELSE k[i - Len(l)]
  BY <1>5
<1>7. \A i \in 1 .. Len(l) + Len(k) : u[i] = IF i <= Len(l) THEN l[i] ELSE k[i - Len(l)]
  <2> SUFFICES ASSUME NEW i \in 1 .. Len(l) + Len(k)
               PROVE  u[i] = IF i <= Len(l) THEN l[i] ELSE k[i - Len(l)]
    OBVIOUS
  <2>1. CASE i <= Len(l)
    <3>1. i \in 1 .. Len(q) /\ i \in 1 .. Len(q) + Len(r) /\ i <= Len(q)
      BY <1>1, <1>5, <2>1
    <3> QED
      BY <1>3, <1>4, <2>1, <3>1 DEF l, u
  <2>2. CASE ~(i <= Len(l))
    <3>1. i - Len(q) \in 1 .. Len(r) /\ i \in 1 .. Len(q) + Len(r) /\ ~(i <= Len(q))
      BY <1>1, <1>5, <2>2
    <3>2. u[i] = r[i - Len(q)].text
      BY <1>3, <3>1 DEF u
    <3>3. k[i - Len(q)] = r[i - Len(q)].text
      BY <1>4, <3>1 DEF k
    <3> QED
      BY <1>5, <2>2, <3>2, <3>3
  <2> QED
    BY <2>1, <2>2
<1>8. u = l \o k
  BY <1>5, <1>6, <1>7, <1>9, SameTexts
<1> QED
  BY <1>8 DEF l, k, u

LEMMA TextsNumbered ==
  ASSUME NEW l \in Seq(Text), NEW n \in Nat
  PROVE  Texts(Numbered(l, n)) = l
<1>0. Numbered(l, n) \in Seq(Jobs)
  BY NumberedType
<1>1. Len(Numbered(l, n)) = Len(l)
  BY DEF Numbered
<1>2. Numbered(l, n) \in Seq(Entries)
  BY <1>0 DEF Entries
<1>3. Texts(Numbered(l, n)) \in Seq(Text) /\ Len(Texts(Numbered(l, n))) = Len(l)
  BY <1>1, <1>2, TextsType DEF Texts
<1>4. \A i \in 1 .. Len(l) : Numbered(l, n)[i].text = l[i]
  BY DEF Numbered, Item
<1>5. \A i \in 1 .. Len(l) : Texts(Numbered(l, n))[i] = l[i]
  BY <1>1, <1>4 DEF Texts
<1> QED
  BY <1>3, <1>5, SameTexts

LEMMA TextsEmpty == Texts(<<>>) = <<>> /\ AllTokens(<<>>) = {}
<1>1. Texts(<<>>) = <<>>
  BY DEF Texts
<1> QED
  BY <1>1, SingleTokens

\* The sentinel says nothing.
LEMMA SentinelSays ==
  /\ Sentinel \in Entries /\ Sentinel.text = <<>> /\ Sentinel.id = 0
  /\ ToSet(<<>>) = {} /\ InOrderOf(<<>>) /\ <<>> \in Text
BY SentinelType, EmptyOrder DEF Sentinel, Item, ToSet

\* A sentinel at the end of a queue changes nothing of its words.
LEMMA SentinelQueued ==
  ASSUME NEW q \in Seq(Entries), InLine(Texts(q))
  PROVE  /\ InLine(Texts(Append(q, Sentinel)))
         /\ AllTokens(Texts(Append(q, Sentinel))) = AllTokens(Texts(q))
<1>1. Texts(q) \in Seq(Text) /\ Texts(Append(q, Sentinel)) = Append(Texts(q), <<>>)
  BY TextsType, TextsAppend, SentinelSays
<1>2. Ahead(AllTokens(Texts(q)), ToSet(<<>>))
  BY SentinelSays DEF Ahead
<1> QED
  BY <1>1, <1>2, SentinelSays, AppendLine

LEMMA AheadParts ==
  /\ \A A, B, C : Ahead(A, B \cup C) <=> Ahead(A, B) /\ Ahead(A, C)
  /\ \A A, B, C : Ahead(A \cup B, C) <=> Ahead(A, C) /\ Ahead(B, C)
  /\ \A A : Ahead(A, {}) /\ Ahead({}, A)
BY DEF Ahead

LEMMA AheadBoth ==
  /\ \A A, B, C : Ahead(A, B \cup C) => Ahead(A, B) /\ Ahead(A, C)
  /\ \A A, B, C : Ahead(A \cup B, C) => Ahead(A, C) /\ Ahead(B, C)
  /\ \A A, B, C : Ahead(A, B) /\ Ahead(A, C) => Ahead(A, B \cup C)
  /\ \A A, B, C : Ahead(A, C) /\ Ahead(B, C) => Ahead(A \cup B, C)
BY DEF Ahead

\* The words that Whisper returns for a chunk carry its number, in order.
LEMMA SpokenOrder ==
  ASSUME NEW segments \in Transcripts, NEW n \in Nat
  PROVE  /\ Spoken(segments, n) \in Text /\ InOrderOf(Spoken(segments, n))
         /\ \A token \in ToSet(Spoken(segments, n)) : token.seg = n
<1> DEFINE kinds == Said(segments)
           t == Spoken(segments, n)
<1>1. kinds \in Seq(STRING) /\ t \in Text
  BY PrototypeAssumption, SpokenType
<1>2. Len(kinds) \in Nat /\ Len(t) = Len(kinds) /\ t \in Seq(Token)
  BY <1>1 DEF Spoken, Text
<1>3. \A i \in 1 .. Len(t) : t[i].seg = n /\ t[i].pos = i
  BY <1>2 DEF Spoken
<1> HIDE DEF t
<1>4. InOrderOf(t)
  BY <1>3 DEF InOrderOf, Before
<1>5. \A token \in ToSet(t) : token.seg = n
  BY <1>2, <1>3 DEF ToSet
<1> QED
  BY <1>1, <1>4, <1>5 DEF t

-----------------------------------------------------------------------------
(***************************************************************************)
(* The words of a direction.  What reached the speech thread is ahead of   *)
(* what is translated, that of what is translated now, that of the         *)
(* sentences that wait, that of what is pending, and all that was ever     *)
(* accepted of what waits to be.  A chunk that is not transcribed yet is   *)
(* later than every word.                                                  *)
(***************************************************************************)
On(d, q) == AllTokens(Texts(queue[d][q]))
InWork(d) == ToSet(hold[d].translator.text)
Pended(d) == ToSet(buffer[d])
Later(d) == InWork(d) \cup On(d, "sentence") \cup Pended(d)
Underway(d) == On(d, "translated") \cup Later(d)

TextsInOrder(d) ==
  /\ \A q \in {"text", "sentence", "translated"} : InLine(Texts(queue[d][q]))
  /\ InOrderOf(hold[d].translator.text) /\ InOrderOf(buffer[d])

StagesInOrder(d) ==
  /\ Ahead(reached[d], Underway(d))
  /\ Ahead(On(d, "translated"), Later(d))
  /\ Ahead(InWork(d), On(d, "sentence") \cup Pended(d))
  /\ Ahead(On(d, "sentence"), Pended(d))
  /\ Ahead(heard[d], On(d, "text"))

WordsAccounted(d) ==
  /\ heard[d] = Underway(d) \cup reached[d] \cup gone[d]
  /\ gone[d] \cap (Underway(d) \cup reached[d]) = {}

\* The words of a direction are in order, and none is lost or doubled.
WordsKept(d) ==
  /\ TextsInOrder(d) /\ StagesInOrder(d) /\ WordsAccounted(d)
  /\ pc[d].translator # "translate" => hold[d].translator = Sentinel

\* The numbers of the chunks that are queued or in hand.
Awaited(d) == (Ids(queue[d].audio) \cup {hold[d].stt.id}) \ {0}

\* Chunks are transcribed in the order of their numbers, each only once.
InTurn(d) ==
  /\ Recorded(queue[d].audio, hold[d].stt.id, count[d].chunk)
  /\ hold[d].stt.id <= count[d].chunk
  /\ pc[d].stt \notin {"lock", "transcribe"} => hold[d].stt = Sentinel
  /\ \A token \in heard[d] \cup On(d, "text") :
       token.seg <= count[d].chunk /\ \A n \in Awaited(d) : token.seg < n

\* The WAV file is not yet queued while its producer has not run.
WavOnce == pc["other"].producer \in {"off", "loop"} => count["other"].chunk = 0

\* What a step needs for the words to be kept.
LInv == IInv /\ HistoryTyped /\ WavOnce /\ \A d \in Directions : WordsKept(d) /\ InTurn(d)

LEMMA LineTypes ==
  ASSUME IInv, HistoryTyped, NEW d \in Directions
  PROVE  /\ queue[d] \in [Queues -> Seq(Entries)] /\ hold[d] \in [Stages -> Entries]
         /\ hold[d].translator.text \in Text /\ buffer[d] \in Text
         /\ \A q \in Queues : Texts(queue[d][q]) \in Seq(Text) /\ On(d, q) \in SUBSET Token
         /\ InWork(d) \in SUBSET Token /\ Pended(d) \in SUBSET Token
         /\ heard[d] \in SUBSET Token /\ gone[d] \in SUBSET Token /\ reached[d] \in SUBSET Token
         /\ count[d].chunk \in Nat /\ count[d].sentence \in Nat /\ hold[d].stt.id \in Nat
<1>1. /\ queue[d] \in [Queues -> Seq(Entries)] /\ hold[d] \in [Stages -> Entries]
      /\ buffer[d] \in Text /\ count[d] \in [chunk : Nat, sentence : Nat]
  BY DEF IInv, Typed, QueuesTyped, HoldTyped, BufferTyped, CountTyped
<1>2. hold[d].translator.text \in Text /\ hold[d].stt.id \in Nat
  BY <1>1, EntryText
<1>3. ASSUME NEW q \in Queues
      PROVE  Texts(queue[d][q]) \in Seq(Text) /\ On(d, q) \in SUBSET Token
  <2>1. Texts(queue[d][q]) \in Seq(Text)
    BY <1>1, TextsType
  <2>2. \A i \in 1 .. Len(Texts(queue[d][q])) : ToSet(Texts(queue[d][q])[i]) \subseteq Token
    BY <2>1, ToSetType
  <2> QED
    BY <2>1, <2>2 DEF On, AllTokens
<1>4. InWork(d) \in SUBSET Token /\ Pended(d) \in SUBSET Token
  BY <1>1, <1>2, ToSetType DEF InWork, Pended
<1> QED
  BY <1>1, <1>2, <1>3, <1>4 DEF HistoryTyped

\* The direction of which a step leaves everything as it is.
LEMMA QuietWords ==
  ASSUME NEW d \in Directions, WordsKept(d),
         \A q \in {"text", "sentence", "translated"} :
           queue'[d][q] = queue[d][q],
         hold'[d].translator = hold[d].translator, buffer'[d] = buffer[d],
         heard'[d] = heard[d], gone'[d] = gone[d], reached'[d] = reached[d],
         pc'[d].translator = "translate" <=> pc[d].translator = "translate"
  PROVE  WordsKept(d)'
<1>1. /\ \A q \in {"text", "sentence", "translated"} : On(d, q)' = On(d, q)
      /\ InWork(d)' = InWork(d) /\ Pended(d)' = Pended(d)
  BY DEF On, InWork, Pended
<1>2. Later(d)' = Later(d) /\ Underway(d)' = Underway(d)
  BY <1>1 DEF Later, Underway
<1>3. TextsInOrder(d)'
  BY DEF WordsKept, TextsInOrder
<1>4. StagesInOrder(d)'
  BY <1>1, <1>2 DEF WordsKept, StagesInOrder
<1>5. WordsAccounted(d)'
  BY <1>2 DEF WordsKept, WordsAccounted
<1> QED
  BY <1>3, <1>4, <1>5 DEF WordsKept

LEMMA QuietTurn ==
  ASSUME NEW d \in Directions, InTurn(d),
         queue'[d].audio = queue[d].audio, hold'[d].stt = hold[d].stt,
         count'[d].chunk = count[d].chunk,
         pc'[d].stt \in {"lock", "transcribe"} <=> pc[d].stt \in {"lock", "transcribe"},
         heard'[d] \cup On(d, "text")' \subseteq heard[d] \cup On(d, "text")
  PROVE  InTurn(d)'
<1>1. Awaited(d)' = Awaited(d)
  BY DEF Awaited, Ids
<1> QED
  BY <1>1 DEF InTurn, Recorded

\* The other direction does not move.
Elsewhere(d) ==
  \A e \in Directions \ {d} :
    /\ queue'[e] = queue[e] /\ hold'[e] = hold[e] /\ buffer'[e] = buffer[e]
    /\ count'[e].chunk = count[e].chunk /\ pc'[e] = pc[e]
    /\ heard'[e] = heard[e] /\ gone'[e] = gone[e] /\ reached'[e] = reached[e]

LWords == WavOnce /\ \A d \in Directions : WordsKept(d) /\ InTurn(d)

\* A step of one direction's threads.
LEMMA OneDirection ==
  ASSUME LInv, NEW d \in Directions, Elsewhere(d), WordsKept(d)', InTurn(d)',
         pc'["other"].producer = pc["other"].producer,
         count'["other"].chunk = count["other"].chunk
  PROVE  LWords'
<1>1. ASSUME NEW e \in Directions \ {d} PROVE WordsKept(e)' /\ InTurn(e)'
  <2>1. /\ queue'[e] = queue[e] /\ hold'[e] = hold[e] /\ buffer'[e] = buffer[e]
        /\ count'[e].chunk = count[e].chunk /\ pc'[e] = pc[e]
        /\ heard'[e] = heard[e] /\ gone'[e] = gone[e] /\ reached'[e] = reached[e]
    BY DEF Elsewhere
  <2>2. On(e, "text")' = On(e, "text")
    BY <2>1 DEF On
  <2>3. WordsKept(e) /\ InTurn(e)
    BY DEF LInv
  <2>4. WordsKept(e)'
    BY <2>1, <2>3, QuietWords
  <2>5. InTurn(e)'
    BY <2>1, <2>2, <2>3, QuietTurn
  <2> QED
    BY <2>4, <2>5
<1>2. WavOnce'
  BY DEF LInv, WavOnce
<1> QED
  BY <1>1, <1>2 DEF LWords

LEMMA InitLInv == Fresh => LInv
<1> SUFFICES ASSUME Fresh PROVE LInv
  OBVIOUS
<1>1. IInv /\ HistoryTyped
  BY InitIInv DEF Fresh, HistoryTyped
<1>2. ASSUME NEW d \in Directions PROVE WordsKept(d) /\ InTurn(d)
  <2>1. /\ \A q \in Queues : queue[d][q] = <<>>
        /\ hold[d].translator = Sentinel /\ hold[d].stt = Sentinel /\ buffer[d] = <<>>
        /\ heard[d] = {} /\ gone[d] = {} /\ reached[d] = {} /\ count[d].chunk = 0
    BY DEF Fresh
  <2>2. /\ \A q \in Queues : On(d, q) = {} /\ InLine(Texts(queue[d][q]))
        /\ InWork(d) = {} /\ Pended(d) = {}
    BY <2>1, TextsEmpty, SentinelSays, EmptyOrder DEF On, InWork, Pended
  <2>3. TextsInOrder(d)
    BY <2>1, <2>2, SentinelSays DEF TextsInOrder
  <2>4. StagesInOrder(d) /\ WordsAccounted(d)
    BY <2>1, <2>2, AheadParts DEF StagesInOrder, WordsAccounted, Underway, Later
  <2>5. Recorded(queue[d].audio, hold[d].stt.id, count[d].chunk)
    BY <2>1 DEF Recorded
  <2>6. InTurn(d)
    BY <2>1, <2>2, <2>5, SentinelSays DEF InTurn
  <2> QED
    BY <2>1, <2>3, <2>4, <2>6 DEF WordsKept
<1>3. WavOnce
  BY DEF Fresh, WavOnce
<1> QED
  BY <1>1, <1>2, <1>3 DEF LInv

LEMMA MainWords == ASSUME LInv, MainWork PROVE LWords'
<1> USE DEF LInv, IInv, Typed
<1>1. /\ queue' = queue /\ hold' = hold /\ count' = count /\ buffer' = buffer
      /\ heard' = heard /\ gone' = gone /\ reached' = reached
  BY DEF MainWork, LoadModel, InterruptUncaught, Interrupt, Leave, StartWorkers, MainOnly, history
<1>2. \A e \in Directions : pc'[e] = pc[e] \/ (/\ pc[e] = [s \in Stages |-> "off"]
                                               /\ pc'[e] = [s \in Stages |-> "loop"])
  <2>1. CASE UNCHANGED pc
    BY <2>1
  <2>2. ASSUME NEW d \in Directions, StartWorkers(d)
        PROVE  \A e \in Directions : pc'[e] = pc[e] \/ (/\ pc[e] = [s \in Stages |-> "off"]
                                                        /\ pc'[e] = [s \in Stages |-> "loop"])
    BY <2>2 DEF StartWorkers, PlacesTyped
  <2> QED
    BY <2>1, <2>2 DEF MainWork, LoadModel, InterruptUncaught, Interrupt, Leave
<1>3. ASSUME NEW e \in Directions PROVE WordsKept(e)' /\ InTurn(e)'
  <2>1. On(e, "text")' = On(e, "text")
    BY <1>1 DEF On
  <2>2. /\ pc'[e].translator = "translate" <=> pc[e].translator = "translate"
        /\ pc'[e].stt \in {"lock", "transcribe"} <=> pc[e].stt \in {"lock", "transcribe"}
    BY <1>2
  <2>3. WordsKept(e)'
    BY <1>1, <2>2, QuietWords
  <2>4. InTurn(e)'
    BY <1>1, <2>1, <2>2, QuietTurn
  <2> QED
    BY <2>3, <2>4
<1>4. WavOnce'
  BY <1>1, <1>2 DEF WavOnce
<1> QED
  BY <1>3, <1>4 DEF LWords

\* A chunk, or the sentinel, at the end of what waits for Whisper.
LEMMA ChunkQueued ==
  ASSUME LInv, NEW d \in Directions, NEW x \in Entries,
         queue'[d].audio = Append(queue[d].audio, x), hold'[d].stt = hold[d].stt,
         On(d, "text")' = On(d, "text"), heard'[d] = heard[d], pc'[d].stt = pc[d].stt,
         \/ x = Sentinel /\ count'[d].chunk = count[d].chunk
         \/ x.id = count[d].chunk + 1 /\ count'[d].chunk = count[d].chunk + 1
  PROVE  InTurn(d)'
<1> USE DEF LInv
<1>0. /\ queue[d].audio \in Seq(Entries) /\ count[d].chunk \in Nat /\ hold[d].stt.id \in Nat
      /\ hold[d].stt.id <= count[d].chunk
  BY LineTypes DEF InTurn
<1>1. Recorded(queue'[d].audio, hold'[d].stt.id, count'[d].chunk)
  BY <1>0, AppendRecorded DEF InTurn
<1>2. Awaited(d)' = (Awaited(d) \cup {x.id}) \ {0}
  BY <1>0, IdsStep DEF Awaited
<1>3. \A token \in heard[d] \cup On(d, "text") : token.seg \in Nat
  <2>1. heard[d] \in SUBSET Token /\ On(d, "text") \in SUBSET Token
    BY LineTypes
  <2> QED
    BY <2>1 DEF Token
<1>4. ASSUME NEW token \in heard[d] \cup On(d, "text")
      PROVE  token.seg <= count'[d].chunk /\ \A n \in Awaited(d)' : token.seg < n
  <2>1. token.seg \in Nat /\ token.seg <= count[d].chunk /\ \A n \in Awaited(d) : token.seg < n
    BY <1>3 DEF InTurn
  <2>2. CASE x = Sentinel /\ count'[d].chunk = count[d].chunk
    BY <1>2, <2>1, <2>2, SentinelSays
  <2>3. CASE x.id = count[d].chunk + 1 /\ count'[d].chunk = count[d].chunk + 1
    <3>1. token.seg < count[d].chunk + 1 /\ token.seg <= count[d].chunk + 1
      BY <1>0, <2>1
    <3> QED
      BY <1>2, <2>1, <2>3, <3>1
  <2> QED
    BY <2>2, <2>3
<1>5. hold'[d].stt.id <= count'[d].chunk
  BY <1>0
<1> QED
  BY <1>1, <1>4, <1>5 DEF InTurn

LEMMA ProducerWords ==
  ASSUME LInv, Producer \/ RecordingFails \/ SaveChunkFails \/ \E d \in Directions : WakeStt(d)
  PROVE  LWords'
<1> USE DEF LInv, IInv, Typed
<1>1. /\ hold' = hold /\ buffer' = buffer /\ heard' = heard /\ gone' = gone /\ reached' = reached
  BY DEF Producer, RecordingFails, SaveChunkFails, RecorderLoop, RecorderCheck, RecorderPut, WavPut, WavEnd,
     ProducerOnly, WakeStt, MainOnly, history
<1>2. \A e \in Directions, s \in Stages \ {"producer"} : pc'[e][s] = pc[e][s]
  BY DEF PlacesTyped, Producer, RecordingFails, SaveChunkFails, RecorderLoop, RecorderCheck, RecorderPut, WavPut,
     WavEnd, WakeStt, Goto
<1>3. \A e \in Directions, q \in {"text", "sentence", "translated"} : queue'[e][q] = queue[e][q]
  BY DEF QueuesTyped, Producer, RecordingFails, SaveChunkFails, RecorderLoop, RecorderCheck, RecorderPut, WavPut,
     WavEnd, WakeStt
<1>4. \A e \in Directions : WordsKept(e)' /\ On(e, "text")' = On(e, "text")
  <2> SUFFICES ASSUME NEW e \in Directions PROVE WordsKept(e)' /\ On(e, "text")' = On(e, "text")
    OBVIOUS
  <2>1. On(e, "text")' = On(e, "text")
    BY <1>3 DEF On
  <2>2. pc'[e].translator = pc[e].translator
    BY <1>2
  <2> QED
    BY <1>1, <1>3, <2>1, <2>2, QuietWords
<1>5. ASSUME NEW d \in Directions, NEW x \in Entries,
             queue' = [queue EXCEPT ![d].audio = Append(@, x)],
             \/ x = Sentinel /\ count' = count
             \/ x.id = count[d].chunk + 1 /\ count' = [count EXCEPT ![d].chunk = @ + 1]
      PROVE  \A e \in Directions : InTurn(e)'
  <2>1. InTurn(d)'
    <3>1. queue'[d].audio = Append(queue[d].audio, x)
      BY <1>5 DEF QueuesTyped
    <3>2. \/ x = Sentinel /\ count'[d].chunk = count[d].chunk
          \/ x.id = count[d].chunk + 1 /\ count'[d].chunk = count[d].chunk + 1
      BY <1>5 DEF CountTyped
    <3>3. pc'[d].stt = pc[d].stt
      BY <1>2
    <3> QED
      BY <1>1, <1>4, <3>1, <3>2, <3>3, ChunkQueued
  <2>2. ASSUME NEW e \in Directions \ {d} PROVE InTurn(e)'
    <3>1. queue'[e].audio = queue[e].audio /\ count'[e].chunk = count[e].chunk
      BY <1>5 DEF QueuesTyped, CountTyped
    <3>3. pc'[e].stt = pc[e].stt
      BY <1>2
    <3> QED
      BY <1>1, <1>4, <3>1, <3>3, QuietTurn
  <2> QED
    BY <2>1, <2>2
<1>6. ASSUME queue' = queue, count' = count
      PROVE  \A e \in Directions : InTurn(e)'
  <2> SUFFICES ASSUME NEW e \in Directions PROVE InTurn(e)'
    OBVIOUS
  <2>1. pc'[e].stt = pc[e].stt
    BY <1>2
  <2> QED
    BY <1>1, <1>4, <1>6, <2>1, QuietTurn
<1>7. CASE RecorderPut
  <2> DEFINE n == count["me"].chunk + 1
             x == Item(n, <<>>)
  <2>1. n \in Nat \ {0} /\ x \in Entries /\ x.id = n
    BY JobType, SentinelType DEF CountTyped, Entries, Item
  <2>2. /\ queue' = [queue EXCEPT !["me"].audio = Append(@, x)]
        /\ count' = [count EXCEPT !["me"].chunk = @ + 1]
    BY <1>7 DEF RecorderPut
  <2>3. \A e \in Directions : InTurn(e)'
    BY <1>5, <2>1, <2>2
  <2>4. WavOnce'
    BY <1>7, <2>2 DEF WavOnce, RecorderPut, PlacesTyped, CountTyped, Goto
  <2> QED
    BY <1>4, <2>3, <2>4 DEF LWords
<1>8. CASE WavPut
  <2> DEFINE x == Item(1, <<>>)
  <2>1. x \in Entries /\ x.id = 1
    BY JobType, SentinelType DEF Entries, Item
  <2>2. count["other"].chunk = 0
    BY <1>8 DEF WavPut, WavOnce, At
  <2>3. /\ queue' = [queue EXCEPT !["other"].audio = Append(@, x)]
        /\ count' = [count EXCEPT !["other"].chunk = @ + 1]
    BY <1>8, <2>2 DEF WavPut
  <2>6. x.id = count["other"].chunk + 1 /\ "other" \in Directions
    BY <2>1, <2>2
  <2> HIDE DEF x
  <2>4. \A e \in Directions : InTurn(e)'
    BY <1>5, <2>1, <2>3, <2>6
  <2>5. WavOnce'
    BY <1>8 DEF WavOnce, WavPut, PlacesTyped, Goto
  <2> QED
    BY <1>4, <2>4, <2>5 DEF LWords
<1>9. CASE WavEnd
  <2>1. /\ queue' = [queue EXCEPT !["other"].audio = Append(@, Sentinel)] /\ count' = count
    BY <1>9 DEF WavEnd
  <2>2. \A e \in Directions : InTurn(e)'
    BY <1>5, <2>1, SentinelSays
  <2>3. WavOnce'
    BY <1>9 DEF WavOnce, WavEnd, PlacesTyped, Goto
  <2> QED
    BY <1>4, <2>2, <2>3 DEF LWords
<1>10. ASSUME NEW d \in Directions, WakeStt(d) PROVE LWords'
  <2>1. queue' = [queue EXCEPT ![d].audio = Append(@, Sentinel)] /\ count' = count /\ pc' = pc
    BY <1>10 DEF WakeStt, MainOnly
  <2>2. \A e \in Directions : InTurn(e)'
    BY <1>5, <2>1, SentinelSays
  <2>3. WavOnce'
    BY <2>1 DEF WavOnce
  <2> QED
    BY <1>4, <2>2, <2>3 DEF LWords
<1>11. CASE RecorderLoop \/ RecorderCheck \/ RecordingFails \/ SaveChunkFails
  <2>1. queue' = queue /\ count' = count
    BY <1>11 DEF RecorderLoop, RecorderCheck, RecordingFails, SaveChunkFails
  <2>2. pc'["other"] = pc["other"]
    BY <1>11 DEF RecorderLoop, RecorderCheck, RecordingFails, SaveChunkFails, PlacesTyped, Goto
  <2>3. \A e \in Directions : InTurn(e)'
    BY <1>6, <2>1
  <2>4. WavOnce'
    BY <2>1, <2>2 DEF WavOnce
  <2> QED
    BY <1>4, <2>3, <2>4 DEF LWords
<1> QED
  BY <1>7, <1>8, <1>9, <1>10, <1>11 DEF Producer

\* What a stage of one direction leaves as it is.
LEMMA SttElsewhere ==
  ASSUME LInv, NEW d \in Directions, Stt(d)
  PROVE  /\ Elsewhere(d) /\ count' = count /\ buffer' = buffer
         /\ heard' = heard /\ gone' = gone /\ reached' = reached
         /\ pc'["other"].producer = pc["other"].producer
         /\ hold'[d].translator = hold[d].translator /\ pc'[d].translator = pc[d].translator
         /\ queue'[d].sentence = queue[d].sentence /\ queue'[d].translated = queue[d].translated
<1> USE DEF LInv, IInv, Typed
<1>1. /\ count' = count /\ buffer' = buffer
      /\ heard' = heard /\ gone' = gone /\ reached' = reached
  BY DEF Stt, SttTake, SttEnds, SttLock, Transcribes, SttFails, SttFinish, SttOnly, history
<1>2. /\ pc'["other"].producer = pc["other"].producer /\ pc'[d].translator = pc[d].translator
      /\ \A e \in Directions \ {d} : pc'[e] = pc[e]
  BY DEF PlacesTyped, Goto, Stt, SttTake, SttEnds, SttLock, Transcribes, SttFails, SttFinish
<1>3. /\ \A e \in Directions \ {d} : queue'[e] = queue[e]
      /\ queue'[d].sentence = queue[d].sentence /\ queue'[d].translated = queue[d].translated
  BY DEF QueuesTyped, Stt, SttTake, SttEnds, SttLock, Transcribes, SttFails, SttFinish
<1>4. /\ \A e \in Directions \ {d} : hold'[e] = hold[e]
      /\ hold'[d].translator = hold[d].translator
  BY DEF HoldTyped, Stt, SttTake, SttEnds, SttLock, Transcribes, SttFails, SttFinish
<1> QED
  BY <1>1, <1>2, <1>3, <1>4 DEF Elsewhere

\* A chunk is taken, or the sentinel: the others wait as before.
LEMMA SttWords ==
  ASSUME LInv, NEW d \in Directions, Stt(d)
  PROVE  LWords'
<1> USE DEF LInv, IInv, Typed
<1> DEFINE line == queue[d]
           h == hold[d].stt.id
           last == count[d].chunk
<1>0. /\ line.audio \in Seq(Entries) /\ line.text \in Seq(Entries) /\ last \in Nat /\ h \in Nat
      /\ h <= last /\ Recorded(line.audio, h, last)
  BY LineTypes DEF InTurn
<1>1. /\ Elsewhere(d) /\ count' = count /\ buffer' = buffer
      /\ heard' = heard /\ gone' = gone /\ reached' = reached
      /\ pc'["other"].producer = pc["other"].producer
      /\ hold'[d].translator = hold[d].translator /\ pc'[d].translator = pc[d].translator
      /\ queue'[d].sentence = line.sentence /\ queue'[d].translated = line.translated
  BY SttElsewhere
<1>2. ASSUME WordsKept(d)', InTurn(d)' PROVE LWords'
  BY <1>1, <1>2, OneDirection
<1>3. ASSUME queue'[d].text = line.text PROVE WordsKept(d)' /\ On(d, "text")' = On(d, "text")
  <2>1. \A q \in {"text", "sentence", "translated"} : queue'[d][q] = queue[d][q]
    BY <1>1, <1>3
  <2>2. On(d, "text")' = On(d, "text")
    BY <1>3 DEF On
  <2> QED
    BY <1>1, <2>1, <2>2, QuietWords
<1>4. CASE SttTake(d)
  <2>1. /\ line.audio # <<>> /\ Head(line.audio) # Sentinel
        /\ queue'[d].audio = Tail(line.audio) /\ queue'[d].text = line.text
        /\ hold'[d].stt = Head(line.audio) /\ pc[d].stt = "loop" /\ pc'[d].stt = "lock"
    BY <1>4 DEF SttTake, QueuesTyped, HoldTyped, PlacesTyped, At, Goto
  <2>2. hold[d].stt = Sentinel /\ h = 0
    BY <2>1, SentinelSays DEF InTurn
  <2>3. /\ Recorded(Tail(line.audio), Head(line.audio).id, last)
        /\ Head(line.audio).id \in 1 .. last
    <3>1. Recorded(Tail(line.audio), Head(line.audio).id, last) /\ Head(line.audio).id \in h + 1 .. last
      BY <1>0, <2>1, TailRecorded
    <3> QED
      BY <2>2, <3>1
  <2>4. Awaited(d)' = Awaited(d)
    <3>1. Ids(line.audio) = {Head(line.audio).id} \cup Ids(Tail(line.audio))
      BY <1>0, <2>1, IdsStep
    <3> QED
      BY <2>1, <2>2, <3>1 DEF Awaited
  <2>5. WordsKept(d)' /\ On(d, "text")' = On(d, "text")
    BY <1>3, <2>1
  <2>6. InTurn(d)'
    BY <1>1, <2>1, <2>3, <2>4, <2>5 DEF InTurn
  <2> QED
    BY <1>2, <2>5, <2>6
<1>5. CASE SttEnds(d)
  <2>1. /\ line.audio # <<>> /\ Head(line.audio) = Sentinel
        /\ queue'[d].audio = Tail(line.audio) /\ queue'[d].text = Append(line.text, Sentinel)
        /\ hold'[d].stt = hold[d].stt /\ pc[d].stt = "loop" /\ pc'[d].stt = "done"
    BY <1>5 DEF SttEnds, QueuesTyped, HoldTyped, PlacesTyped, At, Goto
  <2>2. Recorded(Tail(line.audio), h, last)
    BY <1>0, <2>1, TailRecorded
  <2>3. Awaited(d)' = Awaited(d)
    <3>1. Ids(line.audio) = {0} \cup Ids(Tail(line.audio))
      BY <1>0, <2>1, IdsStep, SentinelSays
    <3> QED
      BY <2>1, <3>1 DEF Awaited
  <2>4. InLine(Texts(line.text))
    BY DEF WordsKept, TextsInOrder
  <2>5. InLine(Texts(queue'[d].text)) /\ On(d, "text")' = On(d, "text")
    BY <1>0, <2>1, <2>4, SentinelQueued DEF On
  <2>6. WordsKept(d)'
    <3>1. /\ On(d, "sentence")' = On(d, "sentence") /\ On(d, "translated")' = On(d, "translated")
          /\ InWork(d)' = InWork(d) /\ Pended(d)' = Pended(d)
      BY <1>1 DEF On, InWork, Pended
    <3>2. Later(d)' = Later(d) /\ Underway(d)' = Underway(d)
      BY <3>1 DEF Later, Underway
    <3>3. TextsInOrder(d)'
      BY <1>1, <2>5 DEF WordsKept, TextsInOrder
    <3>4. StagesInOrder(d)' /\ WordsAccounted(d)'
      BY <1>1, <2>5, <3>1, <3>2 DEF WordsKept, StagesInOrder, WordsAccounted
    <3> QED
      BY <1>1, <3>3, <3>4 DEF WordsKept
  <2>7. InTurn(d)'
    BY <1>1, <2>1, <2>2, <2>3, <2>5 DEF InTurn
  <2> QED
    BY <1>2, <2>6, <2>7
<1>6. CASE SttLock(d)
  <2>1. queue' = queue /\ hold' = hold /\ pc[d].stt = "lock" /\ pc'[d].stt = "transcribe"
    BY <1>6 DEF SttLock, PlacesTyped, At, Goto
  <2>2. WordsKept(d)' /\ On(d, "text")' = On(d, "text")
    BY <1>3, <2>1
  <2>3. InTurn(d)'
    BY <1>1, <2>1, <2>2, QuietTurn
  <2> QED
    BY <1>2, <2>2, <2>3
<1>7. ASSUME NEW t \in Text, InOrderOf(t), \A token \in ToSet(t) : token.seg = h, SttFinish(d, t)
      PROVE  LWords'
  <2> DEFINE x == Item(h, t)
             X == On(d, "text")
  <2>1. /\ queue'[d].audio = line.audio /\ pc[d].stt = "transcribe" /\ pc'[d].stt = "loop"
        /\ hold'[d].stt = Sentinel
        /\ queue'[d].text = IF Noise(t) THEN line.text ELSE Append(line.text, x)
    BY <1>7 DEF SttFinish, QueuesTyped, HoldTyped, PlacesTyped, At, Goto
  <2>2. h \in Nat \ {0}
    BY <2>1 DEF HoldTyped, Jobs
  <2>3. x \in Entries /\ x.text = t
    BY <2>2, JobType DEF Entries, Item
  <2>4. h \in Awaited(d) /\ Awaited(d)' = Ids(line.audio) \ {0} /\ Awaited(d)' \subseteq Awaited(d)
    BY <2>1, <2>2, SentinelSays DEF Awaited
  <2>5. \A n \in Awaited(d)' : n \in Nat /\ h < n
    <3> SUFFICES ASSUME NEW i \in 1 .. Len(line.audio), line.audio[i].id # 0
                 PROVE  line.audio[i].id \in Nat /\ h < line.audio[i].id
      BY <2>4 DEF Ids
    <3>1. line.audio[i] # Sentinel
      BY SentinelSays
    <3>2. line.audio[i].id \in h + 1 .. last
      BY <1>0, <3>1 DEF Recorded
    <3> QED
      BY <1>0, <3>2
  <2>6. /\ heard[d] \in SUBSET Token /\ X \in SUBSET Token /\ Texts(line.text) \in Seq(Text)
        /\ InLine(Texts(line.text)) /\ ToSet(t) \in SUBSET Token /\ Ahead(heard[d], X)
    BY LineTypes, ToSetType DEF WordsKept, TextsInOrder, StagesInOrder
  <2>7. \A token \in heard[d] \cup X : token.seg < h
    BY <2>4 DEF InTurn
  <2>8. Ahead(heard[d], ToSet(t)) /\ Ahead(X, ToSet(t))
    BY <1>7, <2>7 DEF Ahead, Before
  <2>9. /\ InLine(Texts(queue'[d].text))
        /\ On(d, "text")' = X \/ On(d, "text")' = X \cup ToSet(t)
    <3>1. CASE Noise(t)
      BY <2>1, <2>6, <3>1 DEF On
    <3>2. CASE ~Noise(t)
      <4>1. Texts(queue'[d].text) = Append(Texts(line.text), t)
        BY <1>0, <2>1, <2>3, <3>2, TextsAppend
      <4>2. Ahead(AllTokens(Texts(line.text)), ToSet(t))
        BY <2>8 DEF On
      <4>3. /\ InLine(Append(Texts(line.text), t))
            /\ AllTokens(Append(Texts(line.text), t)) = AllTokens(Texts(line.text)) \cup ToSet(t)
        BY <1>7, <2>6, <4>2, AppendLine
      <4> QED
        BY <4>1, <4>3 DEF On
    <3> QED
      BY <3>1, <3>2
  <2>10. Ahead(heard[d], On(d, "text")')
    BY <2>6, <2>8, <2>9, AheadParts
  <2>11. WordsKept(d)'
    <3>1. /\ On(d, "sentence")' = On(d, "sentence") /\ On(d, "translated")' = On(d, "translated")
          /\ InWork(d)' = InWork(d) /\ Pended(d)' = Pended(d)
      BY <1>1 DEF On, InWork, Pended
    <3>2. Later(d)' = Later(d) /\ Underway(d)' = Underway(d)
      BY <3>1 DEF Later, Underway
    <3>3. TextsInOrder(d)'
      BY <1>1, <2>9 DEF WordsKept, TextsInOrder
    <3>4. StagesInOrder(d)' /\ WordsAccounted(d)'
      BY <1>1, <2>10, <3>1, <3>2 DEF WordsKept, StagesInOrder, WordsAccounted
    <3> QED
      BY <1>1, <3>3, <3>4 DEF WordsKept
  <2>12. Recorded(line.audio, 0, last)
    <3>1. \A n \in h + 1 .. last : n \in 0 + 1 .. last
      BY <1>0
    <3> QED
      BY <1>0, <3>1 DEF Recorded
  <2>13. ASSUME NEW token \in heard'[d] \cup On(d, "text")'
         PROVE  token.seg <= last /\ \A n \in Awaited(d)' : token.seg < n
    <3>1. CASE token \in heard[d] \cup X
      BY <2>4, <3>1 DEF InTurn
    <3>2. CASE token \in ToSet(t)
      BY <1>0, <1>7, <2>5, <3>2
    <3> QED
      BY <1>1, <2>9, <3>1, <3>2
  <2>14. InTurn(d)'
    BY <1>0, <1>1, <2>1, <2>12, <2>13, SentinelSays DEF InTurn
  <2> QED
    BY <1>2, <2>11, <2>14
<1>8. CASE Transcribes(d)
  BY <1>0, <1>7, <1>8, SpokenOrder DEF Transcribes
<1>9. CASE SttFails(d)
  BY <1>7, <1>9, SentinelSays DEF SttFails
<1> QED
  BY <1>4, <1>5, <1>6, <1>8, <1>9 DEF Stt

\* What the stages after Whisper leave as it is.
LEMMA LaterElsewhere ==
  ASSUME LInv, NEW d \in Directions, Buffer(d) \/ Translator(d) \/ Speak(d)
  PROVE  /\ Elsewhere(d) /\ pc'["other"].producer = pc["other"].producer
         /\ count'["other"].chunk = count["other"].chunk /\ count'[d].chunk = count[d].chunk
         /\ hold'[d].stt = hold[d].stt /\ pc'[d].stt = pc[d].stt
         /\ queue'[d].audio = queue[d].audio
<1> USE DEF LInv, IInv, Typed
<1>1. \A e \in Directions \ {d} : heard'[e] = heard[e] /\ gone'[e] = gone[e] /\ reached'[e] = reached[e]
  <2>1. CASE Buffer(d)
    BY <2>1 DEF HistoryTyped, Buffer, IgnoreFragment, AddFragment, BufferTimeout, BufferEnds, Emit,
       BufferOnly
  <2>2. CASE Translator(d)
    BY <2>2 DEF HistoryTyped, Translator, TranslatorTake, Translated, TranslatorFails,
       TranslatorEnds, TranslatorOnly
  <2>3. CASE Speak(d)
    BY <2>3 DEF HistoryTyped, Speak, SpeechDies, SpeechEnds, SpeechOnly
  <2> QED
    BY <2>1, <2>2, <2>3
<1>2. /\ \A e \in Directions \ {d} : pc'[e] = pc[e]
      /\ pc'["other"].producer = pc["other"].producer /\ pc'[d].stt = pc[d].stt
  <2>1. ASSUME NEW stage \in {"buffer", "translator", "speech"}, NEW next, Goto(d, stage, next)
        PROVE  /\ \A e \in Directions \ {d} : pc'[e] = pc[e]
               /\ pc'["other"].producer = pc["other"].producer /\ pc'[d].stt = pc[d].stt
    BY <2>1 DEF Goto, PlacesTyped
  <2>2. CASE Buffer(d)
    BY <2>1, <2>2 DEF Buffer, IgnoreFragment, AddFragment, BufferTimeout, BufferEnds
  <2>3. CASE TranslatorTake(d) \/ Translated(d)
    BY <2>1, <2>3 DEF TranslatorTake, Translated
  <2>4. CASE TranslatorFails(d) \/ TranslatorEnds(d)
    BY <2>1, <2>4 DEF TranslatorFails, TranslatorEnds
  <2>5. CASE Speak(d)
    BY <2>1, <2>5 DEF Speak, SpeechDies, SpeechEnds
  <2> QED
    BY <2>2, <2>3, <2>4, <2>5 DEF Translator
<1>3. /\ \A e \in Directions \ {d} : queue'[e] = queue[e]
      /\ queue'[d].audio = queue[d].audio
      /\ \A e \in Directions : count'[e].chunk = count[e].chunk
  <2>1. CASE IgnoreFragment(d)
    BY <2>1 DEF IgnoreFragment, QueuesTyped
  <2>2. ASSUME NEW texts, NEW candidates, NEW then, Emit(d, texts, candidates, then)
        PROVE  /\ \A e \in Directions \ {d} : queue'[e] = queue[e]
               /\ queue'[d].audio = queue[d].audio
               /\ \A e \in Directions : count'[e].chunk = count[e].chunk
    BY <2>2 DEF Emit, QueuesTyped, CountTyped
  <2>3. CASE AddFragment(d) \/ BufferTimeout(d) \/ BufferEnds(d)
    BY <2>2, <2>3 DEF AddFragment, BufferTimeout, BufferEnds
  <2>4. CASE Translator(d)
    <3>1. count' = count
      BY <2>4 DEF Translator, TranslatorTake, Translated, TranslatorFails, TranslatorEnds, TranslatorOnly
    <3>2. CASE TranslatorTake(d) \/ TranslatorFails(d)
      BY <3>1, <3>2 DEF TranslatorTake, TranslatorFails, QueuesTyped
    <3>3. CASE Translated(d)
      BY <3>1, <3>3 DEF Translated, QueuesTyped
    <3>4. CASE TranslatorEnds(d)
      BY <3>1, <3>4 DEF TranslatorEnds, QueuesTyped
    <3> QED
      BY <2>4, <3>2, <3>3, <3>4 DEF Translator
  <2>5. CASE Speak(d)
    BY <2>5 DEF Speak, SpeechDies, SpeechEnds, SpeechOnly, QueuesTyped
  <2> QED
    BY <2>1, <2>3, <2>4, <2>5 DEF Buffer
<1>4. /\ \A e \in Directions \ {d} : hold'[e] = hold[e] /\ buffer'[e] = buffer[e]
      /\ hold'[d].stt = hold[d].stt
  <2>1. CASE Buffer(d)
    BY <2>1 DEF Buffer, IgnoreFragment, AddFragment, BufferTimeout, BufferEnds, BufferOnly, BufferTyped
  <2>2. CASE Translator(d)
    BY <2>2 DEF Translator, TranslatorTake, Translated, TranslatorFails, TranslatorEnds,
       TranslatorOnly, HoldTyped
  <2>3. CASE Speak(d)
    BY <2>3 DEF Speak, SpeechDies, SpeechEnds, SpeechOnly
  <2> QED
    BY <2>1, <2>2, <2>3
<1> QED
  BY <1>1, <1>2, <1>3, <1>4 DEF Elsewhere

\* Such a stage only has to keep the words of its direction: the chunks that are
\* still to come are later than all of them.
LEMMA LaterTurn ==
  ASSUME LInv, NEW d \in Directions, Buffer(d) \/ Translator(d) \/ Speak(d),
         WordsKept(d)', heard'[d] \cup On(d, "text")' \subseteq heard[d] \cup On(d, "text")
  PROVE  LWords'
<1>1. /\ Elsewhere(d) /\ pc'["other"].producer = pc["other"].producer
      /\ count'["other"].chunk = count["other"].chunk /\ count'[d].chunk = count[d].chunk
      /\ hold'[d].stt = hold[d].stt /\ pc'[d].stt = pc[d].stt
      /\ queue'[d].audio = queue[d].audio
  BY LaterElsewhere
<1>2. InTurn(d)'
  BY <1>1, QuietTurn DEF LInv
<1> QED
  BY <1>1, <1>2, OneDirection

-----------------------------------------------------------------------------
(* What the buffer does, in terms of the words: of the pending ones P and   *)
(* the new ones F some are emitted (E), refused (N) or pending again (Q).   *)
(* R has reached the speech thread, T is translated, H is translated now,   *)
(* S waits, G is gone and V was ever accepted.                              *)

\* The parts in order and accounted for.
Parts(R, T, H, S, P, G, V) ==
  /\ V \in SUBSET Token
  /\ Ahead(R, T \cup (H \cup S \cup P)) /\ Ahead(T, H \cup S \cup P)
  /\ Ahead(H, S \cup P) /\ Ahead(S, P)
  /\ V = (T \cup (H \cup S \cup P)) \cup R \cup G
  /\ G \cap ((T \cup (H \cup S \cup P)) \cup R) = {}

LEMMA ReleasedWords ==
  ASSUME NEW R, NEW T, NEW H, NEW S, NEW P, NEW G, NEW V, NEW E, NEW N, NEW Q,
         NEW F \in SUBSET Token,
         Parts(R, T, H, S, P, G, V), Ahead(V, F), Ahead(E \cup N, Q),
         E \cup N \cup Q = P \cup F, E \cap N = {}
  PROVE  Parts(R, T, H, S \cup E, Q, G \cup N, V \cup F)
<1> USE DEF Parts
<1>1. /\ E \subseteq P \cup F /\ N \subseteq P \cup F /\ Q \subseteq P \cup F
      /\ R \subseteq V /\ T \subseteq V /\ H \subseteq V /\ S \subseteq V /\ G \subseteq V
      /\ P \subseteq V /\ V \subseteq Token
  BY Zenon
<1>2. Ahead(R, F) /\ Ahead(T, F) /\ Ahead(H, F) /\ Ahead(S, F) /\ Ahead(G, F)
  <2>1. \A X : X \subseteq V => Ahead(X, F)
    BY DEF Ahead
  <2> QED
    BY <1>1, <2>1, Zenon
<1>3. /\ Ahead(R, T) /\ Ahead(R, H) /\ Ahead(R, S) /\ Ahead(R, P) /\ Ahead(T, H)
      /\ Ahead(T, S) /\ Ahead(T, P) /\ Ahead(H, S) /\ Ahead(H, P)
  <2>1. Ahead(R, T) /\ Ahead(R, H) /\ Ahead(R, S) /\ Ahead(R, P)
    BY DEF Ahead
  <2>2. Ahead(T, H) /\ Ahead(T, S) /\ Ahead(T, P)
    BY DEF Ahead
  <2>3. Ahead(H, S) /\ Ahead(H, P)
    BY DEF Ahead
  <2> QED
    BY <2>1, <2>2, <2>3
<1>4. Ahead(R, P \cup F) /\ Ahead(T, P \cup F) /\ Ahead(H, P \cup F) /\ Ahead(S, P \cup F)
  BY <1>2, <1>3, AheadBoth, Zenon
<1>5. \A X : Ahead(X, P \cup F) => Ahead(X, E) /\ Ahead(X, N) /\ Ahead(X, Q)
  BY <1>1 DEF Ahead
<1>6. Ahead(E, Q) /\ Ahead(N, Q)
  BY AheadBoth, Zenon
<1>7. Ahead(S \cup E, Q)
  BY <1>4, <1>5, <1>6, AheadBoth, Zenon
<1>8. /\ Ahead(R, T \cup (H \cup (S \cup E) \cup Q)) /\ Ahead(T, H \cup (S \cup E) \cup Q)
      /\ Ahead(H, (S \cup E) \cup Q)
  <2>1. \A X : Ahead(X, P \cup F) /\ Ahead(X, S) => Ahead(X, (S \cup E) \cup Q)
    BY <1>5, AheadBoth, Zenon
  <2>2. Ahead(R, (S \cup E) \cup Q) /\ Ahead(T, (S \cup E) \cup Q) /\ Ahead(H, (S \cup E) \cup Q)
    BY <1>3, <1>4, <2>1, Zenon
  <2>3. Ahead(R, (S \cup E) \cup Q) /\ Ahead(R, T) /\ Ahead(R, H) => Ahead(R, T \cup (H \cup (S \cup E) \cup Q))
    BY DEF Ahead
  <2>4. Ahead(T, (S \cup E) \cup Q) /\ Ahead(T, H) => Ahead(T, H \cup (S \cup E) \cup Q)
    BY DEF Ahead
  <2> QED
    BY <1>3, <2>2, <2>3, <2>4, Zenon
<1>9. V \cup F = (T \cup (H \cup (S \cup E) \cup Q)) \cup R \cup (G \cup N)
  OBVIOUS
<1>10. R \cap N = {} /\ T \cap N = {} /\ H \cap N = {} /\ S \cap N = {} /\ N \cap Q = {} /\ G \cap F = {}
  <2>1. Ahead(R, N) /\ Ahead(T, N) /\ Ahead(H, N) /\ Ahead(S, N)
    BY <1>4, <1>5, Zenon
  <2>2. N \in SUBSET Token /\ R \in SUBSET Token /\ T \in SUBSET Token /\ H \in SUBSET Token
        /\ S \in SUBSET Token /\ G \in SUBSET Token
    BY <1>1
  <2> QED
    BY <1>2, <1>6, <2>1, <2>2, AheadApart
<1>11. G \cap P = {} /\ G \cap T = {} /\ G \cap H = {} /\ G \cap S = {} /\ G \cap R = {}
  BY Zenon
<1>12. G \cap E = {} /\ G \cap Q = {}
  BY <1>1, <1>10, <1>11, Zenon
<1>13. (G \cup N) \cap ((T \cup (H \cup (S \cup E) \cup Q)) \cup R) = {}
  BY <1>10, <1>11, <1>12
<1> QED
  BY <1>7, <1>8, <1>9, <1>13

\* The buffer releases the texts l and keeps the text r, of what was pending and
\* of the words F that it has just accepted.
LEMMA Released ==
  ASSUME LInv, NEW d \in Directions, NEW texts \in Seq(Entries), NEW l \in Seq(Text),
         NEW then \in {<<>>, <<Sentinel>>}, Emit(d, texts, l, then),
         NEW F \in SUBSET Token, heard'[d] = heard[d] \cup F,
         NEW r \in Text, buffer'[d] = r,
         InLine(l), InOrderOf(r), Ahead(AllTokens(l), ToSet(r)),
         AllTokens(l) \cup ToSet(r) = Pended(d) \cup F,
         On(d, "text") = F \cup AllTokens(Texts(texts)), Ahead(F, AllTokens(Texts(texts))),
         InLine(Texts(texts)),
         hold'[d] = hold[d], reached'[d] = reached[d], pc'[d].translator = pc[d].translator
  PROVE  WordsKept(d)' /\ heard'[d] \cup On(d, "text")' \subseteq heard[d] \cup On(d, "text")
<1> DEFINE emitted == Translatable(l)
           E == AllTokens(emitted)
           N == UNION {ToSet(s) : s \in {c \in ToSet(l) : ~ShouldTranslate(c)}}
           Q == ToSet(r)
           R == reached[d]
           T == On(d, "translated")
           H == InWork(d)
           S == On(d, "sentence")
           P == Pended(d)
           sentences == queue[d].sentence
           jobs == Numbered(emitted, count[d].sentence)
<1>0. WordsKept(d) /\ IInv /\ HistoryTyped
  BY DEF LInv
<1>1. emitted \in Seq(Text) /\ InLine(emitted)
  BY TranslatableType, TranslatableOrder
<1>2. AllTokens(l) = E \cup N /\ E \cap N = {}
  BY OrderDistinct, TranslatableKeepsTokens DEF Text
<1>3. /\ sentences \in Seq(Entries) /\ Texts(sentences) \in Seq(Text) /\ count[d].sentence \in Nat
      /\ R \in SUBSET Token /\ T \in SUBSET Token /\ H \in SUBSET Token /\ S \in SUBSET Token
      /\ P \in SUBSET Token /\ heard[d] \in SUBSET Token /\ gone[d] \in SUBSET Token
  BY <1>0, LineTypes
<1>4. /\ queue'[d].text = texts /\ queue'[d].translated = queue[d].translated
      /\ queue'[d].sentence = sentences \o jobs \o then /\ gone'[d] = gone[d] \cup N
  <2>1. queue \in [Directions -> [Queues -> Seq(Entries)]] /\ gone \in [Directions -> SUBSET Token]
    BY <1>0 DEF IInv, Typed, QueuesTyped, HistoryTyped
  <2>2. queue' = [queue EXCEPT ![d].text = texts, ![d].sentence = @ \o jobs \o then]
    BY DEF Emit
  <2>3. gone' = [gone EXCEPT ![d] = @ \cup N]
    BY DEF Emit, Worthwhile
  <2> HIDE DEF jobs, N
  <2>4. gone'[d] = gone[d] \cup N
    BY <2>1, <2>3
  <2> QED
    BY <2>1, <2>2, <2>4
<1>5. Ahead(heard[d], F)
  BY <1>0, AheadParts DEF WordsKept, StagesInOrder
<1>6. Ahead(R, T \cup (H \cup S \cup P)) /\ Ahead(T, H \cup S \cup P) /\ Ahead(H, S \cup P)
      /\ Ahead(S, P) /\ heard[d] = (T \cup (H \cup S \cup P)) \cup R \cup gone[d]
      /\ gone[d] \cap ((T \cup (H \cup S \cup P)) \cup R) = {}
  BY <1>0 DEF WordsKept, StagesInOrder, WordsAccounted, Underway, Later
<1> HIDE DEF N, E, Q, R, T, H, S, P
<1>7. /\ Ahead(R, T \cup (H \cup (S \cup E) \cup Q)) /\ Ahead(T, H \cup (S \cup E) \cup Q)
      /\ Ahead(H, (S \cup E) \cup Q) /\ Ahead(S \cup E, Q)
      /\ heard[d] \cup F = (T \cup (H \cup (S \cup E) \cup Q)) \cup R \cup (gone[d] \cup N)
      /\ (gone[d] \cup N) \cap ((T \cup (H \cup (S \cup E) \cup Q)) \cup R) = {}
  <2>1. Ahead(E \cup N, Q) /\ E \cup N \cup Q = P \cup F
    BY <1>2 DEF Q, P
  <2> DEFINE V == heard[d]
             G == gone[d]
  <2>2. Parts(R, T, H, S, P, G, V) /\ Ahead(V, F)
    BY <1>3, <1>5, <1>6 DEF Parts
  <2> HIDE DEF V, G
  <2>3. Parts(R, T, H, S \cup E, Q, G \cup N, V \cup F)
    BY <1>2, <2>1, <2>2, ReleasedWords
  <2> QED
    BY <2>3 DEF V, G, Parts
<1>8. InLine(Texts(queue'[d].sentence)) /\ AllTokens(Texts(queue'[d].sentence)) = S \cup E
  <2>1. jobs \in Seq(Jobs) /\ Texts(jobs) = emitted
    BY <1>1, <1>3, NumberedType, TextsNumbered
  <2>2. jobs \in Seq(Entries)
    BY <2>1 DEF Entries
  <2>3. InLine(Texts(sentences))
    BY <1>0 DEF WordsKept, TextsInOrder
  <2>4. Ahead(AllTokens(Texts(sentences)), AllTokens(emitted))
    <3>1. Ahead(S, E)
      BY <1>7, AheadParts, <1>5, <1>6, <1>2, <1>3 DEF Ahead, Q, P
    <3> QED
      BY <3>1 DEF S, On, E
  <2> HIDE DEF jobs, emitted
  <2>5. Texts(sentences \o jobs) = Texts(sentences) \o emitted
    BY <1>3, <2>1, <2>2, TextsConcat
  <2>6. /\ InLine(Texts(sentences) \o emitted)
        /\ AllTokens(Texts(sentences) \o emitted) = AllTokens(Texts(sentences)) \cup AllTokens(emitted)
    BY <1>1, <1>3, <2>3, <2>4, ConcatLine
  <2>7. sentences \o jobs \in Seq(Entries) /\ InLine(Texts(sentences \o jobs))
        /\ AllTokens(Texts(sentences \o jobs)) = S \cup E
    BY <1>3, <2>2, <2>5, <2>6 DEF S, On, E
  <2>8. CASE then = <<>>
    <3>1. queue'[d].sentence = sentences \o jobs
      BY <1>4, <2>7, <2>8, ConcatEmptySeq DEF jobs, emitted
    <3> QED
      BY <2>7, <3>1
  <2>9. CASE then = <<Sentinel>>
    <3>1. queue'[d].sentence = Append(sentences \o jobs, Sentinel)
      <4>1. \A q \in Seq(Entries) : \A x : q \o <<x>> = Append(q, x)
        OBVIOUS
      <4>2. queue'[d].sentence = sentences \o jobs \o <<Sentinel>>
        BY <1>4, <2>9 DEF jobs, emitted
      <4> QED
        BY <2>7, <4>1, <4>2, Zenon
    <3> QED
      BY <2>7, <3>1, SentinelQueued
  <2> QED
    BY <2>8, <2>9
<1>9. /\ On(d, "translated")' = T /\ InWork(d)' = H /\ On(d, "sentence")' = S \cup E
      /\ Pended(d)' = Q /\ On(d, "text")' = AllTokens(Texts(texts))
  BY <1>4, <1>8 DEF On, InWork, Pended, T, H, Q
<1>10. TextsInOrder(d)'
  BY <1>0, <1>4, <1>8 DEF WordsKept, TextsInOrder
<1>11. Ahead(heard[d] \cup F, AllTokens(Texts(texts)))
  <2>1. Ahead(heard[d], F \cup AllTokens(Texts(texts)))
    BY <1>0 DEF WordsKept, StagesInOrder
  <2> QED
    BY <2>1, AheadBoth, Zenon
<1>12. Underway(d)' = T \cup (H \cup (S \cup E) \cup Q) /\ Later(d)' = H \cup (S \cup E) \cup Q
  BY <1>9 DEF Underway, Later
<1>13. StagesInOrder(d)'
  BY <1>7, <1>9, <1>11, <1>12 DEF StagesInOrder, R
<1>14. WordsAccounted(d)'
  BY <1>4, <1>7, <1>12 DEF WordsAccounted, R
<1>15. WordsKept(d)'
  BY <1>0, <1>10, <1>13, <1>14 DEF WordsKept
<1> QED
  BY <1>9, <1>15

\* The head of the text queue: behind all that was accepted, and ahead of the rest.
LEMMA TextTaken ==
  ASSUME LInv, NEW d \in Directions, queue[d].text # <<>>
  PROVE  LET f == Head(queue[d].text).text
             texts == Tail(queue[d].text)
         IN  /\ f \in Text /\ InOrderOf(f) /\ texts \in Seq(Entries)
             /\ On(d, "text") = ToSet(f) \cup AllTokens(Texts(texts))
             /\ Ahead(ToSet(f), AllTokens(Texts(texts))) /\ InLine(Texts(texts))
             /\ Ahead(heard[d], ToSet(f)) /\ Ahead(heard[d], AllTokens(Texts(texts)))
             /\ ToSet(f) \in SUBSET Token
<1> DEFINE f == Head(queue[d].text).text
           texts == Tail(queue[d].text)
           l == Texts(queue[d].text)
<1>1. queue[d].text \in Seq(Entries) /\ InLine(l) /\ Ahead(heard[d], AllTokens(l))
  BY LineTypes DEF LInv, WordsKept, TextsInOrder, StagesInOrder, On
<1>2. l # <<>> /\ Head(l) = f /\ Texts(texts) = Tail(l) /\ texts \in Seq(Entries) /\ l \in Seq(Text)
  BY <1>1, TextsTail, TextsType
<1> HIDE DEF f, texts, l
<1>3. /\ Head(l) \in Text /\ InOrderOf(Head(l)) /\ InLine(Tail(l))
      /\ Ahead(ToSet(Head(l)), AllTokens(Tail(l)))
      /\ AllTokens(l) = ToSet(Head(l)) \cup AllTokens(Tail(l))
  BY <1>1, <1>2, HeadLine
<1>4. Ahead(heard[d], ToSet(f)) /\ Ahead(heard[d], AllTokens(Texts(texts)))
  <2>1. Ahead(heard[d], ToSet(f) \cup AllTokens(Texts(texts)))
    BY <1>1, <1>2, <1>3
  <2> QED
    BY <2>1 DEF Ahead
<1>5. On(d, "text") = AllTokens(l)
  BY DEF On, l
<1> QED
  BY <1>2, <1>3, <1>4, <1>5, ToSetType DEF f, texts

LEMMA IgnoreWords == ASSUME LInv, NEW d \in Directions, IgnoreFragment(d) PROVE LWords'
<1> DEFINE texts == Tail(queue[d].text)
<1>1. /\ queue'[d].text = texts /\ queue[d].text # <<>>
      /\ \A q \in {"sentence", "translated"} : queue'[d][q] = queue[d][q]
      /\ hold' = hold /\ pc' = pc /\ buffer' = buffer /\ heard' = heard /\ gone' = gone
      /\ reached' = reached
  <2>1. queue \in [Directions -> [Queues -> Seq(Entries)]]
    BY DEF LInv, IInv, Typed, QueuesTyped
  <2> QED
    BY <2>1 DEF IgnoreFragment, BufferOnly
<1>2. /\ On(d, "text") = ToSet(Head(queue[d].text).text) \cup AllTokens(Texts(texts))
      /\ InLine(Texts(texts)) /\ Ahead(heard[d], AllTokens(Texts(texts)))
  BY <1>1, TextTaken
<1>3. WordsKept(d)
  BY DEF LInv
<1>4. /\ On(d, "text")' = AllTokens(Texts(texts)) /\ On(d, "sentence")' = On(d, "sentence")
      /\ On(d, "translated")' = On(d, "translated")
      /\ InWork(d)' = InWork(d) /\ Pended(d)' = Pended(d)
  BY <1>1 DEF On, InWork, Pended
<1>5. Later(d)' = Later(d) /\ Underway(d)' = Underway(d)
  BY <1>4 DEF Later, Underway
<1>6. TextsInOrder(d)'
  BY <1>1, <1>2, <1>3 DEF WordsKept, TextsInOrder
<1>7. StagesInOrder(d)'
  BY <1>1, <1>2, <1>3, <1>4, <1>5 DEF WordsKept, StagesInOrder
<1>8. WordsAccounted(d)'
  BY <1>1, <1>3, <1>5 DEF WordsKept, WordsAccounted
<1>9. WordsKept(d)'
  BY <1>1, <1>3, <1>6, <1>7, <1>8 DEF WordsKept
<1> QED
  BY <1>1, <1>2, <1>4, <1>9, LaterTurn DEF Buffer

\* What the buffer makes of the pending text and a fragment: the complete sentences
\* go out, and the rest with them if it is long enough.
LEMMA Drained ==
  ASSUME NEW text \in Text, InOrderOf(text), NEW full \in BOOLEAN
  PROVE  LET rest == Unfinished(text)
             l == IF full THEN Append(Sentences(text), rest) ELSE Sentences(text)
             r == IF full THEN <<>> ELSE rest
         IN  /\ l \in Seq(Text) /\ r \in Text /\ InLine(l) /\ InOrderOf(r)
             /\ Ahead(AllTokens(l), ToSet(r)) /\ AllTokens(l) \cup ToSet(r) = ToSet(text)
<1> DEFINE k == Sentences(text)
           rest == Unfinished(text)
<1>1. k \in Seq(Text) /\ rest \in Text
  BY SplitType DEF Sentences, Unfinished, Text
<1>2. InLine(k) /\ InOrderOf(rest) /\ Ahead(AllTokens(k), ToSet(rest))
  BY SplitOrder DEF Sentences, Unfinished
<1>3. AllTokens(k) \cup ToSet(rest) = ToSet(text)
  BY OrderDistinct, SplitKeepsTokens DEF Sentences, Unfinished, Text
<1> HIDE DEF k, rest
<1>4. /\ Append(k, rest) \in Seq(Text) /\ InLine(Append(k, rest))
      /\ AllTokens(Append(k, rest)) = AllTokens(k) \cup ToSet(rest)
  BY <1>1, <1>2, AppendLine
<1>5. Ahead(AllTokens(Append(k, rest)), ToSet(<<>>))
  BY SentinelSays, AheadParts
<1>6. CASE full
  BY <1>3, <1>4, <1>5, <1>6, SentinelSays DEF k, rest
<1>7. CASE ~full
  BY <1>1, <1>2, <1>3, <1>7 DEF k, rest
<1> QED
  BY <1>6, <1>7

LEMMA AddWords == ASSUME LInv, NEW d \in Directions, AddFragment(d) PROVE LWords'
<1> DEFINE f == Head(queue[d].text).text
           texts == Tail(queue[d].text)
           text == buffer[d] \o f
           rest == Unfinished(text)
           full == Full(rest)
           l == IF full THEN Append(Sentences(text), rest) ELSE Sentences(text)
           r == IF full THEN <<>> ELSE rest
           F == ToSet(f)
<1>0. IInv /\ HistoryTyped /\ WordsKept(d)
  BY DEF LInv
<1>1. /\ queue[d].text # <<>> /\ Emit(d, texts, l, <<>>)
      /\ buffer' = [buffer EXCEPT ![d] = r] /\ heard' = [heard EXCEPT ![d] = @ \cup F]
      /\ hold' = hold /\ reached' = reached /\ pc' = pc
  BY DEF AddFragment, Pending, BufferOnly
<1>2. /\ f \in Text /\ InOrderOf(f) /\ texts \in Seq(Entries)
      /\ On(d, "text") = F \cup AllTokens(Texts(texts))
      /\ Ahead(F, AllTokens(Texts(texts))) /\ InLine(Texts(texts))
      /\ Ahead(heard[d], F) /\ F \in SUBSET Token
  BY <1>1, TextTaken
<1>3. buffer'[d] = r /\ heard'[d] = heard[d] \cup F
  <2>1. buffer \in [Directions -> Text] /\ heard \in [Directions -> SUBSET Token]
    BY <1>0 DEF IInv, Typed, BufferTyped, HistoryTyped
  <2> HIDE DEF r, F
  <2> QED
    BY <1>1, <2>1
<1>4. buffer[d] \in Text /\ InOrderOf(buffer[d]) /\ Pended(d) \subseteq heard[d]
  BY <1>0, LineTypes DEF WordsKept, TextsInOrder, WordsAccounted, Underway, Later
<1>5. Ahead(ToSet(buffer[d]), F)
  BY <1>2, <1>4 DEF Ahead, Pended
<1>6. text \in Text /\ InOrderOf(text) /\ ToSet(text) = Pended(d) \cup F
  BY <1>2, <1>4, <1>5, JoinOrder DEF Pended
<1>7. full \in BOOLEAN
  BY DEF Full
<1> HIDE DEF text, full, F, texts, f
<1>8. /\ l \in Seq(Text) /\ r \in Text /\ InLine(l) /\ InOrderOf(r)
      /\ Ahead(AllTokens(l), ToSet(r)) /\ AllTokens(l) \cup ToSet(r) = Pended(d) \cup F
  BY <1>6, <1>7, Drained
<1> HIDE DEF l, r
<1>9. WordsKept(d)' /\ heard'[d] \cup On(d, "text")' \subseteq heard[d] \cup On(d, "text")
  BY <1>1, <1>2, <1>3, <1>8, Released
<1> QED
  BY <1>9, LaterTurn DEF Buffer

\* What is pending goes out as a whole.
LEMMA FlushedWords ==
  ASSUME LInv, NEW d \in Directions, NEW texts \in Seq(Entries), NEW then \in {<<>>, <<Sentinel>>},
         Emit(d, texts, IF buffer[d] # <<>> THEN <<buffer[d]>> ELSE <<>>, then),
         buffer' = [buffer EXCEPT ![d] = <<>>], UNCHANGED <<heard, hold, reached>>,
         pc'[d].translator = pc[d].translator, Buffer(d),
         AllTokens(Texts(texts)) = On(d, "text"), InLine(Texts(texts))
  PROVE  LWords'
<1> DEFINE l == IF buffer[d] # <<>> THEN <<buffer[d]>> ELSE <<>>
           F == {}
<1>1. buffer[d] \in Text /\ InOrderOf(buffer[d]) /\ buffer'[d] = <<>>
  BY LineTypes DEF LInv, WordsKept, TextsInOrder, IInv, Typed, BufferTyped
<1>2. l \in Seq(Text) /\ InLine(l) /\ AllTokens(l) = Pended(d)
  <2>1. CASE buffer[d] # <<>>
    <3>1. AllTokens(<<buffer[d]>>) = ToSet(buffer[d])
      BY SingleTokens, Zenon
    <3> QED
      BY <1>1, <2>1, <3>1, EmptyOrder DEF Pended
  <2>2. CASE buffer[d] = <<>>
    <3>1. l = <<>>
      BY <2>2
    <3>2. <<>> \in Seq(Text)
      OBVIOUS
    <3> QED
      BY <2>2, <3>1, <3>2, EmptyOrder, TextsEmpty, SentinelSays DEF Pended
  <2> QED
    BY <2>1, <2>2
<1>3. Emit(d, texts, l, then)
  OBVIOUS
<1> HIDE DEF l
<1>4. /\ F \in SUBSET Token /\ heard'[d] = heard[d] \cup F
      /\ On(d, "text") = F \cup AllTokens(Texts(texts)) /\ Ahead(F, AllTokens(Texts(texts)))
      /\ AllTokens(l) \cup ToSet(<<>>) = Pended(d) \cup F
      /\ Ahead(AllTokens(l), ToSet(<<>>)) /\ <<>> \in Text /\ InOrderOf(<<>>)
      /\ hold'[d] = hold[d] /\ reached'[d] = reached[d]
  BY <1>2, AheadParts, SentinelSays
<1>5. WordsKept(d)' /\ heard'[d] \cup On(d, "text")' \subseteq heard[d] \cup On(d, "text")
  BY <1>1, <1>2, <1>3, <1>4, Released
<1> QED
  BY <1>5, LaterTurn

LEMMA BufferWords == ASSUME LInv, NEW d \in Directions, Buffer(d) PROVE LWords'
<1>1. CASE BufferTimeout(d)
  <2>1. /\ queue[d].text = <<>> /\ Texts(<<>>) = <<>> /\ <<>> \in Seq(Entries)
        /\ AllTokens(Texts(<<>>)) = On(d, "text") /\ InLine(Texts(<<>>))
    BY <1>1, TextsEmpty, EmptyOrder DEF BufferTimeout, On
  <2>2. /\ Emit(d, <<>>, IF buffer[d] # <<>> THEN <<buffer[d]>> ELSE <<>>, <<>>)
        /\ buffer' = [buffer EXCEPT ![d] = <<>>] /\ UNCHANGED <<heard, hold, reached>>
        /\ pc'[d].translator = pc[d].translator
    BY <1>1 DEF BufferTimeout, BufferOnly
  <2> QED
    BY <2>1, <2>2, FlushedWords
<1>2. CASE BufferEnds(d)
  <2> DEFINE texts == Tail(queue[d].text)
  <2>1. queue[d].text # <<>> /\ Head(queue[d].text).text = <<>>
    BY <1>2, SentinelSays DEF BufferEnds
  <2>2. /\ texts \in Seq(Entries) /\ AllTokens(Texts(texts)) = On(d, "text") /\ InLine(Texts(texts))
    BY <2>1, TextTaken, SentinelSays
  <2>3. /\ Emit(d, texts, IF buffer[d] # <<>> THEN <<buffer[d]>> ELSE <<>>, <<Sentinel>>)
        /\ buffer' = [buffer EXCEPT ![d] = <<>>] /\ UNCHANGED <<heard, hold, reached>>
        /\ Goto(d, "buffer", "done")
    BY <1>2 DEF BufferEnds, BufferOnly
  <2>4. pc'[d].translator = pc[d].translator
    BY <2>3 DEF Goto, LInv, IInv, Typed, PlacesTyped
  <2> HIDE DEF texts
  <2> QED
    BY <2>2, <2>3, <2>4, FlushedWords
<1> QED
  BY <1>1, <1>2, IgnoreWords, AddWords DEF Buffer

-----------------------------------------------------------------------------
(* The translator and the speech thread.                                   *)

\* The head of a queue of the line.
LEMMA HeadTaken ==
  ASSUME LInv, NEW d \in Directions, NEW q \in {"sentence", "translated"}, queue[d][q] # <<>>
  PROVE  LET x == Head(queue[d][q])
             rest == Tail(queue[d][q])
         IN  /\ x \in Entries /\ x.text \in Text /\ InOrderOf(x.text)
             /\ InLine(Texts(rest)) /\ rest \in Seq(Entries)
             /\ On(d, q) = ToSet(x.text) \cup AllTokens(Texts(rest))
             /\ Ahead(ToSet(x.text), AllTokens(Texts(rest)))
<1> DEFINE x == Head(queue[d][q])
           rest == Tail(queue[d][q])
           l == Texts(queue[d][q])
<1>1. queue[d][q] \in Seq(Entries) /\ InLine(l)
  BY LineTypes DEF LInv, WordsKept, TextsInOrder
<1>2. /\ l # <<>> /\ Head(l) = x.text /\ Texts(rest) = Tail(l) /\ rest \in Seq(Entries)
      /\ l \in Seq(Text) /\ x \in Entries
  BY <1>1, TextsTail, TextsType
<1>3. On(d, q) = AllTokens(l)
  BY DEF On
<1> HIDE DEF x, rest, l
<1>4. /\ Head(l) \in Text /\ InOrderOf(Head(l)) /\ InLine(Tail(l))
      /\ Ahead(ToSet(Head(l)), AllTokens(Tail(l)))
      /\ AllTokens(l) = ToSet(Head(l)) \cup AllTokens(Tail(l))
  BY <1>1, <1>2, HeadLine
<1> QED
  BY <1>2, <1>3, <1>4 DEF x, rest

LEMMA TakeWords == ASSUME LInv, NEW d \in Directions, TranslatorTake(d) PROVE LWords'
<1> DEFINE x == Head(queue[d].sentence)
           rest == Tail(queue[d].sentence)
           A == ToSet(x.text)
           B == AllTokens(Texts(rest))
<1>0. IInv /\ HistoryTyped /\ WordsKept(d)
  BY DEF LInv
<1>1. /\ queue[d].sentence # <<>> /\ queue'[d].sentence = rest /\ queue'[d].text = queue[d].text
      /\ queue'[d].translated = queue[d].translated
      /\ buffer' = buffer /\ heard' = heard /\ gone' = gone /\ reached' = reached
  <2>1. queue \in [Directions -> [Queues -> Seq(Entries)]]
    BY <1>0 DEF IInv, Typed, QueuesTyped
  <2> QED
    BY <2>1 DEF TranslatorTake, TranslatorOnly
<1>2. hold'[d].translator = x /\ pc[d].translator = "loop" /\ pc'[d].translator = "translate"
  <2>1. hold \in [Directions -> [Stages -> Entries]]
    BY <1>0 DEF IInv, Typed, HoldTyped
  <2>2. hold'[d].translator = x
    BY <2>1 DEF TranslatorTake
  <2>3. pc[d].translator = "loop" /\ pc'[d].translator = "translate"
    BY <1>0 DEF TranslatorTake, At, Goto, IInv, Typed, PlacesTyped
  <2> QED
    BY <2>2, <2>3
<1>3. /\ x.text \in Text /\ InOrderOf(x.text) /\ InLine(Texts(rest))
      /\ On(d, "sentence") = A \cup B /\ Ahead(A, B)
  BY <1>1, HeadTaken
<1>4. InWork(d) = {}
  BY <1>0, <1>2, SentinelSays DEF WordsKept, InWork
<1>5. /\ On(d, "sentence")' = B /\ InWork(d)' = A /\ Pended(d)' = Pended(d)
      /\ On(d, "translated")' = On(d, "translated") /\ On(d, "text")' = On(d, "text")
  BY <1>1, <1>2 DEF On, InWork, Pended
<1> HIDE DEF A, B, x, rest
<1>6. Later(d)' = Later(d)
  BY <1>3, <1>4, <1>5 DEF Later
<1>7. Underway(d)' = Underway(d)
  BY <1>5, <1>6 DEF Underway
<1>8. Ahead(A, B \cup Pended(d)) /\ Ahead(B, Pended(d))
  <2>1. Ahead(A \cup B, Pended(d))
    BY <1>0, <1>3 DEF WordsKept, StagesInOrder
  <2> QED
    BY <1>3, <2>1 DEF Ahead
<1>9. TextsInOrder(d)'
  BY <1>0, <1>1, <1>2, <1>3 DEF WordsKept, TextsInOrder
<1>10. StagesInOrder(d)'
  BY <1>0, <1>1, <1>5, <1>6, <1>7, <1>8 DEF WordsKept, StagesInOrder
<1>11. WordsAccounted(d)'
  BY <1>0, <1>1, <1>7 DEF WordsKept, WordsAccounted
<1>12. WordsKept(d)'
  BY <1>2, <1>9, <1>10, <1>11 DEF WordsKept
<1> QED
  BY <1>1, <1>5, <1>12, LaterTurn DEF Translator

LEMMA TranslatedWords == ASSUME LInv, NEW d \in Directions, Translated(d) PROVE LWords'
<1> DEFINE x == hold[d].translator
           done == queue[d].translated
           H == InWork(d)
           T == On(d, "translated")
<1>0. IInv /\ HistoryTyped /\ WordsKept(d)
  BY DEF LInv
<1>1. /\ queue'[d].translated = Append(done, x)
      /\ queue'[d].sentence = queue[d].sentence /\ queue'[d].text = queue[d].text
      /\ buffer' = buffer /\ heard' = heard /\ gone' = gone /\ reached' = reached
  <2>1. queue \in [Directions -> [Queues -> Seq(Entries)]]
    BY <1>0 DEF IInv, Typed, QueuesTyped
  <2> QED
    BY <2>1 DEF Translated, TranslatorOnly
<1>2. hold'[d].translator = Sentinel
  BY <1>0 DEF Translated, IInv, Typed, HoldTyped
<1>3. /\ x \in Entries /\ x.text \in Text /\ InOrderOf(x.text) /\ done \in Seq(Entries)
      /\ Texts(done) \in Seq(Text) /\ InLine(Texts(done))
  BY <1>0, LineTypes DEF WordsKept, TextsInOrder
<1>4. Ahead(T, Later(d)) /\ Ahead(H, On(d, "sentence") \cup Pended(d))
  BY <1>0 DEF WordsKept, StagesInOrder
<1>5. Ahead(T, H)
  BY <1>4 DEF Ahead, Later
<1>6. /\ InLine(Texts(Append(done, x))) /\ AllTokens(Texts(Append(done, x))) = T \cup H
  <2>1. Texts(Append(done, x)) = Append(Texts(done), x.text)
    BY <1>3, TextsAppend
  <2>2. Ahead(AllTokens(Texts(done)), ToSet(x.text))
    BY <1>5 DEF On, InWork
  <2>3. /\ InLine(Append(Texts(done), x.text))
        /\ AllTokens(Append(Texts(done), x.text)) = AllTokens(Texts(done)) \cup ToSet(x.text)
    BY <1>3, <2>2, AppendLine
  <2> QED
    BY <2>1, <2>3 DEF On, InWork
<1>7. /\ On(d, "translated")' = T \cup H /\ InWork(d)' = {} /\ Pended(d)' = Pended(d)
      /\ On(d, "sentence")' = On(d, "sentence") /\ On(d, "text")' = On(d, "text")
  BY <1>1, <1>2, <1>6, SentinelSays DEF On, InWork, Pended
<1> HIDE DEF H, T, x, done
<1>8. Later(d)' = On(d, "sentence") \cup Pended(d)
  BY <1>7 DEF Later
<1>9. Underway(d)' = Underway(d)
  BY <1>7, <1>8 DEF Underway, Later, H, T
<1>10. Ahead(T \cup H, On(d, "sentence") \cup Pended(d))
  BY <1>4 DEF Ahead, Later
<1>11. TextsInOrder(d)'
  BY <1>0, <1>1, <1>2, <1>6, SentinelSays DEF WordsKept, TextsInOrder
<1>12. StagesInOrder(d)'
  BY <1>0, <1>1, <1>7, <1>8, <1>9, <1>10, AheadParts DEF WordsKept, StagesInOrder
<1>13. WordsAccounted(d)'
  BY <1>0, <1>1, <1>9 DEF WordsKept, WordsAccounted
<1>14. WordsKept(d)'
  BY <1>2, <1>11, <1>12, <1>13 DEF WordsKept
<1> QED
  BY <1>1, <1>7, <1>14, LaterTurn DEF Translator

LEMMA FailedWords == ASSUME LInv, NEW d \in Directions, TranslatorFails(d) PROVE LWords'
<1> DEFINE H == InWork(d)
<1>0. IInv /\ HistoryTyped /\ WordsKept(d)
  BY DEF LInv
<1>1. /\ queue' = queue /\ buffer' = buffer /\ heard' = heard /\ reached' = reached
      /\ gone'[d] = gone[d] \cup H
  BY <1>0 DEF TranslatorFails, TranslatorOnly, HistoryTyped, InWork
<1>2. hold'[d].translator = Sentinel
  BY <1>0 DEF TranslatorFails, IInv, Typed, HoldTyped
<1>3. /\ \A q \in Queues : On(d, q)' = On(d, q)
      /\ InWork(d)' = {} /\ Pended(d)' = Pended(d)
  BY <1>1, <1>2, SentinelSays DEF On, InWork, Pended
<1>4. Later(d)' = On(d, "sentence") \cup Pended(d)
  BY <1>3 DEF Later
<1>5. Underway(d)' = On(d, "translated") \cup On(d, "sentence") \cup Pended(d)
  BY <1>3, <1>4 DEF Underway
<1>6. TextsInOrder(d)'
  BY <1>0, <1>1, <1>2, SentinelSays DEF WordsKept, TextsInOrder
<1>7. StagesInOrder(d)'
  <2>1. Ahead(reached[d], Underway(d)')
    BY <1>0, <1>5 DEF WordsKept, StagesInOrder, Underway, Later, Ahead
  <2>2. Ahead(On(d, "translated"), Later(d)')
    BY <1>0, <1>4 DEF WordsKept, StagesInOrder, Later, Ahead
  <2> QED
    BY <1>0, <1>1, <1>3, <2>1, <2>2, AheadParts DEF WordsKept, StagesInOrder
<1>8. WordsAccounted(d)'
  <2>1. H \in SUBSET Token /\ reached[d] \in SUBSET Token /\ On(d, "translated") \in SUBSET Token
    BY <1>0, LineTypes
  <2>2. /\ Ahead(reached[d], H) /\ Ahead(On(d, "translated"), H)
        /\ Ahead(H, On(d, "sentence")) /\ Ahead(H, Pended(d))
    BY <1>0 DEF WordsKept, StagesInOrder, Underway, Later, Ahead
  <2>3. /\ reached[d] \cap H = {} /\ On(d, "translated") \cap H = {}
        /\ H \cap On(d, "sentence") = {} /\ H \cap Pended(d) = {}
    <3> DEFINE R == reached[d]
               T == On(d, "translated")
               S == On(d, "sentence")
               P == Pended(d)
    <3> HIDE DEF H, R, T, S, P
    <3>1. H \in SUBSET Token /\ R \in SUBSET Token /\ T \in SUBSET Token
          /\ Ahead(R, H) /\ Ahead(T, H) /\ Ahead(H, S) /\ Ahead(H, P)
      BY <2>1, <2>2 DEF H, R, T, S, P
    <3>2. R \cap H = {} /\ T \cap H = {} /\ H \cap S = {} /\ H \cap P = {}
      BY <3>1, AheadApart
    <3> QED
      BY <3>2 DEF H, R, T, S, P
  <2>4. /\ heard[d] = Underway(d) \cup reached[d] \cup gone[d]
        /\ gone[d] \cap (Underway(d) \cup reached[d]) = {}
    BY <1>0 DEF WordsKept, WordsAccounted
  <2>5. Underway(d) = Underway(d)' \cup H
    BY <1>5 DEF Underway, Later
  <2>6. H \cap (Underway(d)' \cup reached[d]) = {}
    BY <1>5, <2>3
  <2> HIDE DEF H
  <2> QED
    BY <1>1, <2>4, <2>5, <2>6 DEF WordsAccounted
<1>9. WordsKept(d)'
  BY <1>2, <1>6, <1>7, <1>8 DEF WordsKept
<1> QED
  BY <1>1, <1>3, <1>9, LaterTurn DEF Translator

LEMMA TranslatorEndsWords == ASSUME LInv, NEW d \in Directions, TranslatorEnds(d) PROVE LWords'
<1> DEFINE rest == Tail(queue[d].sentence)
           done == queue[d].translated
<1>0. IInv /\ HistoryTyped /\ WordsKept(d)
  BY DEF LInv
<1>1. /\ queue[d].sentence # <<>> /\ Head(queue[d].sentence) = Sentinel
      /\ queue'[d].sentence = rest /\ queue'[d].text = queue[d].text
      /\ queue'[d].translated = Append(done, Sentinel)
      /\ buffer' = buffer /\ heard' = heard /\ gone' = gone /\ reached' = reached /\ hold' = hold
  <2>1. queue \in [Directions -> [Queues -> Seq(Entries)]]
    BY <1>0 DEF IInv, Typed, QueuesTyped
  <2> QED
    BY <2>1 DEF TranslatorEnds, TranslatorOnly
<1>2. pc[d].translator = "loop" /\ pc'[d].translator = "done"
  BY <1>0 DEF TranslatorEnds, At, Goto, IInv, Typed, PlacesTyped
<1>3. InLine(Texts(rest)) /\ AllTokens(Texts(rest)) = On(d, "sentence")
  BY <1>1, HeadTaken, SentinelSays
<1>4. /\ InLine(Texts(Append(done, Sentinel)))
      /\ AllTokens(Texts(Append(done, Sentinel))) = On(d, "translated")
  BY <1>0, LineTypes, SentinelQueued DEF WordsKept, TextsInOrder, On
<1>5. /\ On(d, "sentence")' = On(d, "sentence") /\ On(d, "translated")' = On(d, "translated")
      /\ On(d, "text")' = On(d, "text") /\ InWork(d)' = InWork(d) /\ Pended(d)' = Pended(d)
  BY <1>1, <1>3, <1>4 DEF On, InWork, Pended
<1>6. Later(d)' = Later(d) /\ Underway(d)' = Underway(d)
  BY <1>5 DEF Later, Underway
<1>7. TextsInOrder(d)'
  BY <1>0, <1>1, <1>3, <1>4 DEF WordsKept, TextsInOrder
<1>8. StagesInOrder(d)' /\ WordsAccounted(d)'
  BY <1>0, <1>1, <1>5, <1>6 DEF WordsKept, StagesInOrder, WordsAccounted
<1>9. WordsKept(d)'
  BY <1>0, <1>1, <1>2, <1>7, <1>8 DEF WordsKept
<1> QED
  BY <1>1, <1>5, <1>9, LaterTurn DEF Translator

LEMMA SpeakWords == ASSUME LInv, NEW d \in Directions, Speak(d) PROVE LWords'
<1> DEFINE x == Head(queue[d].translated)
           rest == Tail(queue[d].translated)
           A == ToSet(x.text)
           B == AllTokens(Texts(rest))
<1>0. IInv /\ HistoryTyped /\ WordsKept(d)
  BY DEF LInv
<1>1. /\ queue[d].translated # <<>> /\ queue'[d].translated = rest
      /\ queue'[d].text = queue[d].text /\ queue'[d].sentence = queue[d].sentence
      /\ buffer' = buffer /\ heard' = heard /\ gone' = gone /\ hold' = hold
  <2>1. queue \in [Directions -> [Queues -> Seq(Entries)]]
    BY <1>0 DEF IInv, Typed, QueuesTyped
  <2> QED
    BY <2>1 DEF Speak, SpeechDies, SpeechEnds, SpeechOnly
<1>2. reached'[d] = reached[d] \cup A
  <2>1. CASE SpeechDies(d)
    BY <1>0, <2>1 DEF SpeechDies, HistoryTyped
  <2>2. CASE SpeechEnds(d)
    BY <2>2, SentinelSays DEF SpeechEnds
  <2> QED
    BY <2>1, <2>2 DEF Speak
<1>3. /\ InLine(Texts(rest)) /\ On(d, "translated") = A \cup B /\ Ahead(A, B)
  BY <1>1, HeadTaken
<1>4. pc'[d].translator = pc[d].translator
  BY <1>0 DEF Speak, SpeechDies, SpeechEnds, Goto, IInv, Typed, PlacesTyped
<1>5. /\ On(d, "translated")' = B /\ On(d, "sentence")' = On(d, "sentence")
      /\ On(d, "text")' = On(d, "text") /\ InWork(d)' = InWork(d) /\ Pended(d)' = Pended(d)
  BY <1>1 DEF On, InWork, Pended
<1> HIDE DEF A, B, x, rest
<1>6. Later(d)' = Later(d) /\ Underway(d)' = B \cup Later(d)
  BY <1>5 DEF Later, Underway
<1>7. Underway(d) = A \cup B \cup Later(d)
  BY <1>3 DEF Underway
<1>8. TextsInOrder(d)'
  BY <1>0, <1>1, <1>3 DEF WordsKept, TextsInOrder
<1>9. StagesInOrder(d)'
  <2>1. Ahead(A \cup B, Later(d)) /\ Ahead(reached[d], A \cup B \cup Later(d))
    BY <1>0, <1>3, <1>7 DEF WordsKept, StagesInOrder
  <2>2. Ahead(reached[d] \cup A, B \cup Later(d)) /\ Ahead(B, Later(d))
    BY <1>3, <2>1 DEF Ahead
  <2> QED
    BY <1>0, <1>1, <1>2, <1>5, <1>6, <2>2 DEF WordsKept, StagesInOrder
<1>10. WordsAccounted(d)'
  <2>1. /\ heard[d] = Underway(d) \cup reached[d] \cup gone[d]
        /\ gone[d] \cap (Underway(d) \cup reached[d]) = {}
    BY <1>0 DEF WordsKept, WordsAccounted
  <2>2. heard[d] = (B \cup Later(d)) \cup (reached[d] \cup A) \cup gone[d]
    BY <1>7, <2>1
  <2>3. gone[d] \cap ((B \cup Later(d)) \cup (reached[d] \cup A)) = {}
    BY <1>7, <2>1
  <2> QED
    BY <1>1, <1>2, <1>6, <2>2, <2>3 DEF WordsAccounted
<1>11. WordsKept(d)'
  BY <1>0, <1>1, <1>4, <1>8, <1>9, <1>10 DEF WordsKept
<1> QED
  BY <1>1, <1>5, <1>11, LaterTurn

LEMMA TranslatorWords == ASSUME LInv, NEW d \in Directions, Translator(d) PROVE LWords'
BY TakeWords, TranslatedWords, FailedWords, TranslatorEndsWords DEF Translator

\* Every step of the program keeps the words of both directions.
LEMMA StepLWords == ASSUME LInv, [Next]_vars PROVE LWords'
<1>1. CASE UNCHANGED vars
  <2>1. /\ queue' = queue /\ hold' = hold /\ count' = count /\ buffer' = buffer /\ pc' = pc
        /\ heard' = heard /\ gone' = gone /\ reached' = reached
    BY <1>1 DEF vars, history
  <2>2. ASSUME NEW e \in Directions PROVE WordsKept(e)' /\ InTurn(e)'
    <3>1. On(e, "text")' = On(e, "text") /\ WordsKept(e) /\ InTurn(e)
      BY <2>1 DEF On, LInv
    <3>2. WordsKept(e)'
      BY <2>1, <3>1, QuietWords
    <3>3. InTurn(e)'
      BY <2>1, <3>1, QuietTurn
    <3> QED
      BY <3>2, <3>3
  <2> QED
    BY <2>1, <2>2 DEF LInv, LWords, WavOnce
<1>2. CASE MainWork
  BY <1>2, MainWords
<1>3. CASE Producer \/ RecordingFails \/ SaveChunkFails \/ \E d \in Directions : WakeStt(d)
  BY <1>3, ProducerWords
<1>4. ASSUME NEW d \in Directions, Stt(d) PROVE LWords'
  BY <1>4, SttWords
<1>5. ASSUME NEW d \in Directions, Buffer(d) PROVE LWords'
  BY <1>5, BufferWords
<1>6. ASSUME NEW d \in Directions, Translator(d) PROVE LWords'
  BY <1>6, TranslatorWords
<1>7. ASSUME NEW d \in Directions, Speak(d) PROVE LWords'
  BY <1>7, SpeakWords
<1> QED
  BY <1>1, <1>2, <1>3, <1>4, <1>5, <1>6, <1>7 DEF Next, Work, MainWork, Finished

\* The inductive invariant of the line.
LineInv == PrototypeInv /\ LWords

LEMMA LineInvIs == LineInv => LInv
BY DEF LineInv, PrototypeInv, CInv, LInv, LWords

LEMMA StepLineInv == LineInv /\ [Next]_vars => LineInv'
BY StepPrototypeInv, LineInvIs, StepLWords DEF LineInv

LEMMA InitLineInv == Fresh /\ main \in {"load", "exited"} => LineInv
BY InitPrototypeInv, InitLInv DEF LineInv, LInv, LWords

-----------------------------------------------------------------------------
(* What the parts say of the line as a whole.                              *)

LEMMA TokensAre == \A l \in Seq(Text) : Tokens(l) = AllTokens(l)
<1> SUFFICES ASSUME NEW l \in Seq(Text) PROVE Tokens(l) = AllTokens(l)
  OBVIOUS
<1>1. ToSet(l) = {l[n] : n \in 1 .. Len(l)}
  BY DEF ToSet
<1> QED
  BY <1>1 DEF Tokens, AllTokens

\* A line of texts in order is in order word by word.
LEMMA WordByWord ==
  ASSUME NEW l \in Seq(Text), InLine(l), NEW R, Ahead(R, AllTokens(l))
  PROVE  \A i \in 1 .. Len(l) : \A a \in 1 .. Len(l[i]) :
           /\ \A b \in a + 1 .. Len(l[i]) : Before(l[i][a], l[i][b])
           /\ \A j \in i + 1 .. Len(l) :
                \A b \in 1 .. Len(l[j]) : Before(l[i][a], l[j][b])
           /\ \A token \in R : Before(token, l[i][a])
<1> SUFFICES ASSUME NEW i \in 1 .. Len(l), NEW a \in 1 .. Len(l[i])
             PROVE  /\ \A b \in a + 1 .. Len(l[i]) : Before(l[i][a], l[i][b])
                    /\ \A j \in i + 1 .. Len(l) :
                         \A b \in 1 .. Len(l[j]) : Before(l[i][a], l[j][b])
                    /\ \A token \in R : Before(token, l[i][a])
  OBVIOUS
<1>0. Len(l) \in Nat /\ \A n \in 1 .. Len(l) : l[n] \in Text /\ Len(l[n]) \in Nat
  BY DEF Text
<1>1. \A n \in 1 .. Len(l) : \A b \in 1 .. Len(l[n]) : l[n][b] \in ToSet(l[n])
  BY DEF ToSet
<1>2. ASSUME NEW b \in a + 1 .. Len(l[i]) PROVE Before(l[i][a], l[i][b])
  <2>1. b \in 1 .. Len(l[i]) /\ a < b
    BY <1>0
  <2> QED
    BY <2>1 DEF InLine, InOrderOf
<1>3. ASSUME NEW j \in i + 1 .. Len(l), NEW b \in 1 .. Len(l[j]) PROVE Before(l[i][a], l[j][b])
  <2>1. j \in 1 .. Len(l) /\ i < j
    BY <1>0
  <2>2. Ahead(ToSet(l[i]), ToSet(l[j])) /\ l[i][a] \in ToSet(l[i]) /\ l[j][b] \in ToSet(l[j])
    BY <1>1, <2>1 DEF InLine
  <2> QED
    BY <2>2, Zenon DEF Ahead
<1>4. ASSUME NEW token \in R PROVE Before(token, l[i][a])
  <2>1. l[i][a] \in AllTokens(l)
    BY <1>1 DEF AllTokens
  <2> QED
    BY <2>1, Zenon DEF Ahead
<1> QED
  BY <1>2, <1>3, <1>4

LEMMA WholeLine ==
  ASSUME LInv, NEW d \in Directions
  PROVE  LineInOrder(d) /\ Conserved(d)
<1> DEFINE t == Texts(queue[d].translated)
           h == hold[d].translator.text
           s == Texts(queue[d].sentence)
           p == buffer[d]
           x == Texts(queue[d].text)
           T == On(d, "translated")
           H == InWork(d)
           S == On(d, "sentence")
           P == Pended(d)
           X == On(d, "text")
<1>0. IInv /\ HistoryTyped /\ WordsKept(d)
  BY DEF LInv
<1>1. /\ t \in Seq(Text) /\ s \in Seq(Text) /\ x \in Seq(Text) /\ h \in Text /\ p \in Text
      /\ InLine(t) /\ InLine(s) /\ InLine(x) /\ InOrderOf(h) /\ InOrderOf(p)
      /\ AllTokens(t) = T /\ AllTokens(s) = S /\ AllTokens(x) = X /\ ToSet(h) = H /\ ToSet(p) = P
      /\ reached[d] \in SUBSET Token
  BY <1>0, LineTypes DEF WordsKept, TextsInOrder, On, InWork, Pended
<1>2. OnTheWay(d) = t \o <<h>> \o s \o <<p>>
  BY DEF OnTheWay
<1>3. /\ Ahead(reached[d], T \cup (H \cup S \cup P)) /\ Ahead(T, H \cup S \cup P)
      /\ Ahead(H, S \cup P) /\ Ahead(S, P) /\ Ahead(heard[d], X)
      /\ heard[d] = (T \cup (H \cup S \cup P)) \cup reached[d] \cup gone[d]
      /\ gone[d] \cap ((T \cup (H \cup S \cup P)) \cup reached[d]) = {}
  BY <1>0 DEF WordsKept, StagesInOrder, WordsAccounted, Underway, Later
<1> DEFINE line1 == Append(t, h)
           line2 == line1 \o s
           line3 == Append(line2, p)
           line4 == line3 \o x
<1>4. OnTheWay(d) = line3
  <2>1. \A l \in Seq(Text) : \A y : l \o <<y>> = Append(l, y)
    OBVIOUS
  <2>2. Append(t, h) \in Seq(Text) /\ Append(t, h) \o s \in Seq(Text)
    BY <1>1
  <2> HIDE DEF t, h, s, p
  <2> QED
    BY <1>1, <1>2, <2>1, <2>2, Zenon
<1> HIDE DEF t, h, s, p, x, T, H, S, P, X, line1, line2, line3, line4
<1>5. line1 \in Seq(Text) /\ InLine(line1) /\ AllTokens(line1) = T \cup H
  <2>1. Ahead(AllTokens(t), ToSet(h))
    BY <1>1, <1>3 DEF Ahead
  <2> QED
    BY <1>1, <2>1, AppendLine DEF line1
<1>6. line2 \in Seq(Text) /\ InLine(line2) /\ AllTokens(line2) = (T \cup H) \cup S
  <2>1. Ahead(AllTokens(line1), AllTokens(s))
    BY <1>1, <1>3, <1>5 DEF Ahead
  <2> QED
    BY <1>1, <1>5, <2>1, ConcatLine DEF line2
<1>7. line3 \in Seq(Text) /\ InLine(line3) /\ AllTokens(line3) = T \cup (H \cup S \cup P)
  <2>1. Ahead(AllTokens(line2), ToSet(p))
    BY <1>1, <1>3, <1>6 DEF Ahead
  <2>2. line2 \in Seq(Text) /\ InLine(line2) /\ p \in Text /\ InOrderOf(p)
    BY <1>1, <1>6
  <2>3. /\ line3 \in Seq(Text) /\ InLine(line3)
        /\ AllTokens(line3) = AllTokens(line2) \cup ToSet(p)
    BY <2>1, <2>2, AppendLine DEF line3
  <2> QED
    BY <1>1, <1>6, <2>3
<1>8. line4 \in Seq(Text) /\ InLine(line4) /\ AllTokens(line4) = (T \cup (H \cup S \cup P)) \cup X
  <2>1. Ahead(AllTokens(line3), AllTokens(x))
    BY <1>1, <1>3, <1>7 DEF Ahead
  <2>2. line3 \in Seq(Text) /\ InLine(line3) /\ x \in Seq(Text) /\ InLine(x)
    BY <1>1, <1>7
  <2>3. /\ line4 \in Seq(Text) /\ InLine(line4)
        /\ AllTokens(line4) = AllTokens(line3) \cup AllTokens(x)
    BY <2>1, <2>2, ConcatLine DEF line4
  <2> QED
    BY <1>1, <1>7, <2>3
<1>9. Ahead(reached[d], AllTokens(line4))
  <2>1. Ahead(reached[d], X)
    BY <1>3 DEF Ahead
  <2> QED
    BY <1>3, <1>8, <2>1, AheadParts
<1>10. LineInOrder(d)
  <2>1. OnTheWay(d) \o Texts(queue[d].text) = line4
    BY <1>4 DEF line4, x
  <2> QED
    BY <1>8, <1>9, <2>1, WordByWord, Zenon DEF LineInOrder
<1>11. Conserved(d)
  <2>1. Tokens(OnTheWay(d)) = T \cup (H \cup S \cup P)
    BY <1>4, <1>7, TokensAre
  <2>2. reached[d] \cap (T \cup (H \cup S \cup P)) = {}
    <3> DEFINE R == reached[d]
               U == T \cup (H \cup S \cup P)
    <3> HIDE DEF R, U
    <3>1. R \in SUBSET Token /\ Ahead(R, U)
      BY <1>1, <1>3 DEF R, U
    <3>2. R \cap U = {}
      BY <3>1, AheadApart
    <3> QED
      BY <3>2 DEF R, U
  <2> QED
    BY <1>3, <2>1, <2>2 DEF Conserved
<1> QED
  BY <1>10, <1>11

LEMMA LineIsKept == LineInv => LineKept
BY LineInvIs, WholeLine DEF LineKept

\* However many chunks are recorded, whatever Whisper returns for them, which
\* translations fail and when the stop comes: the words of a direction stay in the
\* order in which they were spoken from the text queue to the speech thread, and
\* each word that the buffer accepted is on its way, has reached the speech thread,
\* which ends there, or was dropped, in one of the three only (the stages of main.py
\* from sentence_buffer_worker to tts_worker).
THEOREM PrototypeLine == Spec => []LineKept
<1>1. Init => LineInv
  BY InitLineInv DEF Init
<1> QED
  BY LineIsKept, StepLineInv, <1>1, PTL DEF Spec

HIDE DEF Directions, Stages, Queues, StagePlaces

-----------------------------------------------------------------------------
(***************************************************************************)
(* The four parts together.  The one that runs keeps its invariant, and    *)
(* the others, which have ended, do not move.                              *)
(***************************************************************************)
EdgesInv ==
  LineInv /\ CaptureInv /\ SpeechInv /\ ChoiceTyped /\ MonitorInv

LEMMA EdgesInitInv == EdgesInit => EdgesInv
<1> SUFFICES ASSUME EdgesInit PROVE EdgesInv
  OBVIOUS
<1>1. Init \/ PrototypeOff
  BY DEF EdgesInit
<1>2. LineInv
  BY <1>1, InitLineInv DEF Init, PrototypeOff
<1>3. CaptureInit \/ CaptureOff
  BY DEF EdgesInit
<1>4. CaptureInv
  BY <1>3, CaptureInitInv DEF CaptureInit, CaptureOff
<1>5. SpeechInit
  BY DEF EdgesInit, SpeechOff
<1>6. SpeechInv /\ ChoiceTyped
  BY <1>5, SpeechTypes
<1>7. MonitorInit \/ MonitorOff
  BY DEF EdgesInit
<1>8. MonitorInv
  BY <1>7, MonitorTypes DEF MonitorInit, MonitorOff
<1> QED
  BY <1>2, <1>4, <1>6, <1>8 DEF EdgesInv

LEMMA EdgesStepInv ==
  EdgesInv /\ [EdgesNext]_<<part, vars, capVars, spVars, monVars>> => EdgesInv'
<1> SUFFICES ASSUME EdgesInv, [EdgesNext]_<<part, vars, capVars, spVars, monVars>> PROVE EdgesInv'
  OBVIOUS
<1>1. [Next]_vars /\ [CaptureNext]_capVars /\ [SpeechNext]_spVars /\ [MonitorNext]_monVars
  BY DEF EdgesNext
<1> QED
  BY <1>1, StepLineInv, CaptureStepInv, SpeechTypes, MonitorTypes DEF EdgesInv

\* The four parts are well typed in every behaviour, whatever the constants: among
\* it that the segmenter stays below its cap, that no call has more failed attempts
\* than the retry policy allows, and that a benchmark has a report left whenever it
\* asks for the summary.
THEOREM EdgesTypes == EdgesSpec => []EdgesTypeOK
<1>1. EdgesInv => EdgesTypeOK
  BY PrototypeInvType, CaptureInvKeeps, SpeechTypes DEF EdgesInv, LineInv, MonitorInv, EdgesTypeOK
<1> QED
  BY <1>1, EdgesInitInv, EdgesStepInv, PTL DEF EdgesSpec

\* What the theorems above say of each part by itself holds of it in the behaviours
\* that TLC checks, where one part runs and the others rest.
THEOREM EdgesKeep ==
  EdgesSpec => [](/\ LineKept /\ SentinelComesLast /\ ChunksAccounted
                  /\ SpeechKept /\ ServedWhole)
<1>1. EdgesInv => LineKept /\ SpeechKept
  BY LineIsKept, CaptureInvKeeps DEF EdgesInv
<1>2. EdgesInv => SentinelComesLast /\ ChunksAccounted
  BY LinesClosed, OneLate, FilesAreThere DEF EdgesInv, LineInv, PrototypeInv, CInv, ChunksAccounted
<1>3. EdgesInv => ServedWhole
  BY DEF EdgesInv, SpeechInv
<1> QED
  BY <1>1, <1>2, <1>3, EdgesInitInv, EdgesStepInv, PTL DEF EdgesSpec
=============================================================================
