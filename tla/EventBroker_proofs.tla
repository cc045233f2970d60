-------------------------- MODULE EventBroker_proofs --------------------------
(***************************************************************************)
(* What every WebSocket is sent, for any number of sockets and events, any *)
(* length of the replay and of the history, and any capacity of the queues;*)
(* and that the broker with its handlers implements EventFeed.             *)
(***************************************************************************)
EXTENDS EventBroker, TLAPS

\* A list of numbers below a bound is one below any higher bound.
LEMMA SeqGrows ==
  ASSUME NEW n \in Nat, NEW m \in Nat, n <= m, NEW l \in Seq(1 .. n)
  PROVE  l \in Seq(1 .. m) /\ l \in Seq(Nat)
OBVIOUS

\* What is in a list has a place there.
LEMMA ToSetIs ==
  ASSUME NEW S, NEW l \in Seq(S)
  PROVE  ToSet(l) = {l[i] : i \in 1 .. Len(l)}
<1>1. DOMAIN l = 1 .. Len(l)
  OBVIOUS
<1> QED
  BY <1>1 DEF ToSet

\* The element a list gains or loses at its ends.
LEMMA EndsType ==
  ASSUME NEW S, NEW l \in Seq(S)
  PROVE  /\ l # <<>> => /\ Head(l) \in S /\ Tail(l) \in Seq(S)
                        /\ Head(l) = l[1] /\ Len(Tail(l)) = Len(l) - 1
                        /\ \A i \in 1 .. Len(Tail(l)) : Tail(l)[i] = l[i + 1]
         /\ \A e \in S : /\ Append(l, e) \in Seq(S) /\ Append(l, e) # <<>>
                         /\ Len(Append(l, e)) = Len(l) + 1
                         /\ \A i \in 1 .. Len(l) : Append(l, e)[i] = l[i]
                         /\ Append(l, e)[Len(l) + 1] = e
         /\ Len(l) \in Nat
OBVIOUS

\* A list belongs to whatever set its elements are in.
LEMMA SeqWithin ==
  ASSUME NEW S, NEW T, NEW l \in Seq(S), \A i \in 1 .. Len(l) : l[i] \in T
  PROVE  l \in Seq(T)
OBVIOUS

\* The end of a list.
LEMMA EndPiece ==
  ASSUME NEW S, NEW l \in Seq(S), NEW from \in 1 .. Len(l) + 1
  PROVE  /\ SubSeq(l, from, Len(l)) \in Seq(S)
         /\ Len(SubSeq(l, from, Len(l))) = (Len(l) - from) + 1
         /\ \A i \in 1 .. (Len(l) - from) + 1 : SubSeq(l, from, Len(l))[i] = l[(from - 1) + i]
OBVIOUS

\* Three lists in one line, by position.
LEMMA LineParts ==
  ASSUME NEW S, NEW a \in Seq(S), NEW b \in Seq(S), NEW c \in Seq(S)
  PROVE  /\ a \o b \o c \in Seq(S) /\ Len(a \o b \o c) = Len(a) + Len(b) + Len(c)
         /\ \A i \in 1 .. Len(a) + Len(b) + Len(c) :
              (a \o b \o c)[i] = IF i <= Len(a) THEN a[i]
                                 ELSE IF i <= Len(a) + Len(b) THEN b[i - Len(a)]
                                 ELSE c[i - (Len(a) + Len(b))]
OBVIOUS

\* Two lists of one length that agree everywhere are one list.
LEMMA SameList ==
  ASSUME NEW S, NEW a \in Seq(S), NEW b \in Seq(S), Len(a) = Len(b),
         \A i \in 1 .. Len(a) : a[i] = b[i]
  PROVE  a = b
OBVIOUS

\* What moves from the head of one list to the end of the one before it leaves
\* their line as it was.
LEMMA MoveHead ==
  ASSUME NEW S, NEW a \in Seq(S), NEW b \in Seq(S), NEW c \in Seq(S), b # <<>>
  PROVE  Append(a, Head(b)) \o Tail(b) \o c = a \o b \o c
<1> DEFINE l == Append(a, Head(b)) \o Tail(b) \o c
           m == a \o b \o c
<1>1. /\ Append(a, Head(b)) \in Seq(S) /\ Len(Append(a, Head(b))) = Len(a) + 1
      /\ \A i \in 1 .. Len(a) : Append(a, Head(b))[i] = a[i]
      /\ Append(a, Head(b))[Len(a) + 1] = b[1]
      /\ Tail(b) \in Seq(S) /\ Len(Tail(b)) = Len(b) - 1 /\ Len(b) >= 1
      /\ \A i \in 1 .. Len(b) - 1 : Tail(b)[i] = b[i + 1]
      /\ Len(a) \in Nat /\ Len(b) \in Nat /\ Len(c) \in Nat
  OBVIOUS
<1> DEFINE first == Append(a, Head(b))
           rest == Tail(b)
<1> HIDE DEF first, rest
<1>2. /\ l \in Seq(S) /\ Len(l) = Len(first) + Len(rest) + Len(c)
      /\ \A i \in 1 .. Len(first) + Len(rest) + Len(c) :
           l[i] = IF i <= Len(first) THEN first[i]
                  ELSE IF i <= Len(first) + Len(rest) THEN rest[i - Len(first)]
                  ELSE c[i - (Len(first) + Len(rest))]
  BY <1>1, LineParts DEF first, rest
<1>3. /\ m \in Seq(S) /\ Len(m) = Len(a) + Len(b) + Len(c)
      /\ \A i \in 1 .. Len(a) + Len(b) + Len(c) :
           m[i] = IF i <= Len(a) THEN a[i]
                  ELSE IF i <= Len(a) + Len(b) THEN b[i - Len(a)]
                  ELSE c[i - (Len(a) + Len(b))]
  BY LineParts
<1> HIDE DEF l, m
<1>4. Len(first) = Len(a) + 1 /\ Len(rest) = Len(b) - 1
  BY <1>1 DEF first, rest
<1>5. ASSUME NEW i \in 1 .. Len(l)
      PROVE  l[i] = m[i]
  <2>1. i \in 1 .. Len(a) + Len(b) + Len(c) /\ i \in Nat /\ Len(l) = Len(m)
    BY <1>1, <1>2, <1>3, <1>4
  <2>2. CASE i <= Len(a)
    <3>1. l[i] = first[i] /\ m[i] = a[i]
      BY <1>1, <1>2, <1>3, <1>4, <2>1, <2>2
    <3>2. first[i] = a[i]
      BY <1>1, <2>1, <2>2 DEF first
    <3> QED
      BY <3>1, <3>2
  <2>3. CASE i = Len(a) + 1
    <3>1. l[i] = first[i] /\ m[i] = b[i - Len(a)] /\ i - Len(a) = 1
      BY <1>1, <1>2, <1>3, <1>4, <2>1, <2>3
    <3>2. first[i] = b[1]
      BY <1>1, <2>3 DEF first
    <3> QED
      BY <3>1, <3>2
  <2>4. CASE i > Len(a) + 1 /\ i <= Len(a) + Len(b)
    <3>1. l[i] = rest[i - (Len(a) + 1)]
      BY <1>1, <1>2, <1>4, <2>1, <2>4
    <3>2. i - (Len(a) + 1) \in 1 .. Len(b) - 1
      BY <1>1, <2>1, <2>4
    <3>3. rest[i - (Len(a) + 1)] = b[i - (Len(a) + 1) + 1]
      BY <1>1, <3>2 DEF rest
    <3>4. i - (Len(a) + 1) + 1 = i - Len(a)
      BY <1>1, <2>1
    <3>5. m[i] = b[i - Len(a)]
      BY <1>1, <1>3, <2>1, <2>4
    <3> QED
      BY <3>1, <3>3, <3>4, <3>5
  <2>5. CASE i > Len(a) + Len(b)
    BY <1>1, <1>2, <1>3, <1>4, <2>1, <2>5
  <2> QED
    BY <1>1, <2>1, <2>2, <2>3, <2>4, <2>5
<1>6. l = m
  BY <1>1, <1>2, <1>3, <1>4, <1>5, SameList
<1> QED
  BY <1>6 DEF l, m, first, rest

\* A list gains an element where its line ends.
LEMMA AppendToLine ==
  ASSUME NEW S, NEW a \in Seq(S), NEW b \in Seq(S), NEW c \in Seq(S), NEW e \in S
  PROVE  a \o b \o Append(c, e) = Append(a \o b \o c, e)
OBVIOUS

-----------------------------------------------------------------------------
(* A feed: all the events from one to another but some, in their order.     *)

Complete(feed, from, to, without) ==
  /\ \A i, j \in 1 .. Len(feed) : i < j => feed[i] < feed[j]
  /\ ToSet(feed) = (from .. to) \ without

LEMMA InComplete ==
  ASSUME NEW f \in Seq(Nat), NEW a \in Nat, NEW n \in Nat, NEW k, Complete(f, a, n, k)
  PROVE  \A i \in 1 .. Len(f) : f[i] \in a .. n
BY DEF Complete, ToSet

\* The next event arrives,
LEMMA CompleteAppend ==
  ASSUME NEW f \in Seq(Nat), NEW a \in Nat, NEW n \in Nat, NEW k \in SUBSET (1 .. n),
         Complete(f, a, n, k), a <= n + 1
  PROVE  Complete(Append(f, n + 1), a, n + 1, k)
<1> DEFINE g == Append(f, n + 1)
<1>1. /\ g \in Seq(Nat) /\ Len(g) = Len(f) + 1 /\ Len(f) \in Nat
      /\ \A i \in 1 .. Len(f) : g[i] = f[i]
      /\ g[Len(f) + 1] = n + 1
  OBVIOUS
<1>2. \A i \in 1 .. Len(f) : f[i] \in a .. n
  BY InComplete
<1> HIDE DEF g
<1>6. \A i \in 1 .. Len(g) : i \in 1 .. Len(f) \/ i = Len(f) + 1
  BY <1>1
<1>3. ASSUME NEW i \in 1 .. Len(g), NEW j \in 1 .. Len(g), i < j
      PROVE  g[i] < g[j]
  <2>1. i \in 1 .. Len(f)
    BY <1>1, <1>3, <1>6
  <2>2. g[i] = f[i] /\ f[i] \in a .. n
    BY <1>1, <1>2, <2>1
  <2>3. CASE j \in 1 .. Len(f)
    BY <1>1, <1>3, <2>1, <2>2, <2>3 DEF Complete
  <2>4. CASE j = Len(f) + 1
    BY <1>1, <2>2, <2>4
  <2> QED
    BY <1>6, <2>3, <2>4
<1>4. ToSet(g) = ToSet(f) \cup {n + 1}
  <2>1. \A i \in 1 .. Len(f) : i \in 1 .. Len(g)
    BY <1>1
  <2>2. Len(f) + 1 \in 1 .. Len(g)
    BY <1>1
  <2>3. ToSet(g) = {g[i] : i \in 1 .. Len(g)} /\ ToSet(f) = {f[i] : i \in 1 .. Len(f)}
    BY <1>1, ToSetIs
  <2>4. ToSet(g) \subseteq ToSet(f) \cup {n + 1}
    BY <1>1, <1>6, <2>3
  <2>5. ToSet(f) \subseteq ToSet(g)
    BY <1>1, <2>1, <2>3
  <2>6. n + 1 \in ToSet(g)
    BY <1>1, <2>2, <2>3
  <2> QED
    BY <2>4, <2>5, <2>6
<1>5. ((a .. n) \ k) \cup {n + 1} = (a .. n + 1) \ k
  OBVIOUS
<1> QED
  BY <1>3, <1>4, <1>5 DEF Complete, g

\* or is refused.
LEMMA CompleteSkip ==
  ASSUME NEW f \in Seq(Nat), NEW a \in Nat, NEW n \in Nat, NEW k \in SUBSET (1 .. n),
         Complete(f, a, n, k)
  PROVE  Complete(f, a, n + 1, k \cup {n + 1})
<1>1. (a .. n + 1) \ (k \cup {n + 1}) = (a .. n) \ k
  OBVIOUS
<1> QED
  BY <1>1 DEF Complete

\* A piece of the history is a feed.
LEMMA CompletePiece ==
  ASSUME NEW f \in Seq(Nat), NEW a \in Nat, NEW n \in Nat, a + Len(f) = n + 1,
         \A i \in 1 .. Len(f) : f[i] = (a - 1) + i
  PROVE  Complete(f, a, n, {})
<1>0. Len(f) \in Nat
  OBVIOUS
<1>1. \A i, j \in 1 .. Len(f) : i < j => f[i] < f[j]
  OBVIOUS
<1>2. ASSUME NEW x \in ToSet(f) PROVE x \in a .. n
  <2>1. PICK i \in 1 .. Len(f) : x = f[i]
    BY ToSetIs
  <2>2. x = (a - 1) + i /\ i >= 1 /\ i <= Len(f) /\ i \in Nat
    BY <1>0, <2>1
  <2> QED
    BY <1>0, <2>2
<1>3. ASSUME NEW x \in a .. n PROVE x \in ToSet(f)
  <2>1. x - (a - 1) \in 1 .. Len(f) /\ f[x - (a - 1)] = x
    BY <1>0
  <2> QED
    BY <2>1 DEF ToSet
<1> QED
  BY <1>1, <1>2, <1>3 DEF Complete

-----------------------------------------------------------------------------
(***************************************************************************)
(* The inductive invariant.  The numbers of the events in the callbacks    *)
(* and in the history follow from how many have been delivered.            *)
(***************************************************************************)
Line(s) == seen[s] \o outbox[s] \o queue[s]

Counted ==
  /\ delivered \in Nat
  /\ \A i \in 1 .. Len(pending) : pending[i] = delivered + i
  /\ Len(history) = IF delivered < HistoryLimit THEN delivered ELSE HistoryLimit
  /\ \A i \in 1 .. Len(history) : history[i] = (delivered - Len(history)) + i
  /\ ~bound => pending = <<>> /\ \A s \in Sockets : pc[s] = "new"

\* A socket that is not served has nothing to be sent; one that has just come
\* knows nothing yet.
Handled(s) ==
  /\ Listening(s) => s \in subscribers
  /\ ~Listening(s) => outbox[s] = <<>>
  /\ pc[s] = "new" => seen[s] = <<>> /\ queue[s] = <<>> /\ skipped[s] = {} /\ s \notin subscribers
  /\ joined[s] <= delivered /\ skipped[s] \subseteq 1 .. delivered
  /\ Listening(s) => Complete(Line(s), Entitled(s), delivered, skipped[s])

IInv == TypeOK /\ Counted /\ \A s \in Sockets : Handled(s)

LEMMA InitIInv == Init => IInv
<1> SUFFICES ASSUME Init PROVE IInv
  OBVIOUS
<1>1. delivered = 0 /\ published = 0
  <2>1. published = 0 /\ Len(pending) = 0
    BY DEF Init
  <2> QED
    BY <2>1 DEF delivered
<1>2. /\ pending \in Seq(1 .. published) /\ history \in Seq(1 .. published)
      /\ \A s \in Sockets : queue[s] = <<>> /\ outbox[s] = <<>> /\ seen[s] = <<>> /\ skipped[s] = {}
      /\ \A s \in Sockets : joined[s] = 0 /\ pc[s] = "new"
  BY DEF Init
<1>3. TypeOK
  <2>1. <<>> \in Seq(1 .. published)
    OBVIOUS
  <2>2. /\ queue \in [Sockets -> Seq(1 .. published)] /\ outbox \in [Sockets -> Seq(1 .. published)]
        /\ seen \in [Sockets -> Seq(1 .. published)]
    BY <2>1 DEF Init
  <2>3. Len(history) <= HistoryLimit /\ \A s \in Sockets : Len(queue[s]) <= MaxQueue
    BY <1>2, BrokerAssumption DEF Init
  <2>4. published \in 0 .. MaxEvents
    BY <1>1, BrokerAssumption
  <2>5. joined \in [Sockets -> 0 .. published] /\ skipped \in [Sockets -> SUBSET (1 .. published)]
    BY <1>1 DEF Init
  <2>6. /\ pc \in [Sockets -> {"new", "replay", "stream", "closed", "failed"}]
        /\ gone \in [Sockets -> BOOLEAN] /\ bound \in BOOLEAN /\ subscribers \subseteq Sockets
    BY DEF Init
  <2> QED
    BY <1>2, <2>2, <2>3, <2>4, <2>5, <2>6 DEF TypeOK
<1>4. Counted
  BY <1>1, BrokerAssumption DEF Init, Counted
<1>5. \A s \in Sockets : Handled(s)
  BY <1>1, <1>2 DEF Init, Handled, Listening
<1> QED
  BY <1>3, <1>4, <1>5 DEF IInv

\* The type of what a handler works with.
LEMMA SocketType ==
  ASSUME TypeOK, NEW s \in Sockets
  PROVE  /\ seen[s] \in Seq(1 .. published) /\ outbox[s] \in Seq(1 .. published)
         /\ queue[s] \in Seq(1 .. published) /\ Line(s) \in Seq(1 .. published)
         /\ seen[s] \in Seq(Nat) /\ outbox[s] \in Seq(Nat) /\ queue[s] \in Seq(Nat)
         /\ Line(s) \in Seq(Nat)
         /\ joined[s] \in Nat /\ Entitled(s) \in Nat \ {0} /\ Entitled(s) <= joined[s] + 1
<1>1. published \in Nat
  BY BrokerAssumption DEF TypeOK
<1>2. /\ seen[s] \in Seq(1 .. published) /\ outbox[s] \in Seq(1 .. published)
      /\ queue[s] \in Seq(1 .. published)
  BY DEF TypeOK
<1>3. Line(s) \in Seq(1 .. published)
  BY <1>2, LineParts DEF Line
<1>4. \A l \in Seq(1 .. published) : l \in Seq(Nat)
  BY <1>1, SeqGrows
<1>5. joined[s] \in Nat
  BY <1>1 DEF TypeOK
<1>6. Entitled(s) \in Nat \ {0} /\ Entitled(s) <= joined[s] + 1
  BY <1>5, BrokerAssumption DEF Entitled
<1> QED
  BY <1>2, <1>3, <1>4, <1>5, <1>6

\* An event is remembered, and the oldest forgotten when there are too many.
LEMMA RememberNext ==
  ASSUME NEW n \in Nat, NEW m \in Nat, n < m,
         history \in Seq(1 .. n),
         Len(history) = IF n < HistoryLimit THEN n ELSE HistoryLimit,
         \A i \in 1 .. Len(history) : history[i] = (n - Len(history)) + i,
         Remember(n + 1)
  PROVE  /\ history' \in Seq(1 .. m)
         /\ Len(history') = IF n + 1 < HistoryLimit THEN n + 1 ELSE HistoryLimit
         /\ Len(history') <= HistoryLimit
         /\ \A i \in 1 .. Len(history') : history'[i] = ((n + 1) - Len(history')) + i
<1> DEFINE longer == Append(history, n + 1)
<1>0. HistoryLimit \in Nat \ {0} /\ n + 1 \in 1 .. m
  BY BrokerAssumption
<1>1. history \in Seq(1 .. m)
  BY SeqGrows
<1>2. /\ longer \in Seq(1 .. m) /\ Len(longer) = Len(history) + 1 /\ Len(history) \in Nat
      /\ \A i \in 1 .. Len(history) : longer[i] = history[i]
      /\ longer[Len(history) + 1] = n + 1
      /\ longer # <<>>
  <2>1. n + 1 \in 1 .. m /\ history \in Seq(1 .. m)
    BY <1>0, <1>1
  <2>2. Len(history) \in Nat
    BY <2>1, EndsType
  <2> QED
    BY <2>1, <2>2, EndsType
<1>3. history' = IF Len(longer) > HistoryLimit THEN Tail(longer) ELSE longer
  BY DEF Remember
<1> HIDE DEF longer
<1>4. \A i \in 1 .. Len(longer) : longer[i] = (n - Len(history)) + i
  <2> SUFFICES ASSUME NEW i \in 1 .. Len(longer) PROVE longer[i] = (n - Len(history)) + i
    OBVIOUS
  <2>1. i \in 1 .. Len(history) \/ i = Len(history) + 1
    BY <1>2
  <2> QED
    BY <1>2, <2>1
<1>5. CASE Len(longer) > HistoryLimit
  <2>1. /\ Tail(longer) \in Seq(1 .. m) /\ Len(Tail(longer)) = Len(longer) - 1
        /\ \A i \in 1 .. Len(Tail(longer)) : Tail(longer)[i] = longer[i + 1]
    BY <1>2, EndsType
  <2>0. history' = Tail(longer)
    BY <1>3, <1>5
  <2>2. /\ history' \in Seq(1 .. m) /\ Len(history') = Len(history)
        /\ \A i \in 1 .. Len(history') : history'[i] = longer[i + 1]
    <3>1. Len(longer) - 1 = Len(history)
      BY <1>2
    <3> QED
      BY <2>0, <2>1, <3>1, Zenon
  <2>3. Len(history) = HistoryLimit /\ ~(n < HistoryLimit) /\ ~(n + 1 < HistoryLimit)
    BY <1>0, <1>2, <1>5
  <2>4. ASSUME NEW i \in 1 .. Len(history')
        PROVE  history'[i] = ((n + 1) - Len(history')) + i
    <3>1. i + 1 \in 1 .. Len(longer) /\ i \in Nat
      BY <1>2, <2>2
    <3>2. history'[i] = (n - Len(history)) + (i + 1)
      BY <1>4, <2>2, <3>1
    <3>3. (n - Len(history)) + (i + 1) = ((n + 1) - Len(history)) + i
      <4>1. \A a, b, c \in Nat : (a - b) + (c + 1) = ((a + 1) - b) + c
        OBVIOUS
      <4>2. Len(history) \in Nat /\ i \in Nat
        BY <1>2, <3>1
      <4> QED
        BY <4>1, <4>2, Zenon
    <3> QED
      BY <2>2, <3>2, <3>3
  <2> QED
    BY <1>0, <2>2, <2>3, <2>4
<1>6. CASE ~(Len(longer) > HistoryLimit)
  <2>1. history' = longer
    BY <1>3, <1>6
  <2>2. Len(history) < HistoryLimit /\ Len(history) = n
    BY <1>0, <1>2, <1>6
  <2>3. Len(longer) = IF n + 1 < HistoryLimit THEN n + 1 ELSE HistoryLimit
    BY <1>0, <1>2, <1>6, <2>2
  <2>4. \A i \in 1 .. Len(longer) : longer[i] = ((n + 1) - Len(longer)) + i
    BY <1>2, <1>4, <2>2
  <2>5. longer \in Seq(1 .. m) /\ Len(longer) <= HistoryLimit
    BY <1>0, <1>2, <1>6
  <2> QED
    BY <2>1, <2>3, <2>4, <2>5
<1> QED
  BY <1>5, <1>6

-----------------------------------------------------------------------------
(* Each action keeps the invariant.                                         *)

\* A socket whose state does not change is handled as before.
LEMMA Untouched ==
  ASSUME NEW s \in Sockets, Handled(s), delivered' = delivered,
         seen'[s] = seen[s], outbox'[s] = outbox[s], queue'[s] = queue[s], pc'[s] = pc[s],
         joined'[s] = joined[s], skipped'[s] = skipped[s],
         s \in subscribers' <=> s \in subscribers
  PROVE  Handled(s)'
<1>1. Line(s)' = Line(s) /\ Entitled(s)' = Entitled(s) /\ (Listening(s)' <=> Listening(s))
  BY DEF Line, Entitled, Listening
<1> QED
  BY <1>1 DEF Handled

\* An action of one handler is about its own socket.
LEMMA OwnSocket ==
  ASSUME IInv, NEW s \in Sockets, bound, TypeOK', Handled(s)',
         UNCHANGED <<bound, published, pending, history>>,
         \A r \in Sockets \ {s} :
           /\ seen'[r] = seen[r] /\ outbox'[r] = outbox[r] /\ queue'[r] = queue[r]
           /\ pc'[r] = pc[r] /\ joined'[r] = joined[r] /\ skipped'[r] = skipped[r]
           /\ r \in subscribers' <=> r \in subscribers
  PROVE  IInv'
<1>1. delivered' = delivered
  BY DEF delivered
<1>2. Counted'
  BY <1>1 DEF IInv, Counted
<1>3. \A r \in Sockets \ {s} : Handled(r)'
  BY <1>1, Untouched DEF IInv
<1> QED
  BY <1>2, <1>3 DEF IInv

LEMMA BindStep == ASSUME IInv, BindLoop PROVE IInv'
<1>1. /\ bound' = TRUE /\ UNCHANGED <<published, pending, history, subscribers, queue, pc, outbox,
                                      seen, gone, joined, skipped>>
  BY DEF BindLoop, handlerVars
<1>2. delivered' = delivered
  BY <1>1 DEF delivered
<1>3. TypeOK' /\ Counted'
  BY <1>1, <1>2 DEF IInv, TypeOK, Counted
<1>4. \A s \in Sockets : Handled(s)'
  BY <1>1, <1>2, Untouched DEF IInv
<1> QED
  BY <1>3, <1>4 DEF IInv

LEMMA PublishStep == ASSUME IInv, Publish PROVE IInv'
<1> USE DEF IInv
<1>0. /\ published \in Nat /\ published' = published + 1 /\ published' \in 0 .. MaxEvents
      /\ UNCHANGED <<bound, subscribers, queue, pc, outbox, seen, gone, joined, skipped>>
      /\ pending \in Seq(1 .. published) /\ history \in Seq(1 .. published)
      /\ Len(pending) \in Nat
  BY BrokerAssumption DEF Publish, TypeOK, handlerVars
<1>1. /\ queue' \in [Sockets -> Seq(1 .. published')] /\ outbox' \in [Sockets -> Seq(1 .. published')]
      /\ seen' \in [Sockets -> Seq(1 .. published')]
      /\ joined' \in [Sockets -> 0 .. published']
      /\ skipped' \in [Sockets -> SUBSET (1 .. published')]
  <2>1. \A l \in Seq(1 .. published) : l \in Seq(1 .. published')
    BY <1>0, SeqGrows
  <2>2. \A n \in 0 .. published : n \in 0 .. published'
    BY <1>0
  <2>3. \A e \in SUBSET (1 .. published) : e \in SUBSET (1 .. published')
    BY <1>0
  <2> QED
    BY <1>0, <2>1, <2>2, <2>3 DEF TypeOK
<1>2. pending' \in Seq(1 .. published') /\ history' \in Seq(1 .. published') => TypeOK' \/ ~(Len(history') <= HistoryLimit)
  BY <1>0, <1>1 DEF TypeOK
<1>3. CASE bound
  <2>1. pending' = Append(pending, published + 1) /\ history' = history
    BY <1>0, <1>3 DEF Publish
  <2>2. pending \in Seq(1 .. published') /\ history \in Seq(1 .. published')
        /\ published + 1 \in 1 .. published'
    BY <1>0, SeqGrows
  <2>3. /\ pending' \in Seq(1 .. published') /\ Len(pending') = Len(pending) + 1
        /\ \A i \in 1 .. Len(pending) : pending'[i] = pending[i]
        /\ pending'[Len(pending) + 1] = published + 1
    BY <2>1, <2>2, EndsType
  <2>4. delivered' = delivered
    BY <1>0, <2>3 DEF delivered
  <2>5. \A i \in 1 .. Len(pending') : pending'[i] = delivered' + i
    <3> SUFFICES ASSUME NEW i \in 1 .. Len(pending') PROVE pending'[i] = delivered' + i
      OBVIOUS
    <3>1. i \in 1 .. Len(pending) \/ i = Len(pending) + 1
      BY <1>0, <2>3
    <3>2. CASE i \in 1 .. Len(pending)
      BY <2>3, <2>4, <3>2 DEF Counted
    <3>3. CASE i = Len(pending) + 1
      <4>1. published + 1 = (published - Len(pending)) + (Len(pending) + 1)
        BY <1>0
      <4> QED
        BY <2>3, <2>4, <3>3, <4>1 DEF delivered
    <3> QED
      BY <3>1, <3>2, <3>3
  <2>6. TypeOK'
    BY <1>2, <2>1, <2>2, <2>3 DEF TypeOK
  <2>7. Counted'
    BY <1>0, <1>3, <2>1, <2>4, <2>5 DEF Counted
  <2>8. \A s \in Sockets : Handled(s)'
    BY <1>0, <2>4, Untouched
  <2> QED
    BY <2>6, <2>7, <2>8
<1>4. CASE ~bound
  <2>1. pending = <<>> /\ pending' = <<>> /\ Remember(published + 1)
        /\ \A s \in Sockets : pc[s] = "new" /\ pc'[s] = "new"
    BY <1>0, <1>4 DEF Publish, Counted
  <2>2. delivered = published /\ delivered' = published + 1
    BY <1>0, <2>1 DEF delivered
  <2>3. /\ history' \in Seq(1 .. published')
        /\ Len(history') = IF published + 1 < HistoryLimit THEN published + 1 ELSE HistoryLimit
        /\ Len(history') <= HistoryLimit
        /\ \A i \in 1 .. Len(history') : history'[i] = ((published + 1) - Len(history')) + i
    <3>1. /\ Len(history) = IF published < HistoryLimit THEN published ELSE HistoryLimit
          /\ \A i \in 1 .. Len(history) : history[i] = (published - Len(history)) + i
          /\ published < published + 1 /\ published + 1 \in Nat
      BY <1>0, <2>2 DEF Counted
    <3> QED
      BY <1>0, <2>1, <3>1, RememberNext
  <2>4. TypeOK'
    BY <1>2, <2>1, <2>3
  <2>5. Counted'
    BY <1>0, <2>1, <2>2, <2>3 DEF Counted
  <2>6. ASSUME NEW s \in Sockets PROVE Handled(s)'
    <3>1. Handled(s) /\ ~Listening(s) /\ ~Listening(s)'
      BY <2>1 DEF Listening
    <3>2. skipped[s] = {} /\ joined[s] <= delivered' /\ skipped'[s] \subseteq 1 .. delivered'
      <4>1. joined[s] \in Nat
        BY SocketType
      <4> QED
        BY <1>0, <2>1, <2>2, <3>1, <4>1 DEF Handled
    <3> QED
      BY <1>0, <2>1, <3>1, <3>2 DEF Handled
  <2> QED
    BY <2>4, <2>5, <2>6
<1> QED
  BY <1>3, <1>4

\* One more event has been delivered: it is the oldest that was pending.
LEMMA DeliverNext ==
  ASSUME IInv, Deliver
  PROVE  /\ delivered \in Nat /\ delivered' = delivered + 1 /\ delivered + 1 \in 1 .. published
         /\ published \in Nat /\ Head(pending) = delivered + 1
         /\ pending' \in Seq(1 .. published)
         /\ \A i \in 1 .. Len(pending') : pending'[i] = delivered' + i
<1> USE DEF IInv
<1>1. /\ published \in Nat /\ pending \in Seq(1 .. published) /\ pending # <<>>
      /\ pending' = Tail(pending) /\ published' = published
  BY BrokerAssumption DEF Deliver, TypeOK
<1>2. /\ Head(pending) = pending[1] /\ pending' \in Seq(1 .. published) /\ Len(pending) \in Nat
      /\ Len(pending') = Len(pending) - 1 /\ Len(pending) >= 1
      /\ \A i \in 1 .. Len(pending') : pending'[i] = pending[i + 1]
      /\ Head(pending) \in 1 .. published
  BY <1>1, EndsType
<1>3. delivered \in Nat /\ delivered' = delivered + 1
  BY <1>1, <1>2 DEF Counted, delivered
<1>4. Head(pending) = delivered + 1
  BY <1>2 DEF Counted
<1>5. \A i \in 1 .. Len(pending') : pending'[i] = delivered' + i
  <2> SUFFICES ASSUME NEW i \in 1 .. Len(pending') PROVE pending'[i] = delivered' + i
    OBVIOUS
  <2>1. i + 1 \in 1 .. Len(pending) /\ i \in Nat
    BY <1>2
  <2>2. pending[i + 1] = delivered + (i + 1)
    BY <2>1 DEF Counted
  <2> QED
    BY <1>2, <1>3, <2>1, <2>2
<1> QED
  BY <1>1, <1>2, <1>3, <1>4, <1>5

LEMMA DeliverStep == ASSUME IInv, Deliver PROVE IInv'
<1> USE DEF IInv
<1> DEFINE e == delivered + 1
<1>0. /\ delivered \in Nat /\ delivered' = e /\ e \in 1 .. published
      /\ published \in Nat /\ Head(pending) = e /\ pending' \in Seq(1 .. published)
      /\ \A i \in 1 .. Len(pending') : pending'[i] = delivered' + i
  BY DeliverNext
<1>1. /\ UNCHANGED <<bound, published, subscribers, pc, outbox, seen, gone, joined>>
      /\ Remember(e) /\ pending # <<>>
      /\ queue' = [s \in Sockets |-> IF s \in subscribers /\ HasRoom(s)
                                     THEN Append(queue[s], e) ELSE queue[s]]
      /\ skipped' = [s \in Sockets |-> IF s \in subscribers /\ ~HasRoom(s)
                                       THEN skipped[s] \cup {e} ELSE skipped[s]]
  BY <1>0 DEF Deliver, handlerVars
<1>2. /\ history' \in Seq(1 .. published)
      /\ Len(history') = IF e < HistoryLimit THEN e ELSE HistoryLimit
      /\ Len(history') <= HistoryLimit
      /\ \A i \in 1 .. Len(history') : history'[i] = (e - Len(history')) + i
  <2>1. history \in Seq(1 .. delivered)
    <3>1. /\ history \in Seq(1 .. published) /\ Len(history) \in Nat
          /\ Len(history) <= delivered
          /\ \A i \in 1 .. Len(history) : history[i] = (delivered - Len(history)) + i
      <4>1. history \in Seq(1 .. published)
        BY DEF TypeOK
      <4> QED
        BY <1>0, <4>1, BrokerAssumption DEF Counted
    <3>2. \A i \in 1 .. Len(history) : history[i] \in 1 .. delivered
      BY <1>0, <3>1
    <3> QED
      BY <3>1, <3>2, SeqWithin
  <2>2. /\ Len(history) = IF delivered < HistoryLimit THEN delivered ELSE HistoryLimit
        /\ \A i \in 1 .. Len(history) : history[i] = (delivered - Len(history)) + i
        /\ delivered < published
    BY <1>0 DEF Counted
  <2> QED
    BY <1>0, <1>1, <2>1, <2>2, RememberNext
<1>3. queue' \in [Sockets -> Seq(1 .. published)] /\ \A s \in Sockets : Len(queue'[s]) <= MaxQueue
  <2> SUFFICES ASSUME NEW s \in Sockets
               PROVE  queue'[s] \in Seq(1 .. published) /\ Len(queue'[s]) <= MaxQueue
    BY <1>1
  <2>1. queue[s] \in Seq(1 .. published) /\ Len(queue[s]) <= MaxQueue /\ Len(queue[s]) \in Nat
    BY EndsType DEF TypeOK
  <2>2. /\ Append(queue[s], e) \in Seq(1 .. published)
        /\ Len(Append(queue[s], e)) = Len(queue[s]) + 1
    BY <1>0, <2>1, EndsType
  <2>3. CASE s \in subscribers /\ HasRoom(s)
    <3>1. queue'[s] = Append(queue[s], e) /\ Len(queue[s]) < MaxQueue
      BY <1>1, <2>3 DEF HasRoom
    <3>2. Len(queue[s]) + 1 <= MaxQueue
      BY <2>1, <3>1, BrokerAssumption
    <3> QED
      BY <2>2, <3>1, <3>2
  <2>4. CASE ~(s \in subscribers /\ HasRoom(s))
    BY <1>1, <2>1, <2>4
  <2> QED
    BY <2>3, <2>4
<1>4. skipped' \in [Sockets -> SUBSET (1 .. published)]
  BY <1>0, <1>1 DEF TypeOK
<1>5. TypeOK'
  BY <1>0, <1>1, <1>2, <1>3, <1>4 DEF TypeOK
<1>6. Counted'
  <2>1. bound
    BY <1>1 DEF Counted
  <2> QED
    BY <1>0, <1>1, <1>2, <2>1 DEF Counted
<1>7. ASSUME NEW s \in Sockets PROVE Handled(s)'
  <2>0. /\ Handled(s) /\ seen[s] \in Seq(Nat) /\ outbox[s] \in Seq(Nat) /\ queue[s] \in Seq(Nat)
        /\ Line(s) \in Seq(Nat) /\ joined[s] \in Nat
        /\ Entitled(s) \in Nat /\ Entitled(s) <= joined[s] + 1
    BY SocketType
  <2>1. Entitled(s)' = Entitled(s) /\ (Listening(s)' <=> Listening(s))
    BY <1>1 DEF Entitled, Listening
  <2>2. joined'[s] <= delivered' /\ skipped'[s] \subseteq 1 .. delivered'
    <3>1. joined[s] <= delivered /\ skipped[s] \subseteq 1 .. delivered
      BY <2>0 DEF Handled
    <3>2. skipped'[s] \subseteq skipped[s] \cup {e} /\ joined'[s] = joined[s]
      BY <1>1
    <3>3. 1 .. delivered \subseteq 1 .. e /\ e \in 1 .. e /\ (joined[s] <= delivered => joined[s] <= e)
      BY <1>0, <2>0
    <3> HIDE DEF e
    <3> QED
      BY <1>0, <3>1, <3>2, <3>3
  <2>3. ASSUME pc'[s] = "new"
        PROVE  seen'[s] = <<>> /\ queue'[s] = <<>> /\ skipped'[s] = {} /\ s \notin subscribers'
    BY <1>1, <2>0, <2>3 DEF Handled
  <2>4. ASSUME Listening(s)
        PROVE  Complete(Line(s)', Entitled(s), e, skipped'[s])
    <3>1. /\ s \in subscribers /\ Complete(Line(s), Entitled(s), delivered, skipped[s])
          /\ skipped[s] \in SUBSET (1 .. delivered) /\ Entitled(s) <= delivered + 1
      BY <1>0, <2>0, <2>4 DEF Handled
    <3>2. CASE HasRoom(s)
      <4>1. queue'[s] = Append(queue[s], e) /\ skipped'[s] = skipped[s]
        BY <1>1, <3>1, <3>2
      <4>2. Line(s)' = Append(Line(s), e)
        <5>1. seen'[s] = seen[s] /\ outbox'[s] = outbox[s] /\ e \in Nat
          BY <1>0, <1>1
        <5>2. seen[s] \o outbox[s] \o Append(queue[s], e) = Append(seen[s] \o outbox[s] \o queue[s], e)
          <6>1. \A a, b, c \in Seq(Nat) : \A x \in Nat :
                  a \o b \o Append(c, x) = Append(a \o b \o c, x)
            BY AppendToLine
          <6> HIDE DEF e
          <6>2. seen[s] \in Seq(Nat) /\ outbox[s] \in Seq(Nat) /\ queue[s] \in Seq(Nat)
            BY <2>0
          <6>3. \A x \in Nat : seen[s] \o outbox[s] \o Append(queue[s], x)
                              = Append(seen[s] \o outbox[s] \o queue[s], x)
            BY <6>1, <6>2, Zenon
          <6> QED
            BY <5>1, <6>3, Zenon
        <5> HIDE DEF e
        <5> QED
          BY <4>1, <5>1, <5>2 DEF Line
      <4>3. Complete(Append(Line(s), delivered + 1), Entitled(s), delivered + 1, skipped[s])
        BY <1>0, <2>0, <3>1, CompleteAppend
      <4> QED
        BY <4>1, <4>2, <4>3
    <3>3. CASE ~HasRoom(s)
      <4>1. Line(s)' = Line(s) /\ skipped'[s] = skipped[s] \cup {e}
        BY <1>1, <3>1, <3>3 DEF Line
      <4>2. Complete(Line(s), Entitled(s), delivered + 1, skipped[s] \cup {delivered + 1})
        BY <1>0, <2>0, <3>1, CompleteSkip
      <4> QED
        BY <4>1, <4>2
    <3> QED
      BY <3>2, <3>3
  <2> HIDE DEF e
  <2> QED
    BY <1>0, <1>1, <2>0, <2>1, <2>2, <2>3, <2>4 DEF Handled
<1> QED
  BY <1>5, <1>6, <1>7

\* A new socket is given the last events of the history.
LEMMA RecentPiece ==
  ASSUME IInv, NEW s \in Sockets, joined'[s] = delivered
  PROVE  /\ Recent \in Seq(1 .. published)
         /\ Complete(Recent, Entitled(s)', delivered, {})
<1> USE DEF IInv
<1> DEFINE from == IF Len(history) > Replay THEN Len(history) - Replay + 1 ELSE 1
<1>1. /\ history \in Seq(1 .. published) /\ Len(history) \in Nat /\ delivered \in Nat
      /\ published \in Nat
      /\ Len(history) = IF delivered < HistoryLimit THEN delivered ELSE HistoryLimit
      /\ \A i \in 1 .. Len(history) : history[i] = (delivered - Len(history)) + i
  BY EndsType, BrokerAssumption DEF TypeOK, Counted
<1>2. from \in 1 .. Len(history) + 1
  BY <1>1, BrokerAssumption
<1>3. Recent = SubSeq(history, from, Len(history))
  BY DEF Recent
<1> HIDE DEF from
<1>4. /\ Recent \in Seq(1 .. published) /\ Len(Recent) = (Len(history) - from) + 1
      /\ \A i \in 1 .. Len(Recent) : Recent[i] = history[(from - 1) + i]
  <2>1. /\ SubSeq(history, from, Len(history)) \in Seq(1 .. published)
        /\ Len(SubSeq(history, from, Len(history))) = (Len(history) - from) + 1
        /\ \A i \in 1 .. (Len(history) - from) + 1 :
             SubSeq(history, from, Len(history))[i] = history[(from - 1) + i]
    <3>1. \A S : \A l \in Seq(S) : \A f \in 1 .. Len(l) + 1 :
            /\ SubSeq(l, f, Len(l)) \in Seq(S)
            /\ Len(SubSeq(l, f, Len(l))) = (Len(l) - f) + 1
            /\ \A i \in 1 .. (Len(l) - f) + 1 : SubSeq(l, f, Len(l))[i] = l[(f - 1) + i]
      BY EndPiece, Zenon
    <3>2. history \in Seq(1 .. published)
      BY <1>1, Zenon
    <3> QED
      BY <1>2, <3>1, <3>2, Zenon
  <2> QED
    BY <1>3, <2>1, Zenon
<1>5. Recent \in Seq(Nat)
  BY <1>1, <1>4, SeqGrows
<1>6. /\ Entitled(s)' = (delivered - Len(history)) + from
      /\ (delivered - Len(history)) + from \in Nat
  <2>1. Entitled(s)' = IF delivered > Replay THEN delivered - Replay + 1 ELSE 1
    BY DEF Entitled
  <2>2. CASE Len(history) > Replay
    BY <1>1, <2>1, <2>2, BrokerAssumption DEF from
  <2>3. CASE ~(Len(history) > Replay)
    BY <1>1, <2>1, <2>3, BrokerAssumption DEF from
  <2> QED
    BY <2>2, <2>3
<1> DEFINE a == (delivered - Len(history)) + from
<1>7. a + Len(Recent) = delivered + 1
  BY <1>1, <1>2, <1>4
<1>8. \A i \in 1 .. Len(Recent) : Recent[i] = (a - 1) + i
  <2> SUFFICES ASSUME NEW i \in 1 .. Len(Recent) PROVE Recent[i] = (a - 1) + i
    OBVIOUS
  <2>0. i \in 1 .. (Len(history) - from) + 1 /\ from \in 1 .. Len(history) + 1 /\ Len(history) \in Nat
    BY <1>1, <1>2, <1>4
  <2>1. (from - 1) + i \in 1 .. Len(history) /\ i \in Nat /\ from \in Nat
    BY <2>0
  <2>2. Recent[i] = (delivered - Len(history)) + ((from - 1) + i)
    BY <1>1, <1>4, <2>1
  <2>4. (delivered - Len(history)) + ((from - 1) + i) = (((delivered - Len(history)) + from) - 1) + i
    <3>1. delivered \in Nat /\ Len(history) \in Nat /\ from \in Nat /\ i \in Nat
      BY <1>1, <2>1
    <3> QED
      BY <3>1
  <2> QED
    BY <2>2, <2>4, Zenon
<1>9. a \in Nat
  BY <1>6
<1> HIDE DEF a
<1>10. Complete(Recent, a, delivered, {})
  BY <1>1, <1>5, <1>7, <1>8, <1>9, CompletePiece
<1> QED
  BY <1>4, <1>6, <1>10 DEF a

\* No handler runs before the loop is bound.
LEMMA BoundFirst ==
  ASSUME IInv, NEW s \in Sockets, pc[s] # "new"
  PROVE  bound
BY DEF IInv, Counted

LEMMA ConnectStep == ASSUME IInv, NEW s \in Sockets, Connect(s) PROVE IInv'
<1> USE DEF IInv
<1>1. /\ bound /\ pc[s] = "new" /\ subscribers' = subscribers \cup {s}
      /\ outbox' = [outbox EXCEPT ![s] = Recent] /\ joined' = [joined EXCEPT ![s] = delivered]
      /\ pc' = [pc EXCEPT ![s] = "replay"]
      /\ UNCHANGED <<bound, published, pending, history, queue, seen, gone, skipped>>
  BY DEF Connect
<1>2. delivered \in 0 .. published /\ delivered' = delivered
  <2>1. published \in Nat /\ Len(pending) \in Nat /\ delivered \in Nat
    BY EndsType, BrokerAssumption DEF TypeOK, Counted
  <2> QED
    BY <1>1, <2>1 DEF delivered
<1>3. joined'[s] = delivered /\ outbox'[s] = Recent /\ pc'[s] = "replay"
  BY <1>1 DEF TypeOK
<1>4. Recent \in Seq(1 .. published) /\ Complete(Recent, Entitled(s)', delivered, {})
  BY <1>3, RecentPiece
<1>5. TypeOK'
  <2>1. outbox' \in [Sockets -> Seq(1 .. published)]
    BY <1>1, <1>4 DEF TypeOK
  <2>2. joined' \in [Sockets -> 0 .. published]
    BY <1>1, <1>2 DEF TypeOK
  <2>3. /\ pc' \in [Sockets -> {"new", "replay", "stream", "closed", "failed"}]
        /\ subscribers' \subseteq Sockets
    BY <1>1 DEF TypeOK
  <2> QED
    BY <1>1, <2>1, <2>2, <2>3 DEF TypeOK
<1>6. Handled(s)'
  <2>1. seen[s] = <<>> /\ queue[s] = <<>> /\ skipped[s] = {}
    BY <1>1 DEF Handled
  <2>2. Line(s)' = Recent
    <3>1. Line(s)' = <<>> \o Recent \o <<>>
      BY <1>1, <1>3, <2>1 DEF Line
    <3> QED
      BY <1>4, <3>1
  <2> QED
    BY <1>1, <1>2, <1>3, <1>4, <2>1, <2>2 DEF Handled, Listening
<1> QED
  BY <1>1, <1>5, <1>6, OwnSocket DEF TypeOK

LEMMA SendStep == ASSUME IInv, NEW s \in Sockets, Send(s) PROVE IInv'
<1> USE DEF IInv
<1>1. /\ outbox[s] # <<>> /\ seen' = [seen EXCEPT ![s] = Append(@, Head(outbox[s]))]
      /\ outbox' = [outbox EXCEPT ![s] = Tail(@)]
      /\ UNCHANGED <<bound, published, pending, history, subscribers, queue, pc, gone,
                     joined, skipped>>
  BY DEF Send
<1>2. delivered' = delivered
  BY <1>1 DEF delivered
<1>3. /\ outbox[s] \in Seq(1 .. published) /\ seen[s] \in Seq(1 .. published)
      /\ seen[s] \in Seq(Nat) /\ outbox[s] \in Seq(Nat) /\ queue[s] \in Seq(Nat)
  BY SocketType
<1>4. /\ Tail(outbox[s]) \in Seq(1 .. published)
      /\ Append(seen[s], Head(outbox[s])) \in Seq(1 .. published)
  BY <1>1, <1>3, EndsType
<1>5. TypeOK'
  BY <1>1, <1>4 DEF TypeOK
<1>6. seen'[s] = Append(seen[s], Head(outbox[s])) /\ outbox'[s] = Tail(outbox[s])
  BY <1>1 DEF TypeOK
<1>7. Line(s)' = Line(s)
  <2>1. \A a, b, c \in Seq(Nat) : b # <<>> => Append(a, Head(b)) \o Tail(b) \o c = a \o b \o c
    BY MoveHead
  <2>2. Append(seen[s], Head(outbox[s])) \o Tail(outbox[s]) \o queue[s]
          = seen[s] \o outbox[s] \o queue[s]
    BY <1>1, <1>3, <2>1
  <2> QED
    BY <1>1, <1>6, <2>2, Zenon DEF Line
<1>8. Listening(s) /\ pc[s] # "new"
  BY <1>1 DEF Handled, Listening
<1>9. Handled(s)'
  BY <1>1, <1>2, <1>7, <1>8 DEF Handled, Listening, Entitled
<1> QED
  BY <1>1, <1>5, <1>8, <1>9, BoundFirst, OwnSocket DEF TypeOK

LEMMA ReplayDoneStep == ASSUME IInv, NEW s \in Sockets, ReplayDone(s) PROVE IInv'
<1> USE DEF IInv
<1>1. /\ pc[s] = "replay" /\ pc' = [pc EXCEPT ![s] = "stream"]
      /\ UNCHANGED <<bound, published, pending, history, subscribers, queue, outbox, seen,
                     gone, joined, skipped>>
  BY DEF ReplayDone
<1>2. delivered' = delivered /\ pc'[s] = "stream"
  BY <1>1 DEF delivered, TypeOK
<1>3. TypeOK'
  BY <1>1 DEF TypeOK
<1>4. Handled(s)'
  BY <1>1, <1>2 DEF Handled, Listening, Entitled, Line
<1> QED
  BY <1>1, <1>3, <1>4, BoundFirst, OwnSocket DEF TypeOK

LEMMA GetNextStep == ASSUME IInv, NEW s \in Sockets, GetNext(s) PROVE IInv'
<1> USE DEF IInv
<1>1. /\ pc[s] = "stream" /\ outbox[s] = <<>> /\ queue[s] # <<>>
      /\ outbox' = [outbox EXCEPT ![s] = <<Head(queue[s])>>]
      /\ queue' = [queue EXCEPT ![s] = Tail(@)]
      /\ UNCHANGED <<bound, published, pending, history, subscribers, pc, seen, gone,
                     joined, skipped>>
  BY DEF GetNext
<1>2. delivered' = delivered
  BY <1>1 DEF delivered
<1>3. /\ queue[s] \in Seq(1 .. published) /\ seen[s] \in Seq(Nat) /\ queue[s] \in Seq(Nat)
      /\ Len(queue[s]) <= MaxQueue /\ Len(queue[s]) \in Nat
  BY SocketType, EndsType DEF TypeOK
<1>4. /\ Tail(queue[s]) \in Seq(1 .. published) /\ Len(Tail(queue[s])) <= MaxQueue
      /\ Head(queue[s]) \in 1 .. published /\ <<Head(queue[s])>> \in Seq(1 .. published)
      /\ Head(queue[s]) \in Nat /\ Tail(queue[s]) \in Seq(Nat)
  <2>1. /\ Tail(queue[s]) \in Seq(1 .. published) /\ Len(Tail(queue[s])) = Len(queue[s]) - 1
        /\ Head(queue[s]) \in 1 .. published /\ Head(queue[s]) \in Nat /\ Tail(queue[s]) \in Seq(Nat)
    BY <1>1, <1>3, EndsType
  <2>2. Len(Tail(queue[s])) <= MaxQueue
    BY <1>3, <2>1, BrokerAssumption
  <2> QED
    BY <2>1, <2>2
<1>5. TypeOK'
  BY <1>1, <1>4 DEF TypeOK
<1>6. outbox'[s] = <<Head(queue[s])>> /\ queue'[s] = Tail(queue[s])
  BY <1>1 DEF TypeOK
<1>7. Line(s)' = Line(s)
  <2>1. \A a, b \in Seq(Nat) : b # <<>> => a \o <<Head(b)>> \o Tail(b) = a \o <<>> \o b
    <3> SUFFICES ASSUME NEW a \in Seq(Nat), NEW b \in Seq(Nat), b # <<>>
                 PROVE  a \o <<Head(b)>> \o Tail(b) = a \o <<>> \o b
      OBVIOUS
    <3>1. <<>> \in Seq(Nat) /\ Head(b) \in Nat /\ Tail(b) \in Seq(Nat)
      BY EndsType
    <3>2. Append(a, Head(b)) \o Tail(b) \o <<>> = a \o b \o <<>>
      BY <3>1, MoveHead
    <3>3. Append(a, Head(b)) = a \o <<Head(b)>>
      BY <3>1
    <3>4. \A l \in Seq(Nat) : l \o <<>> = l
      OBVIOUS
    <3>5. Append(a, Head(b)) \o Tail(b) \in Seq(Nat) /\ a \o b \in Seq(Nat)
      BY <3>1
    <3> QED
      BY <3>2, <3>3, <3>4, <3>5
  <2> QED
    BY <1>1, <1>3, <1>6, <2>1 DEF Line
<1>8. Handled(s)'
  BY <1>1, <1>2, <1>7 DEF Handled, Listening, Entitled
<1> QED
  BY <1>1, <1>5, <1>8, BoundFirst, OwnSocket DEF TypeOK

LEMMA SendFailsStep == ASSUME IInv, NEW s \in Sockets, SendFails(s) PROVE IInv'
<1> USE DEF IInv
<1>1. /\ outbox[s] # <<>> /\ outbox' = [outbox EXCEPT ![s] = <<>>]
      /\ UNCHANGED <<bound, published, pending, history, queue, seen, gone, joined, skipped>>
      /\ pc' = [pc EXCEPT ![s] = IF pc[s] = "stream" THEN "closed" ELSE "failed"]
      /\ subscribers' \in {subscribers, subscribers \ {s}}
  BY DEF SendFails
<1>2. delivered' = delivered
  BY <1>1 DEF delivered
<1>3. TypeOK'
  <2>1. <<>> \in Seq(1 .. published)
    OBVIOUS
  <2>2. outbox' \in [Sockets -> Seq(1 .. published)] /\ subscribers' \subseteq Sockets
    BY <1>1, <2>1 DEF TypeOK
  <2> QED
    BY <1>1, <2>2 DEF TypeOK
<1>4. outbox'[s] = <<>> /\ pc'[s] \in {"closed", "failed"}
  BY <1>1 DEF TypeOK
<1>5. Handled(s)'
  BY <1>1, <1>2, <1>4 DEF Handled, Listening
<1>6. pc[s] # "new"
  BY <1>1 DEF Handled, Listening
<1> QED
  BY <1>1, <1>3, <1>5, <1>6, BoundFirst, OwnSocket DEF TypeOK

LEMMA LeaveStep == ASSUME IInv, NEW s \in Sockets, Leave(s) PROVE IInv'
<1> USE DEF IInv
<1>1. /\ pc[s] # "new" /\ gone' = [gone EXCEPT ![s] = TRUE]
      /\ UNCHANGED <<bound, published, pending, history, subscribers, queue, pc, outbox, seen,
                     joined, skipped>>
  BY DEF Leave, handlerVars
<1>2. TypeOK'
  BY <1>1 DEF TypeOK
<1>3. delivered' = delivered
  BY <1>1 DEF delivered
<1>4. Handled(s)'
  BY <1>1, <1>3, Untouched
<1> QED
  BY <1>1, <1>2, <1>4, BoundFirst, OwnSocket

LEMMA StepIInv == IInv /\ [Next]_vars => IInv'
<1> SUFFICES ASSUME IInv, [Next]_vars PROVE IInv'
  OBVIOUS
<1>1. ASSUME NEW s \in Sockets, Connect(s) \/ Handle(s) \/ Leave(s)
      PROVE  IInv'
  BY <1>1, ConnectStep, SendStep, ReplayDoneStep, GetNextStep, SendFailsStep, LeaveStep DEF Handle
<1>2. CASE BindLoop \/ Publish \/ Deliver
  BY <1>2, BindStep, PublishStep, DeliverStep
<1>3. CASE UNCHANGED vars
  <2>1. UNCHANGED <<bound, published, pending, history, subscribers, queue, pc, outbox, seen,
                    gone, joined, skipped>>
    BY <1>3 DEF vars, handlerVars
  <2>2. delivered' = delivered
    BY <2>1 DEF delivered
  <2>3. TypeOK' /\ Counted'
    BY <2>1, <2>2 DEF IInv, TypeOK, Counted
  <2>4. \A s \in Sockets : Handled(s)'
    BY <2>1, <2>2, Untouched DEF IInv
  <2> QED
    BY <2>3, <2>4 DEF IInv
<1> QED
  BY <1>1, <1>2, <1>3 DEF Next

-----------------------------------------------------------------------------
\* History and queues keep to their limits, and nothing is sent that was not
\* published (EventBroker, ws handler).
THEOREM BrokerTypes == Spec => []TypeOK
<1>1. IInv => TypeOK
  BY DEF IInv
<1> QED
  BY InitIInv, StepIInv, <1>1, PTL DEF Spec

\* A socket misses nothing and gets nothing twice, from the replayed history to
\* the latest event, except what its own full queue refused (subscribe, _deliver).
THEOREM BrokerFeed == Spec => []FeedIsComplete
<1>1. IInv => FeedIsComplete
  BY DEF IInv, Handled, FeedIsComplete, Complete, Line
<1> QED
  BY InitIInv, StepIInv, <1>1, PTL DEF Spec

-----------------------------------------------------------------------------
(***************************************************************************)
(* The refinement: Connect joins, Send sees, a delivery (or a publication  *)
(* before the loop is bound) delivers, and the rest is not seen from there.*)
(***************************************************************************)
LEMMA FeedStep == IInv /\ IInv' /\ [Next]_vars => [Feed!Next]_(Feed!vars)
<1> DEFINE first == [s \in Sockets |-> IF pc[s] = "new" THEN 0 ELSE Entitled(s)]
<1> SUFFICES ASSUME IInv, IInv', [Next]_vars
             PROVE  Feed!Next \/ UNCHANGED <<delivered, first, seen>>
  BY DEF Feed!vars
<1>1. CASE BindLoop
  <2>1. UNCHANGED <<published, pending, pc, joined, seen>>
    BY <1>1 DEF BindLoop, handlerVars
  <2> QED
    BY <2>1 DEF delivered, Entitled
<1>2. CASE Publish
  <2>1. UNCHANGED <<pc, joined, seen>> /\ published' = published + 1
    BY <1>2 DEF Publish, handlerVars
  <2>2. first' = first
    BY <2>1 DEF Entitled
  <2>3. published \in Nat /\ pending \in Seq(1 .. published) /\ Len(pending) \in Nat
    BY BrokerAssumption DEF IInv, TypeOK
  <2>4. CASE bound
    <3>1. Len(pending') = Len(pending) + 1
      BY <1>2, <2>3, <2>4 DEF Publish
    <3>2. delivered' = delivered
      BY <2>1, <2>3, <3>1 DEF delivered
    <3> QED
      BY <2>1, <2>2, <3>2
  <2>5. CASE ~bound
    <3>1. delivered' = delivered + 1
      BY <1>2, <2>1, <2>3, <2>5 DEF Publish, delivered
    <3> QED
      BY <2>1, <2>2, <3>1 DEF Feed!Next, Feed!Deliver
  <2> QED
    BY <2>4, <2>5
<1>3. CASE Deliver
  <2>1. UNCHANGED <<pc, joined, seen>>
    BY <1>3 DEF Deliver, handlerVars
  <2>2. first' = first
    BY <2>1 DEF Entitled
  <2>3. delivered' = delivered + 1
    BY <1>3, DeliverNext
  <2> QED
    BY <2>1, <2>2, <2>3 DEF Feed!Next, Feed!Deliver
<1>4. ASSUME NEW s \in Sockets, Connect(s)
      PROVE  Feed!Next
  <2>1. /\ pc[s] = "new" /\ pc' = [pc EXCEPT ![s] = "replay"]
        /\ joined' = [joined EXCEPT ![s] = delivered] /\ UNCHANGED <<published, pending, seen>>
    BY <1>4 DEF Connect
  <2>2. delivered' = delivered
    BY <2>1 DEF delivered
  <2>3. /\ pc'[s] = "replay" /\ joined'[s] = delivered
        /\ \A r \in Sockets \ {s} : pc'[r] = pc[r] /\ joined'[r] = joined[r]
    BY <2>1 DEF IInv, TypeOK
  <2>4. first[s] = 0 /\ first' = [first EXCEPT ![s] = Feed!Oldest]
    <3>1. Entitled(s)' = Feed!Oldest
      BY <2>3 DEF Entitled, Feed!Oldest
    <3>2. \A r \in Sockets \ {s} : Entitled(r)' = Entitled(r)
      BY <2>3 DEF Entitled
    <3>3. first'[s] = Feed!Oldest
      BY <2>3, <3>1
    <3>4. \A r \in Sockets \ {s} : first'[r] = first[r]
      BY <2>3, <3>2
    <3>5. first[s] = 0
      BY <2>1
    <3> QED
      BY <3>3, <3>4, <3>5
  <2> HIDE DEF first
  <2>5. Feed!Join(s)
    BY <2>1, <2>2, <2>4 DEF Feed!Join, first
  <2> QED
    BY <2>5 DEF Feed!Next
<1>5. ASSUME NEW s \in Sockets, Send(s)
      PROVE  Feed!Next
  <2> DEFINE e == Head(outbox[s])
  <2>1. /\ outbox[s] # <<>> /\ seen' = [seen EXCEPT ![s] = Append(@, e)]
        /\ UNCHANGED <<published, pending, pc, joined>>
    BY <1>5 DEF Send
  <2>2. delivered' = delivered /\ first' = first
    BY <2>1 DEF delivered, Entitled
  <2>3. /\ Listening(s) /\ pc[s] # "new"
        /\ Complete(Line(s), Entitled(s), delivered, skipped[s])
    BY <2>1 DEF IInv, Handled, Listening
  <2>4. /\ seen[s] \in Seq(Nat) /\ outbox[s] \in Seq(Nat) /\ queue[s] \in Seq(Nat)
        /\ Line(s) \in Seq(Nat) /\ Entitled(s) \in Nat \ {0} /\ delivered \in Nat
    BY SocketType DEF IInv, Counted
  <2>5. /\ Len(seen[s]) \in Nat /\ Len(outbox[s]) \in Nat /\ Len(queue[s]) \in Nat
        /\ Len(outbox[s]) >= 1 /\ e = outbox[s][1]
    BY <2>1, <2>4
  <2>6. /\ Len(Line(s)) = Len(seen[s]) + Len(outbox[s]) + Len(queue[s])
        /\ \A i \in 1 .. Len(seen[s]) : Line(s)[i] = seen[s][i]
        /\ Line(s)[Len(seen[s]) + 1] = e
    <3> DEFINE a == seen[s]
               b == outbox[s]
               c == queue[s]
    <3>1. /\ Len(Line(s)) = Len(a) + Len(b) + Len(c)
          /\ \A i \in 1 .. Len(a) + Len(b) + Len(c) :
               Line(s)[i] = IF i <= Len(a) THEN a[i]
                            ELSE IF i <= Len(a) + Len(b) THEN b[i - Len(a)]
                            ELSE c[i - (Len(a) + Len(b))]
      <4>1. Line(s) = a \o b \o c /\ a \in Seq(Nat) /\ b \in Seq(Nat) /\ c \in Seq(Nat)
        BY <2>4 DEF Line
      <4> HIDE DEF a, b, c
      <4> QED
        BY <4>1, LineParts
    <3>2. Len(a) \in Nat /\ Len(b) \in Nat /\ Len(c) \in Nat /\ Len(b) >= 1 /\ e = b[1]
      BY <2>5
    <3> HIDE DEF a, b, c, e
    <3>3. \A i \in 1 .. Len(a) : Line(s)[i] = a[i]
      BY <3>1, <3>2
    <3>4. Line(s)[Len(a) + 1] = b[(Len(a) + 1) - Len(a)] /\ (Len(a) + 1) - Len(a) = 1
      BY <3>1, <3>2
    <3> QED
      BY <3>1, <3>2, <3>3, <3>4 DEF a, b, c
  <2>7. Len(seen[s]) + 1 \in 1 .. Len(Line(s))
        /\ \A i \in 1 .. Len(seen[s]) : i \in 1 .. Len(Line(s)) /\ i < Len(seen[s]) + 1
    <3>1. \A a, b, c, l \in Nat : b >= 1 /\ l = a + b + c =>
            a + 1 \in 1 .. l /\ \A i \in 1 .. a : i \in 1 .. l /\ i < a + 1
      OBVIOUS
    <3>2. Len(Line(s)) \in Nat
      BY <2>4
    <3> QED
      BY <2>5, <2>6, <3>1, <3>2
  <2>8. e \in Entitled(s) .. delivered
    BY <2>3, <2>4, <2>6, <2>7, InComplete
  <2>9. \A i \in 1 .. Len(seen[s]) : seen[s][i] < e
    BY <2>3, <2>6, <2>7 DEF Complete
  <2>10. first[s] = Entitled(s)
    BY <2>3
  <2> HIDE DEF first, e
  <2>11. first[s] # 0 /\ e >= first[s] /\ e \in 1 .. delivered
    BY <2>4, <2>8, <2>10
  <2>12. Feed!See(s, e)
    BY <2>1, <2>2, <2>9, <2>11 DEF Feed!See, first
  <2> QED
    BY <2>11, <2>12 DEF Feed!Next
<1>6. ASSUME NEW s \in Sockets, ReplayDone(s) \/ GetNext(s) \/ SendFails(s) \/ Leave(s)
      PROVE  UNCHANGED <<delivered, first, seen>>
  <2>1. UNCHANGED <<published, pending, joined, seen>>
    BY <1>6 DEF ReplayDone, GetNext, SendFails, Leave, handlerVars
  <2>2. delivered' = delivered
    BY <2>1 DEF delivered
  <2>3. \A r \in Sockets : pc'[r] = "new" <=> pc[r] = "new"
    <3>1. SendFails(s) => pc[s] # "new"
      BY DEF SendFails, IInv, Handled, Listening
    <3>2. pc \in [Sockets -> {"new", "replay", "stream", "closed", "failed"}]
      BY DEF IInv, TypeOK
    <3> QED
      BY <1>6, <3>1, <3>2 DEF ReplayDone, GetNext, SendFails, Leave, handlerVars
  <2>4. first' = first
    BY <2>1, <2>3 DEF Entitled
  <2> QED
    BY <2>1, <2>2, <2>4
<1>7. CASE UNCHANGED vars
  BY <1>7 DEF vars, handlerVars, delivered, Entitled
<1> QED
  BY <1>1, <1>2, <1>3, <1>4, <1>5, <1>6, <1>7 DEF Next, Handle

\* The broker and its handlers do nothing that EventFeed does not allow: each
\* socket is told the last events before it came and later ones, in their order
\* and once, for any number of sockets, events and lengths of history and queue.
THEOREM BrokerImplementsFeed == Spec => ImplementsFeed
<1>1. Init => Feed!Init
  <2> SUFFICES ASSUME Init PROVE Feed!Init
    OBVIOUS
  <2>1. published = 0 /\ Len(pending) = 0
    BY DEF Init
  <2>2. delivered = 0
    BY <2>1 DEF delivered
  <2> QED
    BY <2>2 DEF Init, Feed!Init
<1>2. IInv /\ [Next]_vars => [Feed!Next]_(Feed!vars)
  BY StepIInv, FeedStep
<1> QED
  BY InitIInv, StepIInv, <1>1, <1>2, PTL DEF Spec, ImplementsFeed, Feed!Spec
=============================================================================
