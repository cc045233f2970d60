------------------------ MODULE AsyncPipeline_proofs -------------------------
(***************************************************************************)
(* What holds of the stage workers and their queues for any number of      *)
(* stages, any capacity, any number of items made of one, and any frames.  *)
(***************************************************************************)
EXTENDS AsyncPipeline, WellFoundedInduction, TLAPS

\* Numbers that the steps below count with.
LEMMA Bounds ==
  /\ Stages \in Nat /\ Capacity \in Nat /\ Capacity >= 1
  /\ MaxOutputs \in Nat /\ MaxFrames \in Nat
  /\ Queues \subseteq Workers /\ 1 \in Workers
  /\ \A w \in Workers : w > 1 => w - 1 \in Queues
  BY PipelineAssumption DEF Queues, Workers

\* Taking one element out of a list leaves a list that is one shorter.
LEMMA RemoveAtType ==
  ASSUME NEW S, NEW l \in Seq(S), NEW i \in 1 .. Len(l)
  PROVE  RemoveAt(l, i) \in Seq(S) /\ Len(RemoveAt(l, i)) = Len(l) - 1
<1>1. /\ SubSeq(l, 1, i - 1) \in Seq(S) /\ Len(SubSeq(l, 1, i - 1)) = i - 1
      /\ SubSeq(l, i + 1, Len(l)) \in Seq(S) /\ Len(SubSeq(l, i + 1, Len(l))) = Len(l) - i
  OBVIOUS
<1>2. \A a, b \in Seq(S) : a \o b \in Seq(S) /\ Len(a \o b) = Len(a) + Len(b)
  OBVIOUS
<1>3. RemoveAt(l, i) = SubSeq(l, 1, i - 1) \o SubSeq(l, i + 1, Len(l))
  BY DEF RemoveAt
<1>4. RemoveAt(l, i) \in Seq(S) /\ Len(RemoveAt(l, i)) = (i - 1) + (Len(l) - i)
  BY <1>1, <1>2, <1>3
<1> QED
  BY <1>4

\* The tail of a list is a list; it is empty when the list has one element.
LEMMA TailType ==
  ASSUME NEW S, NEW l \in Seq(S), l # <<>>
  PROVE  /\ Tail(l) \in Seq(S) /\ Len(Tail(l)) = Len(l) - 1
         /\ Len(l) = 1 <=> Tail(l) = <<>>
<1>1. Tail(l) \in Seq(S) /\ Len(Tail(l)) = Len(l) - 1 /\ Len(l) \in Nat
  OBVIOUS
<1>2. \A a \in Seq(S) : Len(a) = 0 <=> a = <<>>
  OBVIOUS
<1>3. Len(Tail(l)) = 0 <=> Tail(l) = <<>>
  BY <1>1, <1>2
<1> QED
  BY <1>1, <1>3

\* A set of numbers that is not empty has a least one.
LEMMA LeastNumber ==
  ASSUME NEW S, S \subseteq Nat, S # {}
  PROVE  \E i \in S : \A j \in S : i <= j
<1>1. PICK i \in S : \A j \in S : ~ (<<j, i>> \in OpToRel(<, Nat))
  BY NatLessThanWellFounded, WFMin
<1>2. \A j \in S : ~ (j < i)
  BY <1>1 DEF OpToRel
<1> QED
  BY <1>2

\* The item that makes room is in the queue.
LEMMA VictimType ==
  ASSUME NEW k \in Queues, queue[k] \in Seq(Items), queue[k] # <<>>
  PROVE  Victim(k) \in 1 .. Len(queue[k])
<1>1. 1 \in 1 .. Len(queue[k])
  OBVIOUS
<1>2. CASE Partials(k) = {}
  BY <1>1, <1>2 DEF Victim
<1>3. CASE Partials(k) # {}
  <2>1. Partials(k) \subseteq Nat
    BY DEF Partials
  <2>2. \E i \in Partials(k) : \A j \in Partials(k) : i <= j
    BY <1>3, <2>1, LeastNumber
  <2>3. Victim(k) \in Partials(k)
    BY <1>3, <2>2 DEF Victim
  <2> QED
    BY <2>3 DEF Partials
<1> QED
  BY <1>2, <1>3

-----------------------------------------------------------------------------
(***************************************************************************)
(* Type correctness.  A worker that is putting has something to put.       *)
(***************************************************************************)
Putting == {"check", "overload", "insert"}

InHand ==
  /\ \A w \in Workers : (pc[w] \in Putting) <=> (todo[w] # <<>>)
  /\ todo[Stages] = <<>>

Typed == TypeOK /\ InHand

LEMMA InitType == Init => Typed
<1> SUFFICES ASSUME Init PROVE Typed
  OBVIOUS
<1>1. queue \in [Queues -> Seq(Items)] /\ todo \in [Workers -> Seq(Items)]
  BY DEF Init
<1>2. \A k \in Queues : Len(queue[k]) <= Capacity
  BY Bounds DEF Init
<1>3. InHand
  BY Bounds, PipelineAssumption DEF Init, InHand, Putting, Workers
<1>4. pc \in [Workers -> {"loop", "ready", "work", "check", "overload", "insert", "done"}]
  BY DEF Init
<1>5. /\ made \in [Workers -> Nat] /\ sent \in [Queues -> Nat] /\ taken \in [Queues -> Nat]
  BY DEF Init
<1>6. /\ overload_count \in [Queues -> Nat] /\ dropped_count \in [Queues -> Nat]
      /\ compacted_count \in [Queues -> Nat]
  BY DEF Init
<1>7. frames \in 0 .. MaxFrames
  BY Bounds DEF Init
<1>8. backpressure \in BOOLEAN /\ stop \in BOOLEAN
  BY DEF Init
<1> QED
  BY <1>1, <1>2, <1>3, <1>4, <1>5, <1>6, <1>7, <1>8 DEF Typed, TypeOK

\* The items a worker makes are items, and it goes on to put them.
LEMMA MakeType ==
  ASSUME Typed, NEW w \in Workers, NEW items \in Seq(Items), Make(w, items),
         w = Stages => items = <<>>, pc[w] \notin Putting
  PROVE  /\ todo' \in [Workers -> Seq(Items)] /\ made' \in [Workers -> Nat]
         /\ pc' \in [Workers -> {"loop", "ready", "work", "check", "overload", "insert", "done"}]
         /\ InHand'
<1> USE DEF Typed, TypeOK, InHand, Make, Goto, Putting
<1>1. Len(items) \in Nat
  OBVIOUS
<1>2. made' \in [Workers -> Nat]
  BY <1>1
<1>3. todo' \in [Workers -> Seq(Items)]
  OBVIOUS
<1> QED
  BY <1>2, <1>3

\* A put that returns takes the item off the worker's list.
LEMMA PutReturnsType ==
  ASSUME Typed, NEW w \in Queues, PutReturns(w), At(w, "insert")
  PROVE  /\ todo' \in [Workers -> Seq(Items)] /\ sent' \in [Queues -> Nat]
         /\ pc' \in [Workers -> {"loop", "ready", "work", "check", "overload", "insert", "done"}]
         /\ InHand'
<1>0. sent' \in [Queues -> Nat]
  <2>1. sent \in [Queues -> Nat]
    BY DEF Typed, TypeOK
  <2>2. sent' = [sent EXCEPT ![w] = @ + 1]
    BY DEF PutReturns
  <2> QED
    BY <2>1, <2>2
<1>1. w \in Workers /\ w # Stages
  BY Bounds DEF Queues
<1>2. todo[w] \in Seq(Items) /\ todo[w] # <<>>
  BY <1>1 DEF Typed, TypeOK, InHand, At, Putting
<1>3. Tail(todo[w]) \in Seq(Items) /\ (Len(todo[w]) = 1 <=> Tail(todo[w]) = <<>>)
  BY <1>2, TailType
<1>4. /\ todo' = [todo EXCEPT ![w] = Tail(@)]
      /\ pc' = [pc EXCEPT ![w] = IF Tail(todo[w]) = <<>> THEN "loop" ELSE "check"]
  BY <1>3 DEF PutReturns, Goto
<1>5. /\ todo' \in [Workers -> Seq(Items)]
      /\ pc' \in [Workers -> {"loop", "ready", "work", "check", "overload", "insert", "done"}]
  BY <1>3, <1>4 DEF Typed, TypeOK
<1>6. InHand'
  BY <1>1, <1>4 DEF Typed, TypeOK, InHand, Putting
<1> QED
  BY <1>0, <1>5, <1>6

LEMMA StepType == Typed /\ [Next]_vars => Typed'
<1> SUFFICES ASSUME Typed, [Next]_vars PROVE Typed'
  OBVIOUS
<1> USE DEF Typed, TypeOK
<1>1. ASSUME NEW w \in Workers, Loop(w) PROVE Typed'
  BY <1>1 DEF Loop, At, Goto, countVars, InHand, Putting
<1>2. ASSUME NEW w \in Workers, Get(w) PROVE Typed'
  <2>1. w - 1 \in Queues /\ queue[w - 1] \in Seq(Items) /\ queue[w - 1] # <<>>
    BY <1>2, Bounds DEF Get
  <2>2. Tail(queue[w - 1]) \in Seq(Items) /\ Len(Tail(queue[w - 1])) <= Capacity
    BY <2>1, Bounds
  <2>3. /\ queue' \in [Queues -> Seq(Items)] /\ taken' \in [Queues -> Nat]
        /\ \A k \in Queues : Len(queue'[k]) <= Capacity
    BY <1>2, <2>1, <2>2 DEF Get
  <2> QED
    BY <1>2, <2>3 DEF Get, At, Goto, countVars, InHand, Putting
<1>3. ASSUME NEW w \in Workers, GetNothing(w) PROVE Typed'
  BY <1>3 DEF GetNothing, At, Goto, countVars, InHand, Putting
<1>4. ASSUME NEW w \in Workers, NEW n \in 0 .. MaxOutputs, NEW partial \in BOOLEAN,
             Process(w, n, partial)
      PROVE  Typed'
  <2> DEFINE items == [i \in 1 .. n |-> Item(made[w] + i, partial)]
  <2>1. items \in Seq(Items)
    BY Bounds DEF Item, Items
  <2>2. w = Stages => items = <<>>
    <3>1. w = Stages => n = 0
      BY <1>4 DEF Process
    <3>2. n = 0 => items = <<>>
      OBVIOUS
    <3> QED
      BY <3>1, <3>2
  <2>3. pc[w] \notin Putting /\ Make(w, items)
    BY <1>4 DEF Process, At, Putting
  <2> HIDE DEF items
  <2> QED
    BY <1>4, <2>1, <2>2, <2>3, MakeType DEF Process, countVars
<1>5. ASSUME NEW w \in Queues, Check(w) PROVE Typed'
  BY <1>5, Bounds DEF Check, At, Goto, countVars, InHand, Putting
<1>6. ASSUME NEW w \in Queues, Overload(w) PROVE Typed'
  <2>1. /\ InHand'
        /\ pc' \in [Workers -> {"loop", "ready", "work", "check", "overload", "insert", "done"}]
    BY <1>6, Bounds DEF Overload, At, Goto, InHand, Putting
  <2>2. overload_count' \in [Queues -> Nat]
    <3>1. overload_count' = [overload_count EXCEPT ![w] = @ + 1]
      BY <1>6 DEF Overload
    <3> QED
      BY <3>1
  <2>3. CASE queue[w] = <<>>
    <3>1. UNCHANGED <<queue, dropped_count, compacted_count>>
      BY <1>6, <2>3 DEF Overload
    <3> QED
      BY <1>6, <2>1, <2>2, <3>1 DEF Overload
  <2>4. CASE queue[w] # <<>>
    <3>1. /\ RemoveAt(queue[w], Victim(w)) \in Seq(Items)
          /\ Len(RemoveAt(queue[w], Victim(w))) <= Capacity
      BY <2>4, VictimType, RemoveAtType, Bounds
    <3>2. /\ queue' \in [Queues -> Seq(Items)]
          /\ \A k \in Queues : Len(queue'[k]) <= Capacity
      BY <1>6, <2>4, <3>1 DEF Overload
    <3>3. dropped_count' \in [Queues -> Nat] /\ compacted_count' \in [Queues -> Nat]
      <4>1. CASE Partials(w) # {}
        <5>1. /\ compacted_count' = [compacted_count EXCEPT ![w] = @ + 1]
              /\ dropped_count' = dropped_count
          BY <1>6, <2>4, <4>1 DEF Overload
        <5> QED
          BY <5>1
      <4>2. CASE Partials(w) = {}
        <5>1. /\ dropped_count' = [dropped_count EXCEPT ![w] = @ + 1]
              /\ compacted_count' = compacted_count
          BY <1>6, <2>4, <4>2 DEF Overload
        <5> QED
          BY <5>1
      <4> QED
        BY <4>1, <4>2
    <3> QED
      BY <1>6, <2>1, <2>2, <3>2, <3>3 DEF Overload
  <2> QED
    BY <2>3, <2>4
<1>7. ASSUME NEW w \in Queues, Insert(w) PROVE Typed'
  <2>1. w \in Workers /\ todo[w] \in Seq(Items) /\ todo[w] # <<>>
    BY <1>7, Bounds DEF Insert, At, InHand, Putting
  <2>2. /\ Append(queue[w], Head(todo[w])) \in Seq(Items)
        /\ Len(Append(queue[w], Head(todo[w]))) <= Capacity
    BY <1>7, <2>1, Bounds DEF Insert, Full
  <2>3. /\ queue' \in [Queues -> Seq(Items)]
        /\ \A k \in Queues : Len(queue'[k]) <= Capacity
    BY <1>7, <2>2 DEF Insert
  <2> QED
    BY <1>7, <2>3, PutReturnsType DEF Insert, countVars
<1>8. ASSUME NEW w \in Queues, Refuse(w) PROVE Typed'
  <2>1. overload_count' \in [Queues -> Nat] /\ dropped_count' \in [Queues -> Nat]
    BY <1>8 DEF Refuse
  <2> QED
    BY <1>8, <2>1, PutReturnsType DEF Refuse
<1>9. CASE Capture
  <2> DEFINE items == <<Item(made[1] + 1, FALSE)>>
  <2>1. items \in Seq(Items)
    BY Bounds DEF Item, Items
  <2>2. 1 # Stages
    BY PipelineAssumption
  <2>3. pc[1] \notin Putting /\ Make(1, items)
    BY <1>9 DEF Capture, At, Putting
  <2>4. frames' \in 0 .. MaxFrames
    BY <1>9, Bounds DEF Capture
  <2> HIDE DEF items
  <2> QED
    BY <1>9, <2>1, <2>2, <2>3, <2>4, Bounds, MakeType DEF Capture, countVars
<1>10. CASE Silence
  BY <1>10, Bounds DEF Silence, At, Goto, countVars, InHand, Putting
<1>11. CASE Stop
  BY <1>11 DEF Stop, countVars, InHand
<1>12. CASE UNCHANGED vars
  BY <1>12 DEF vars, countVars, InHand
<1> QED
  BY <1>1, <1>2, <1>3, <1>4, <1>5, <1>6, <1>7, <1>8, <1>9, <1>10, <1>11, <1>12
     DEF Next, Step, Finished

\* The pipeline keeps its types, and no queue holds more than its capacity.
THEOREM PipelineTypes == Spec => []TypeOK
<1>1. Typed => TypeOK
  BY DEF Typed
<1> QED
  BY <1>1, InitType, StepType, PTL DEF Spec

-----------------------------------------------------------------------------
(***************************************************************************)
(* The counters of a queue account for every item put on it.               *)
(***************************************************************************)
Balanced(s, t, l, d, c) == s = t + l + d + c

\* What a call of get or put does to the counts keeps them balanced.
LEMMA Balance ==
  \A s, t, l, d, c \in Nat :
    Balanced(s, t, l, d, c) =>
      /\ Balanced(s, t + 1, l - 1, d, c)
      /\ Balanced(s, t, l - 1, d + 1, c)
      /\ Balanced(s, t, l - 1, d, c + 1)
      /\ Balanced(s + 1, t, l + 1, d, c)
      /\ Balanced(s + 1, t, l, d + 1, c)
  BY DEF Balanced

LEMMA CountersInit == Init => CountersAccount
  BY DEF Init, CountersAccount

LEMMA CountersStep == Typed /\ CountersAccount /\ [Next]_vars => CountersAccount'
<1> SUFFICES ASSUME Typed, CountersAccount, [Next]_vars, NEW k \in Queues
             PROVE  Balanced(sent'[k], taken'[k], Len(queue'[k]), dropped_count'[k],
                             compacted_count'[k])
  BY DEF CountersAccount, Balanced
<1> DEFINE Goal == Balanced(sent'[k], taken'[k], Len(queue'[k]), dropped_count'[k],
                            compacted_count'[k])
           Same == UNCHANGED <<sent, taken, queue, dropped_count, compacted_count>>
<1>0. /\ queue \in [Queues -> Seq(Items)] /\ queue[k] \in Seq(Items)
      /\ sent \in [Queues -> Nat] /\ taken \in [Queues -> Nat]
      /\ dropped_count \in [Queues -> Nat] /\ compacted_count \in [Queues -> Nat]
  BY DEF Typed, TypeOK
<1>1. Balanced(sent[k], taken[k], Len(queue[k]), dropped_count[k], compacted_count[k])
  BY DEF CountersAccount, Balanced
<1>2. /\ sent[k] \in Nat /\ taken[k] \in Nat /\ Len(queue[k]) \in Nat
      /\ dropped_count[k] \in Nat /\ compacted_count[k] \in Nat
  BY <1>0
<1>3. /\ Balanced(sent[k], taken[k] + 1, Len(queue[k]) - 1, dropped_count[k], compacted_count[k])
      /\ Balanced(sent[k], taken[k], Len(queue[k]) - 1, dropped_count[k] + 1, compacted_count[k])
      /\ Balanced(sent[k], taken[k], Len(queue[k]) - 1, dropped_count[k], compacted_count[k] + 1)
      /\ Balanced(sent[k] + 1, taken[k], Len(queue[k]) + 1, dropped_count[k], compacted_count[k])
      /\ Balanced(sent[k] + 1, taken[k], Len(queue[k]), dropped_count[k] + 1, compacted_count[k])
  BY <1>1, <1>2, Balance, Zenon
<1>4. ASSUME NEW w \in Workers, Get(w) PROVE Goal
  <2>1. CASE k = w - 1
    <3>1. Len(Tail(queue[k])) = Len(queue[k]) - 1
      BY <1>0, <1>4, <2>1, TailType DEF Get
    <3>2. queue'[k] = Tail(queue[k]) /\ taken'[k] = taken[k] + 1
      BY <1>0, <1>4, <2>1 DEF Get
    <3>3. /\ sent'[k] = sent[k] /\ dropped_count'[k] = dropped_count[k]
          /\ compacted_count'[k] = compacted_count[k]
      BY <1>4 DEF Get, countVars
    <3> QED
      BY <1>3, <3>1, <3>2, <3>3, Zenon
  <2>2. CASE k # w - 1
    <3>1. queue'[k] = queue[k] /\ taken'[k] = taken[k]
      BY <1>0, <1>4, <2>2, Bounds DEF Get
    <3>2. /\ sent'[k] = sent[k] /\ dropped_count'[k] = dropped_count[k]
          /\ compacted_count'[k] = compacted_count[k]
      BY <1>4 DEF Get, countVars
    <3> QED
      BY <1>1, <3>1, <3>2, Zenon
  <2> QED
    BY <2>1, <2>2
<1>5. ASSUME NEW w \in Queues, Overload(w) PROVE Goal
  <2>1. sent'[k] = sent[k] /\ taken'[k] = taken[k]
    BY <1>5 DEF Overload
  <2>2. CASE queue[w] = <<>> \/ w # k
    <3>1. /\ queue'[k] = queue[k] /\ dropped_count'[k] = dropped_count[k]
          /\ compacted_count'[k] = compacted_count[k]
      BY <1>0, <1>5, <2>2 DEF Overload
    <3> QED
      BY <1>1, <2>1, <3>1, Zenon
  <2>3. CASE queue[w] # <<>> /\ w = k
    <3>1. Len(RemoveAt(queue[k], Victim(k))) = Len(queue[k]) - 1
      BY <1>0, <2>3, VictimType, RemoveAtType
    <3>2. queue'[k] = RemoveAt(queue[k], Victim(k))
      BY <1>0, <1>5, <2>3 DEF Overload
    <3>3. CASE Partials(k) # {}
      <4>1. compacted_count'[k] = compacted_count[k] + 1 /\ dropped_count'[k] = dropped_count[k]
        BY <1>0, <1>5, <2>3, <3>3 DEF Overload
      <4> QED
        BY <1>3, <2>1, <3>1, <3>2, <4>1, Zenon
    <3>4. CASE Partials(k) = {}
      <4>1. dropped_count'[k] = dropped_count[k] + 1 /\ compacted_count'[k] = compacted_count[k]
        BY <1>0, <1>5, <2>3, <3>4 DEF Overload
      <4> QED
        BY <1>3, <2>1, <3>1, <3>2, <4>1, Zenon
    <3> QED
      BY <3>3, <3>4
  <2> QED
    BY <2>2, <2>3
<1>6. ASSUME NEW w \in Queues, Insert(w) PROVE Goal
  <2>1. /\ queue' = [queue EXCEPT ![w] = Append(@, Head(todo[w]))]
        /\ sent' = [sent EXCEPT ![w] = @ + 1]
    BY <1>6 DEF Insert, PutReturns
  <2>2. /\ taken'[k] = taken[k] /\ dropped_count'[k] = dropped_count[k]
        /\ compacted_count'[k] = compacted_count[k]
    BY <1>6 DEF Insert, countVars
  <2>3. CASE w = k
    <3>1. Len(Append(queue[k], Head(todo[w]))) = Len(queue[k]) + 1
      BY <1>0
    <3>2. queue'[k] = Append(queue[k], Head(todo[w])) /\ sent'[k] = sent[k] + 1
      BY <1>0, <2>1, <2>3
    <3> QED
      BY <1>3, <2>2, <3>1, <3>2, Zenon
  <2>4. CASE w # k
    <3>1. queue'[k] = queue[k] /\ sent'[k] = sent[k]
      BY <1>0, <2>1, <2>4
    <3> QED
      BY <1>1, <2>2, <3>1, Zenon
  <2> QED
    BY <2>3, <2>4
<1>7. ASSUME NEW w \in Queues, Refuse(w) PROVE Goal
  <2>1. /\ dropped_count' = [dropped_count EXCEPT ![w] = @ + 1]
        /\ sent' = [sent EXCEPT ![w] = @ + 1]
    BY <1>7 DEF Refuse, PutReturns
  <2>2. /\ taken'[k] = taken[k] /\ queue'[k] = queue[k]
        /\ compacted_count'[k] = compacted_count[k]
    BY <1>7 DEF Refuse
  <2>3. CASE w = k
    <3>1. dropped_count'[k] = dropped_count[k] + 1 /\ sent'[k] = sent[k] + 1
      BY <1>0, <2>1, <2>3
    <3> QED
      BY <1>3, <2>2, <3>1, Zenon
  <2>4. CASE w # k
    <3>1. dropped_count'[k] = dropped_count[k] /\ sent'[k] = sent[k]
      BY <1>0, <2>1, <2>4
    <3> QED
      BY <1>1, <2>2, <3>1, Zenon
  <2> QED
    BY <2>3, <2>4
<1>8. CASE Same
  BY <1>1, <1>8
<1>9. ASSUME NEW w \in Workers, Loop(w) \/ GetNothing(w) PROVE Same
  BY <1>9 DEF Loop, GetNothing, countVars
<1>10. ASSUME NEW w \in Workers, NEW n \in 0 .. MaxOutputs, NEW partial \in BOOLEAN,
              Process(w, n, partial)
       PROVE  Same
  BY <1>10 DEF Process, countVars
<1>11. ASSUME NEW w \in Queues, Check(w) PROVE Same
  BY <1>11 DEF Check, countVars
<1>12. CASE Capture \/ Silence \/ Stop \/ UNCHANGED vars
  BY <1>8, <1>12 DEF Capture, Silence, Stop, vars, countVars
<1> QED
  BY <1>4, <1>5, <1>6, <1>7, <1>8, <1>9, <1>10, <1>11, <1>12 DEF Next, Step, Finished

\* Every item put on a queue was taken, is queued, or was counted as dropped or
\* compacted, whatever the consumer does while room is being made.
THEOREM PipelineCounts == Spec => []CountersAccount
<1> QED
  BY InitType, StepType, CountersInit, CountersStep, PTL DEF Spec

-----------------------------------------------------------------------------
(***************************************************************************)
(* Room that was made stays: only the worker itself puts on its queue.     *)
(***************************************************************************)
LEMMA RoomStep == Typed /\ RoomForTheNew /\ [Next]_vars => RoomForTheNew'
<1> SUFFICES ASSUME Typed, RoomForTheNew, [Next]_vars PROVE RoomForTheNew'
  OBVIOUS
<1>a. Typed'
  BY StepType
<1>b. \A k \in Queues : Len(queue'[k]) \in Nat
  BY <1>a DEF Typed, TypeOK
<1> SUFFICES ASSUME backpressure', NEW k \in Queues, pc'[k] = "insert"
             PROVE  Len(queue'[k]) < Capacity
  BY <1>b, Bounds DEF RoomForTheNew, At, Full
<1>c. backpressure
  BY DEF Next, vars, Step, Loop, Get, GetNothing, Process, Check, Overload, Insert, Refuse,
     Capture, Silence, Stop, Finished
<1>0. /\ k \in Workers
      /\ queue \in [Queues -> Seq(Items)] /\ queue[k] \in Seq(Items) /\ Len(queue[k]) \in Nat
      /\ Len(queue[k]) <= Capacity /\ (pc[k] = "insert" => Len(queue[k]) < Capacity)
      /\ DOMAIN pc = Workers
  BY <1>c, Bounds DEF Typed, TypeOK, RoomForTheNew, At, Full
<1>1. ASSUME NEW w \in Workers, Get(w) PROVE Len(queue'[k]) < Capacity
  <2>1. pc[k] = "insert"
    BY <1>0, <1>1 DEF Get, Goto
  <2>2. w - 1 = k => Len(Tail(queue[k])) = Len(queue[k]) - 1
    BY <1>0, <1>1, TailType DEF Get
  <2>3. queue'[k] = IF w - 1 = k THEN Tail(queue[k]) ELSE queue[k]
    BY <1>0, <1>1, Bounds DEF Get
  <2> QED
    BY <1>0, <2>1, <2>2, <2>3, Bounds
<1>2. ASSUME NEW w \in Queues, Check(w) PROVE Len(queue'[k]) < Capacity
  <2>1. UNCHANGED queue /\ (pc[k] = "insert" \/ (w = k /\ ~Full(k)))
    BY <1>0, <1>2, Bounds DEF Check, Goto
  <2> QED
    BY <1>0, <2>1, Bounds DEF Full
<1>3. ASSUME NEW w \in Queues, Overload(w) PROVE Len(queue'[k]) < Capacity
  <2>1. CASE w # k
    <3>1. queue'[k] = queue[k] /\ pc[k] = "insert"
      BY <1>0, <1>3, <2>1, Bounds DEF Overload, Goto
    <3> QED
      BY <1>0, <3>1
  <2>2. CASE w = k /\ queue[w] = <<>>
    <3>1. queue'[k] = <<>>
      BY <1>0, <1>3, <2>2 DEF Overload
    <3> QED
      BY <3>1, Bounds
  <2>3. CASE w = k /\ queue[w] # <<>>
    <3>1. Len(RemoveAt(queue[k], Victim(k))) = Len(queue[k]) - 1
      BY <1>0, <2>3, VictimType, RemoveAtType
    <3>2. queue'[k] = RemoveAt(queue[k], Victim(k))
      BY <1>0, <1>3, <2>3 DEF Overload
    <3> QED
      BY <1>0, <3>1, <3>2, Bounds
  <2> QED
    BY <2>1, <2>2, <2>3
<1>4. ASSUME NEW w \in Queues, Insert(w) PROVE Len(queue'[k]) < Capacity
  <2>1. w # k
    BY <1>0, <1>4, Bounds DEF Insert, PutReturns, Goto
  <2>2. pc[k] = "insert" /\ queue'[k] = queue[k]
    BY <1>0, <1>4, <2>1, Bounds DEF Insert, PutReturns, Goto
  <2> QED
    BY <1>0, <2>2
<1>5. CASE UNCHANGED queue /\ pc[k] = "insert"
  BY <1>0, <1>5
<1>6. ASSUME NEW w \in Queues, Refuse(w) PROVE UNCHANGED queue /\ pc[k] = "insert"
  BY <1>0, <1>6, Bounds DEF Refuse, PutReturns, Goto
<1>7. ASSUME NEW w \in Workers, Loop(w) \/ GetNothing(w)
      PROVE  UNCHANGED queue /\ pc[k] = "insert"
  BY <1>0, <1>7 DEF Loop, GetNothing, Goto
<1>8. ASSUME NEW w \in Workers, NEW n \in 0 .. MaxOutputs, NEW partial \in BOOLEAN,
             Process(w, n, partial)
      PROVE  UNCHANGED queue /\ pc[k] = "insert"
  BY <1>0, <1>8 DEF Process, Make, Goto
<1>9. CASE Capture \/ Silence \/ Stop \/ UNCHANGED vars
  <2>1. UNCHANGED queue /\ pc[k] = "insert"
    BY <1>0, <1>9 DEF Capture, Silence, Stop, vars, Make, Goto
  <2> QED
    BY <1>5, <2>1
<1> QED
  BY <1>1, <1>2, <1>3, <1>4, <1>5, <1>6, <1>7, <1>8, <1>9 DEF Next, Step, Finished

\* With backpressure on, a put finds the room it has made: it never waits, and
\* never drops the new item.
THEOREM PipelineRoom == Spec => []RoomForTheNew
<1>1. Init => RoomForTheNew
  BY Bounds DEF Init, RoomForTheNew, At
<1> QED
  BY <1>1, InitType, StepType, RoomStep, PTL DEF Spec

-----------------------------------------------------------------------------
(***************************************************************************)
(* Order.  A queue and what its producer has still to put form one line,   *)
(* numbered upwards and not beyond what the producer has made; each step   *)
(* leaves the line alone, takes one item out of it, or starts a new one    *)
(* behind what is queued.                                                  *)
(***************************************************************************)
Line(k) == queue[k] \o todo[k]

InLine(l, last) ==
  /\ \A i, j \in 1 .. Len(l) : i < j => l[i].number < l[j].number
  /\ \A i \in 1 .. Len(l) : l[i].number <= last

Ordered == \A k \in Queues : InLine(Line(k), made[k])

\* m is l without its i-th element.
Without(m, l, i) ==
  /\ Len(m) = Len(l) - 1
  /\ \A j \in 1 .. Len(m) : m[j] = IF j < i THEN l[j] ELSE l[j + 1]

LEMMA WithoutInLine ==
  ASSUME NEW l \in Seq(Items), NEW m \in Seq(Items), NEW i \in 1 .. Len(l), NEW last \in Nat,
         Without(m, l, i), InLine(l, last)
  PROVE  InLine(m, last)
<1>1. Len(l) \in Nat /\ Len(m) \in Nat
  OBVIOUS
<1> DEFINE place(j) == IF j < i THEN j ELSE j + 1
<1>2. \A j \in 1 .. Len(m) : place(j) \in 1 .. Len(l) /\ m[j] = l[place(j)]
  BY <1>1 DEF Without
<1>3. \A j, k \in 1 .. Len(m) : j < k => place(j) < place(k)
  BY <1>1
<1> HIDE DEF place
<1> QED
  BY <1>2, <1>3 DEF InLine

\* Where the elements of a line are.
LEMMA LineParts ==
  ASSUME NEW q \in Seq(Items), NEW t \in Seq(Items)
  PROVE  /\ q \o t \in Seq(Items) /\ Len(q \o t) = Len(q) + Len(t)
         /\ \A i \in 1 .. Len(q) + Len(t) :
              (q \o t)[i] = IF i <= Len(q) THEN q[i] ELSE t[i - Len(q)]
  OBVIOUS

LEMMA RemoveAtParts ==
  ASSUME NEW l \in Seq(Items), NEW i \in 1 .. Len(l)
  PROVE  Without(RemoveAt(l, i), l, i)
<1> DEFINE a == SubSeq(l, 1, i - 1)
           b == SubSeq(l, i + 1, Len(l))
<1>1. /\ a \in Seq(Items) /\ Len(a) = i - 1 /\ \A j \in 1 .. (i - 1) : a[j] = l[j]
      /\ b \in Seq(Items) /\ Len(b) = Len(l) - i
      /\ \A j \in 1 .. (Len(l) - i) : b[j] = l[i + j]
  OBVIOUS
<1>2. RemoveAt(l, i) = a \o b
  BY DEF RemoveAt
<1>3. Len(l) \in Nat
  OBVIOUS
<1> HIDE DEF a, b
<1>4. /\ Len(a \o b) = Len(l) - 1
      /\ \A j \in 1 .. Len(l) - 1 : (a \o b)[j] = IF j <= i - 1 THEN a[j] ELSE b[j - (i - 1)]
  <2>1. /\ Len(a \o b) = Len(a) + Len(b)
        /\ \A j \in 1 .. Len(a) + Len(b) :
             (a \o b)[j] = IF j <= Len(a) THEN a[j] ELSE b[j - Len(a)]
    BY <1>1, LineParts
  <2>2. (i - 1) + (Len(l) - i) = Len(l) - 1
    BY <1>3
  <2> QED
    BY <1>1, <2>1, <2>2
<1>5. \A j \in 1 .. Len(l) - 1 : (a \o b)[j] = IF j < i THEN l[j] ELSE l[j + 1]
  <2> TAKE j \in 1 .. Len(l) - 1
  <2>1. CASE j < i
    BY <1>1, <1>3, <1>4, <2>1
  <2>2. CASE ~ (j < i)
    <3>1. j - (i - 1) \in 1 .. (Len(l) - i) /\ i + (j - (i - 1)) = j + 1
      BY <1>3, <2>2
    <3>2. b[j - (i - 1)] = l[j + 1]
      BY <1>1, <3>1
    <3> QED
      BY <1>3, <1>4, <2>2, <3>2
  <2> QED
    BY <2>1, <2>2
<1> QED
  BY <1>2, <1>4, <1>5 DEF Without

\* Taking an item out of the queue takes it out of the line.
LEMMA RemoveFromQueue ==
  ASSUME NEW q \in Seq(Items), NEW r \in Seq(Items), NEW t \in Seq(Items),
         NEW i \in 1 .. Len(q), Without(r, q, i)
  PROVE  Without(r \o t, q \o t, i)
<1>1. Len(q) \in Nat /\ Len(t) \in Nat /\ Len(r) = Len(q) - 1
  BY DEF Without
<1>2. Len(r \o t) = Len(q \o t) - 1 /\ Len(r \o t) = Len(q) + Len(t) - 1
  <2>1. Len(r \o t) = Len(r) + Len(t) /\ Len(q \o t) = Len(q) + Len(t)
    BY LineParts
  <2> QED
    BY <1>1, <2>1
<1>3. ASSUME NEW j \in 1 .. Len(q) + Len(t) - 1
      PROVE  (r \o t)[j] = IF j < i THEN (q \o t)[j] ELSE (q \o t)[j + 1]
  <2>1. /\ (r \o t)[j] = IF j <= Len(q) - 1 THEN r[j] ELSE t[j - (Len(q) - 1)]
        /\ (q \o t)[j] = IF j <= Len(q) THEN q[j] ELSE t[j - Len(q)]
        /\ (q \o t)[j + 1] = IF j + 1 <= Len(q) THEN q[j + 1] ELSE t[j + 1 - Len(q)]
    <3>1. /\ j \in 1 .. Len(r) + Len(t) /\ j \in 1 .. Len(q) + Len(t)
          /\ j + 1 \in 1 .. Len(q) + Len(t)
      BY <1>1
    <3>2. (r \o t)[j] = IF j <= Len(r) THEN r[j] ELSE t[j - Len(r)]
      BY <3>1, LineParts
    <3>3. /\ (q \o t)[j] = IF j <= Len(q) THEN q[j] ELSE t[j - Len(q)]
          /\ (q \o t)[j + 1] = IF j + 1 <= Len(q) THEN q[j + 1] ELSE t[j + 1 - Len(q)]
      BY <3>1, LineParts
    <3> QED
      BY <1>1, <3>2, <3>3
  <2>2. CASE j <= Len(q) - 1
    <3>1. r[j] = IF j < i THEN q[j] ELSE q[j + 1]
      BY <1>1, <2>2 DEF Without
    <3> QED
      BY <1>1, <2>1, <2>2, <3>1
  <2>3. CASE ~ (j <= Len(q) - 1)
    <3>1. j - (Len(q) - 1) = j + 1 - Len(q) /\ ~ (j < i) /\ ~ (j + 1 <= Len(q))
      BY <1>1, <2>3
    <3> QED
      BY <2>1, <2>3, <3>1
  <2> QED
    BY <2>2, <2>3
<1> QED
  BY <1>2, <1>3 DEF Without

\* An item taken off the head of the producer's list leaves the line.
LEMMA RemoveFromList ==
  ASSUME NEW q \in Seq(Items), NEW t \in Seq(Items), t # <<>>
  PROVE  Without(q \o Tail(t), q \o t, Len(q) + 1) /\ Len(q) + 1 \in 1 .. Len(q \o t)
<1>1. /\ Len(q) \in Nat /\ Len(t) \in Nat /\ Len(t) >= 1
      /\ Tail(t) \in Seq(Items) /\ Len(Tail(t)) = Len(t) - 1
      /\ \A j \in 1 .. Len(t) - 1 : Tail(t)[j] = t[j + 1]
  BY TailType
<1> DEFINE r == Tail(t)
<1> HIDE DEF r
<1>2. r \in Seq(Items) /\ Len(r) = Len(t) - 1 /\ \A j \in 1 .. Len(t) - 1 : r[j] = t[j + 1]
  BY <1>1 DEF r
<1>3. Len(q \o t) = Len(q) + Len(t) /\ Len(q \o r) = Len(q) + Len(r)
  BY <1>2, LineParts
<1>4. ASSUME NEW j \in 1 .. Len(q) + Len(r)
      PROVE  (q \o r)[j] = IF j < Len(q) + 1 THEN (q \o t)[j] ELSE (q \o t)[j + 1]
  <2>1. /\ (q \o r)[j] = IF j <= Len(q) THEN q[j] ELSE r[j - Len(q)]
        /\ (q \o t)[j] = IF j <= Len(q) THEN q[j] ELSE t[j - Len(q)]
        /\ (q \o t)[j + 1] = IF j + 1 <= Len(q) THEN q[j + 1] ELSE t[j + 1 - Len(q)]
    BY <1>1, <1>2, LineParts
  <2>2. CASE j <= Len(q)
    BY <1>1, <2>1, <2>2
  <2>3. CASE ~ (j <= Len(q))
    <3>1. /\ j - Len(q) \in 1 .. Len(t) - 1 /\ (j - Len(q)) + 1 = j + 1 - Len(q)
          /\ ~ (j < Len(q) + 1) /\ ~ (j + 1 <= Len(q))
      BY <1>1, <1>2, <2>3
    <3>2. r[j - Len(q)] = t[j + 1 - Len(q)]
      BY <1>2, <3>1
    <3> QED
      BY <2>1, <2>3, <3>1, <3>2
  <2> QED
    BY <2>2, <2>3
<1>5. Without(q \o r, q \o t, Len(q) + 1)
  BY <1>1, <1>2, <1>3, <1>4 DEF Without
<1> QED
  BY <1>1, <1>3, <1>5 DEF r

\* An item that goes from the producer's list to the queue stays where it is.
LEMMA MoveToQueue ==
  ASSUME NEW q \in Seq(Items), NEW t \in Seq(Items), t # <<>>
  PROVE  Append(q, Head(t)) \o Tail(t) = q \o t
  OBVIOUS

\* Items numbered after the last one go behind the queue.
LEMMA NewInLine ==
  ASSUME NEW q \in Seq(Items), NEW t \in Seq(Items), NEW last \in Nat, InLine(q, last),
         \A i \in 1 .. Len(t) : t[i].number = last + i
  PROVE  InLine(q \o t, last + Len(t))
<1>1. Len(q) \in Nat /\ Len(t) \in Nat /\ Len(q \o t) = Len(q) + Len(t)
  BY LineParts
<1>2. \A i \in 1 .. Len(q) : q[i].number \in Nat /\ q[i].number <= last
  <2>1. \A i \in 1 .. Len(q) : q[i] \in Items
    OBVIOUS
  <2>2. \A item \in Items : item.number \in Nat
    BY DEF Items
  <2> QED
    BY <2>1, <2>2 DEF InLine
<1>3. ASSUME NEW i \in 1 .. Len(q) + Len(t)
      PROVE  (q \o t)[i].number = IF i <= Len(q) THEN q[i].number ELSE last + (i - Len(q))
  <2>1. (q \o t)[i] = IF i <= Len(q) THEN q[i] ELSE t[i - Len(q)]
    BY LineParts
  <2>2. ~ (i <= Len(q)) => i - Len(q) \in 1 .. Len(t)
    BY <1>1
  <2> QED
    BY <2>1, <2>2
<1>4. \A i \in 1 .. Len(q) + Len(t) : (q \o t)[i].number <= last + Len(t)
  BY <1>1, <1>2, <1>3
<1>5. ASSUME NEW i \in 1 .. Len(q) + Len(t), NEW j \in 1 .. Len(q) + Len(t), i < j
      PROVE  (q \o t)[i].number < (q \o t)[j].number
  <2>1. CASE j <= Len(q)
    <3>1. i \in 1 .. Len(q) /\ j \in 1 .. Len(q) /\ q[i].number < q[j].number
      BY <1>1, <1>5, <2>1 DEF InLine
    <3> QED
      BY <1>3, <2>1, <3>1
  <2>2. CASE ~ (j <= Len(q))
    BY <1>1, <1>2, <1>3, <1>5, <2>2
  <2> QED
    BY <2>1, <2>2
<1> QED
  BY <1>1, <1>4, <1>5 DEF InLine

LEMMA OrderedInit == Init => Ordered
<1> SUFFICES ASSUME Init, NEW k \in Queues PROVE InLine(Line(k), made[k])
  BY DEF Ordered
<1>1. queue[k] = <<>> /\ todo[k] = <<>>
  BY Bounds DEF Init
<1>2. Len(Line(k)) = 0
  BY <1>1 DEF Line
<1> QED
  BY <1>2 DEF InLine

\* When an item leaves a line, what is left is still in line.
LEMMA LeavesLine ==
  ASSUME Typed, Typed', Ordered, NEW k \in Queues, made'[k] = made[k],
         NEW i \in 1 .. Len(Line(k)), Without(Line(k)', Line(k), i)
  PROVE  InLine(Line(k)', made'[k])
<1>1. Line(k) \in Seq(Items) /\ made[k] \in Nat /\ InLine(Line(k), made[k])
  BY Bounds, LineParts DEF Typed, TypeOK, Ordered, Line
<1>2. Line(k)' \in Seq(Items)
  BY Bounds, LineParts DEF Typed, TypeOK, Line
<1> QED
  BY <1>1, <1>2, WithoutInLine

LEMMA OrderedStep == Typed /\ Ordered /\ [Next]_vars => Ordered'
<1> SUFFICES ASSUME Typed, Ordered, [Next]_vars, NEW k \in Queues
             PROVE  InLine(Line(k)', made'[k])
  BY DEF Ordered
<1> DEFINE Goal == InLine(Line(k)', made'[k])
<1>a. Typed'
  BY StepType
<1>b. /\ k \in Workers /\ queue[k] \in Seq(Items) /\ todo[k] \in Seq(Items) /\ made[k] \in Nat
      /\ queue \in [Queues -> Seq(Items)] /\ todo \in [Workers -> Seq(Items)]
      /\ made \in [Workers -> Nat] /\ InLine(Line(k), made[k])
  BY Bounds DEF Typed, TypeOK, Ordered
<1>c. Len(queue[k]) \in Nat /\ Len(Line(k)) = Len(queue[k]) + Len(todo[k])
  BY <1>b, LineParts DEF Line
<1>d. 1 .. Len(queue[k]) \subseteq 1 .. Len(Line(k))
  BY <1>b, <1>c
<1>1. CASE queue'[k] = queue[k] /\ todo'[k] = todo[k] /\ made'[k] = made[k]
  BY <1>b, <1>1 DEF Line
<1>2. ASSUME NEW w \in Workers, Get(w) PROVE Goal
  <2>1. todo'[k] = todo[k] /\ made'[k] = made[k]
    BY <1>2 DEF Get
  <2>2. CASE k # w - 1
    <3>1. queue'[k] = queue[k]
      BY <1>b, <1>2, <2>2, Bounds DEF Get
    <3> QED
      BY <1>1, <2>1, <3>1
  <2>3. CASE k = w - 1
    <3>1. queue'[k] = Tail(queue[k]) /\ queue[k] # <<>>
      BY <1>b, <1>2, <2>3 DEF Get
    <3>2. Tail(queue[k]) \in Seq(Items) /\ Without(Tail(queue[k]), queue[k], 1)
      BY <1>b, <3>1, TailType DEF Without
    <3>3. 1 \in 1 .. Len(queue[k])
      BY <1>b, <3>1
    <3>4. Without(Line(k)', Line(k), 1)
      BY <1>b, <2>1, <3>1, <3>2, <3>3, RemoveFromQueue DEF Line
    <3> QED
      BY <1>a, <1>d, <2>1, <3>3, <3>4, LeavesLine
  <2> QED
    BY <2>2, <2>3
<1>3. ASSUME NEW w \in Queues, Overload(w) PROVE Goal
  <2>1. todo'[k] = todo[k] /\ made'[k] = made[k]
    BY <1>3 DEF Overload
  <2>2. CASE queue[w] = <<>> \/ w # k
    <3>1. queue'[k] = queue[k]
      BY <1>b, <1>3, <2>2 DEF Overload
    <3> QED
      BY <1>1, <2>1, <3>1
  <2>3. CASE queue[w] # <<>> /\ w = k
    <3> DEFINE i == Victim(k)
               r == RemoveAt(queue[k], i)
    <3>1. queue'[k] = r
      BY <1>b, <1>3, <2>3 DEF Overload
    <3>2. i \in 1 .. Len(queue[k])
      BY <1>b, <2>3, VictimType
    <3>3. r \in Seq(Items) /\ Without(r, queue[k], i)
      BY <1>b, <3>2, RemoveAtType, RemoveAtParts
    <3> HIDE DEF i, r
    <3>4. Without(Line(k)', Line(k), i)
      BY <1>b, <2>1, <3>1, <3>2, <3>3, RemoveFromQueue DEF Line
    <3> QED
      BY <1>a, <1>d, <2>1, <3>2, <3>4, LeavesLine
  <2> QED
    BY <2>2, <2>3
<1>4. ASSUME NEW w \in Queues, Insert(w) PROVE Goal
  <2>1. /\ queue' = [queue EXCEPT ![w] = Append(@, Head(todo[w]))]
        /\ todo' = [todo EXCEPT ![w] = Tail(@)] /\ made'[k] = made[k]
    BY <1>4 DEF Insert, PutReturns
  <2>2. CASE w # k
    <3>1. queue'[k] = queue[k] /\ todo'[k] = todo[k]
      BY <1>b, <2>1, <2>2
    <3> QED
      BY <1>1, <2>1, <3>1
  <2>3. CASE w = k
    <3>1. queue'[k] = Append(queue[k], Head(todo[k])) /\ todo'[k] = Tail(todo[k])
      BY <1>b, <2>1, <2>3
    <3>2. todo[k] # <<>>
      BY <1>b, <1>4, <2>3 DEF Insert, At, Typed, InHand, Putting
    <3>3. Line(k)' = Line(k)
      BY <1>b, <3>1, <3>2, MoveToQueue DEF Line
    <3> QED
      BY <1>b, <2>1, <3>3
  <2> QED
    BY <2>2, <2>3
<1>5. ASSUME NEW w \in Queues, Refuse(w) PROVE Goal
  <2>1. /\ queue'[k] = queue[k] /\ todo' = [todo EXCEPT ![w] = Tail(@)] /\ made'[k] = made[k]
    BY <1>5 DEF Refuse, PutReturns
  <2>2. CASE w # k
    <3>1. todo'[k] = todo[k]
      BY <1>b, <2>1, <2>2
    <3> QED
      BY <1>1, <2>1, <3>1
  <2>3. CASE w = k
    <3>1. todo'[k] = Tail(todo[k]) /\ todo[k] # <<>>
      BY <1>b, <1>5, <2>1, <2>3 DEF Refuse, At, Typed, InHand, Putting
    <3>2. /\ Without(queue[k] \o Tail(todo[k]), Line(k), Len(queue[k]) + 1)
          /\ Len(queue[k]) + 1 \in 1 .. Len(Line(k))
      BY <1>b, <3>1, RemoveFromList DEF Line
    <3>3. Line(k)' = queue[k] \o Tail(todo[k])
      BY <2>1, <3>1 DEF Line
    <3> QED
      BY <1>a, <2>1, <3>2, <3>3, LeavesLine
  <2> QED
    BY <2>2, <2>3
<1>6. ASSUME NEW w \in Workers, NEW items \in Seq(Items), Make(w, items), UNCHANGED queue,
             pc[w] \notin Putting, \A i \in 1 .. Len(items) : items[i].number = made[w] + i
      PROVE  Goal
  <2>1. CASE w # k
    <3>1. todo'[k] = todo[k] /\ made'[k] = made[k]
      BY <1>b, <1>6, <2>1 DEF Make
    <3> QED
      BY <1>1, <1>6, <3>1
  <2>2. CASE w = k
    <3>1. todo'[k] = items /\ made'[k] = made[k] + Len(items) /\ queue'[k] = queue[k]
      BY <1>b, <1>6, <2>2 DEF Make
    <3>2. todo[k] = <<>>
      BY <1>b, <1>6, <2>2 DEF Typed, InHand
    <3>3. InLine(queue[k], made[k])
      <4>1. Line(k) = queue[k]
        BY <1>b, <3>2 DEF Line
      <4> QED
        BY <1>b, <4>1
    <3>4. InLine(queue[k] \o items, made[k] + Len(items))
      BY <1>b, <1>6, <2>2, <3>3, NewInLine
    <3> QED
      BY <3>1, <3>4 DEF Line
  <2> QED
    BY <2>1, <2>2
<1>7. ASSUME NEW w \in Workers, NEW n \in 0 .. MaxOutputs, NEW partial \in BOOLEAN,
             Process(w, n, partial)
      PROVE  Goal
  <2> DEFINE items == [i \in 1 .. n |-> Item(made[w] + i, partial)]
  <2>1. items \in Seq(Items) /\ \A i \in 1 .. Len(items) : items[i].number = made[w] + i
    BY <1>b, Bounds DEF Item, Items
  <2>2. Make(w, items) /\ UNCHANGED queue /\ pc[w] \notin Putting
    BY <1>7 DEF Process, At, Putting
  <2> HIDE DEF items
  <2> QED
    BY <1>6, <2>1, <2>2
<1>8. CASE Capture
  <2> DEFINE items == <<Item(made[1] + 1, FALSE)>>
  <2>1. items \in Seq(Items) /\ \A i \in 1 .. Len(items) : items[i].number = made[1] + i
    BY <1>b, Bounds DEF Item, Items
  <2>2. Make(1, items) /\ UNCHANGED queue /\ pc[1] \notin Putting
    BY <1>8 DEF Capture, At, Putting
  <2> HIDE DEF items
  <2> QED
    BY <1>6, <2>1, <2>2, Bounds
<1>9. ASSUME UNCHANGED <<queue, todo, made>> PROVE Goal
  BY <1>1, <1>9
<1>10. ASSUME NEW w \in Workers, Loop(w) \/ GetNothing(w) PROVE Goal
  BY <1>9, <1>10 DEF Loop, GetNothing
<1>11. ASSUME NEW w \in Queues, Check(w) PROVE Goal
  BY <1>9, <1>11 DEF Check
<1>12. CASE Silence \/ Stop \/ UNCHANGED vars
  BY <1>9, <1>12 DEF Silence, Stop, vars
<1> QED
  BY <1>2, <1>3, <1>4, <1>5, <1>7, <1>8, <1>10, <1>11, <1>12 DEF Next, Step, Finished

\* Making room never reorders: a queue holds its items as they were made, all
\* older than what its producer has still to put.
THEOREM PipelineOrder == Spec => []QueueInOrder
<1>1. Ordered => QueueInOrder
  BY DEF Ordered, QueueInOrder, InLine, Line
<1> QED
  BY <1>1, InitType, StepType, OrderedInit, OrderedStep, PTL DEF Spec
=============================================================================
