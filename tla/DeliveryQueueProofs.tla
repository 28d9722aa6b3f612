------------------------- MODULE DeliveryQueueProofs -------------------------
(* Theorems about DeliveryQueue, for every value of its constants. *)
EXTENDS DeliveryQueue, SequenceTheorems, TLAPS

Inv == TypeOK /\ OnePlace

LEMMA TailFacts ==
  ASSUME NEW S, NEW s \in Seq(S), s # <<>>
  PROVE  /\ Tail(s) \in Seq(S) /\ Head(s) = s[1] /\ 1 \in DOMAIN s /\ Head(s) \in S
         /\ \A i \in DOMAIN Tail(s) : i + 1 \in DOMAIN s /\ Tail(s)[i] = s[i + 1] /\ i \in Nat
  OBVIOUS

LEMMA AppendFacts ==
  ASSUME NEW S, NEW s \in Seq(S), NEW x \in S
  PROVE  /\ Append(s, x) \in Seq(S)
         /\ DOMAIN Append(s, x) = DOMAIN s \cup {Len(s) + 1} /\ Len(s) + 1 \notin DOMAIN s
         /\ Append(s, x)[Len(s) + 1] = x
         /\ \A i \in DOMAIN s : Append(s, x)[i] = s[i]
  OBVIOUS

LEMMA PrependFacts ==
  ASSUME NEW S, NEW s \in Seq(S), NEW x \in S
  PROVE  /\ <<x>> \o s \in Seq(S) /\ (<<x>> \o s)[1] = x
         /\ \A i \in DOMAIN (<<x>> \o s) :
              i # 1 => i - 1 \in DOMAIN s /\ (<<x>> \o s)[i] = s[i - 1]
  OBVIOUS

LEMMA FrontFacts ==
  ASSUME NEW S, NEW s \in Seq(S), s # <<>>
  PROVE  /\ Front(s) \in Seq(S) /\ Last(s) = s[Len(s)] /\ Len(s) \in DOMAIN s /\ Last(s) \in S
         /\ DOMAIN Front(s) = 1..(Len(s) - 1)
         /\ \A i \in DOMAIN Front(s) : i \in DOMAIN s /\ Front(s)[i] = s[i] /\ i # Len(s)
  <1>1. Len(s) \in Nat /\ Len(s) # 0 /\ DOMAIN s = 1..Len(s) /\ s[Len(s)] \in S
    OBVIOUS
  <1>2. \A i \in 1..(Len(s) - 1) : s[i] \in S
    OBVIOUS
  <1>4. /\ SubSeq(s, 1, Len(s) - 1) \in Seq(S)
        /\ Len(SubSeq(s, 1, Len(s) - 1)) = Len(s) - 1
        /\ \A i \in 1..(Len(s) - 1) : SubSeq(s, 1, Len(s) - 1)[i] = s[i]
    BY <1>1, <1>2, SubSeqProperties
  <1>3. Front(s) = SubSeq(s, 1, Len(s) - 1) /\ Last(s) = s[Len(s)]
    BY DEF Front, Last
  <1> QED
    BY <1>1, <1>3, <1>4

LEMMA SubSeqFacts ==
  ASSUME NEW S, NEW s \in Seq(S), NEW from \in 1..Len(s), NEW to \in 0..Len(s)
  PROVE  /\ SubSeq(s, from, to) \in Seq(S)
         /\ \A i \in DOMAIN SubSeq(s, from, to) :
              /\ i + from - 1 \in DOMAIN s /\ i \in Nat
              /\ SubSeq(s, from, to)[i] = s[i + from - 1]
  <1> DEFINE r == SubSeq(s, from, to)
  <1>1. \A i \in from..to : s[i] \in S
    OBVIOUS
  <1>2. r \in Seq(S) /\ Len(r) = IF from <= to THEN to - from + 1 ELSE 0
    BY <1>1, SubSeqProperties
  <1>3. \A i \in 1..Len(r) : r[i] = s[from + i - 1]
    BY <1>1, SubSeqProperties
  <1> QED
    BY <1>2, <1>3
-----------------------------------------------------------------------------
(* One sequence of a family is replaced: it loses elements at its front or  *)
(* its end, gains one at either, or gets one for None.                      *)
Shifted(f, g, k, d) ==
  /\ \A j \in DOMAIN f : j # k => g[j] = f[j]
  /\ \A m \in DOMAIN g[k] : m + d \in DOMAIN f[k] /\ g[k][m] = f[k][m + d]

Extended(f, g, k, x, n, d) ==
  /\ \A j \in DOMAIN f : j # k => g[j] = f[j]
  /\ \A m \in DOMAIN g[k] :
       IF m = n THEN g[k][m] = x ELSE m + d \in DOMAIN f[k] /\ g[k][m] = f[k][m + d]

Filled(c, i, e) ==
  /\ \A d \in Consumers : d # c => open'[d] = open[d]
  /\ DOMAIN open'[c] = DOMAIN open[c] /\ i \in DOMAIN open[c]
  /\ open[c][i].value = None /\ open'[c][i].value = e
  /\ \A m \in DOMAIN open[c] : m # i => open'[c][m] = open[c][m]

Emptied(c, d) ==
  /\ \A b \in Consumers : b # c => open'[b] = open[b]
  /\ \A m \in DOMAIN open'[c] :
       \/ open'[c][m].value = None
       \/ m + d \in DOMAIN open[c] /\ open'[c][m].value = open[c][m + d].value

LEMMA SeqFacts ==
  \A S : \A s \in Seq(S) : \A m \in DOMAIN s : m \in Nat \ {0} /\ s[m] \in S
  OBVIOUS

Answers == [key : Keys \cup {Nowhere}, left : BOOLEAN, value : Elements]

LEMMA IndexFacts ==
  ASSUME TypeOK
  PROVE  /\ \A key \in Keys : \A m \in DOMAIN queue[key] : m \in Nat \ {0} /\ queue[key][m] \in Elements
         /\ \A c \in Consumers : \A m \in DOMAIN open[c] : m \in Nat \ {0} /\ open[c][m] \in Slots
         /\ \A c \in Consumers : \A m \in DOMAIN received[c] :
              m \in Nat \ {0} /\ received[c][m].value \in Elements
         /\ DOMAIN queue = Keys /\ DOMAIN open = Consumers /\ DOMAIN received = Consumers
  <1>1. \A c \in Consumers : \A m \in DOMAIN received[c] :
          m \in Nat \ {0} /\ received[c][m] \in Answers
    BY SeqFacts DEF TypeOK, Answers
  <1> QED
    BY <1>1, SeqFacts DEF TypeOK, Answers

LEMMA QueueShrinks ==
  ASSUME TypeOK, queue' \in [Keys -> Seq(Elements)], QueuedOnce, NEW key \in Keys, NEW d \in Int, Shifted(queue, queue', key, d)
  PROVE  /\ QueuedOnce'
         /\ \A e : Queued(e)' => Queued(e)
  <1>1. /\ \A k \in Keys : \A m \in DOMAIN queue[k] : m \in Nat
        /\ \A k \in Keys : \A m \in DOMAIN queue'[k] : m \in Nat
        /\ DOMAIN queue = Keys
    BY SeqFacts DEF TypeOK
  <1>2. \A k \in Keys : \A m \in DOMAIN queue'[k] :
          IF k = key THEN m + d \in DOMAIN queue[k] /\ queue'[k][m] = queue[k][m + d]
          ELSE m \in DOMAIN queue[k] /\ queue'[k][m] = queue[k][m]
    BY <1>1 DEF Shifted
  <1>3. QueuedOnce'
    BY <1>1, <1>2 DEF QueuedOnce
  <1>4. \A e : Queued(e)' => Queued(e)
    BY <1>2 DEF Queued
  <1> QED
    BY <1>3, <1>4

LEMMA QueueGrows ==
  ASSUME TypeOK, TypeOK', QueuedOnce, NEW key \in Keys, NEW e, NEW n, NEW d \in Int, ~ Queued(e),
         Extended(queue, queue', key, e, n, d)
  PROVE  /\ QueuedOnce'
         /\ \A x : Queued(x)' => Queued(x) \/ x = e
  <1>1. /\ \A k \in Keys : \A m \in DOMAIN queue[k] : m \in Nat
        /\ \A k \in Keys : \A m \in DOMAIN queue'[k] : m \in Nat
        /\ DOMAIN queue = Keys
    BY SeqFacts DEF TypeOK
  <1>2. \A k \in Keys : \A m \in DOMAIN queue'[k] :
          IF k # key THEN m \in DOMAIN queue[k] /\ queue'[k][m] = queue[k][m]
          ELSE IF m = n THEN queue'[k][m] = e
          ELSE m + d \in DOMAIN queue[k] /\ queue'[k][m] = queue[k][m + d]
    BY <1>1 DEF Extended
  <1>3. \A k \in Keys : \A m \in DOMAIN queue[k] : queue[k][m] # e
    BY DEF Queued
  <1>4. QueuedOnce'
    BY <1>1, <1>2, <1>3 DEF QueuedOnce
  <1>5. \A x : Queued(x)' => Queued(x) \/ x = e
    BY <1>2 DEF Queued
  <1> QED
    BY <1>4, <1>5

(* Calls are made, return or fail: nothing is given.                        *)
LEMMA CallsShrink ==
  ASSUME TypeOK, TypeOK', GivenOnce, NEW c \in Consumers, NEW d \in Int, Emptied(c, d)
  PROVE  /\ GivenOnce'
         /\ \A e : e # None => (Given(e)' => Given(e))
  <1>1. /\ \A k \in Consumers : \A m \in DOMAIN open[k] : m \in Nat
        /\ \A k \in Consumers : \A m \in DOMAIN open'[k] : m \in Nat
    BY SeqFacts DEF TypeOK
  <1>2. \A k \in Consumers : \A m \in DOMAIN open'[k] : open'[k][m].value # None =>
          IF k = c THEN m + d \in DOMAIN open[k] /\ open'[k][m].value = open[k][m + d].value
          ELSE m \in DOMAIN open[k] /\ open'[k][m].value = open[k][m].value
    BY DEF Emptied
  <1>3. GivenOnce'
    BY <1>1, <1>2 DEF GivenOnce
  <1>4. \A e : e # None => (Given(e)' => Given(e))
    BY <1>2 DEF Given
  <1> QED
    BY <1>3, <1>4

LEMMA CallGiven ==
  ASSUME TypeOK, TypeOK', GivenOnce, NEW c \in Consumers, NEW i, NEW e, ~ Given(e), Filled(c, i, e)
  PROVE  /\ GivenOnce'
         /\ \A x : Given(x)' => Given(x) \/ x = e
  <1>1. \A k \in Consumers : \A m \in DOMAIN open'[k] :
          \/ m \in DOMAIN open[k] /\ open'[k][m].value = open[k][m].value /\ open'[k][m].value # e
          \/ k = c /\ m = i /\ open'[k][m].value = e
    BY DEF Filled, Given
  <1>2. GivenOnce'
    BY <1>1 DEF GivenOnce
  <1>3. \A x : Given(x)' => Given(x) \/ x = e
    BY <1>1 DEF Given
  <1> QED
    BY <1>2, <1>3

LEMMA AnswersGrow ==
  ASSUME TypeOK, TypeOK', ReturnedOnce, NEW c \in Consumers, NEW x, NEW n, ~ Returned(x.value),
         Extended(received, received', c, x, n, 0)
  PROVE  /\ ReturnedOnce'
         /\ \A e : Returned(e)' => Returned(e) \/ e = x.value
  <1>1. DOMAIN received = Consumers
    BY DEF TypeOK
  <1>2. \A m \in DOMAIN received'[c] : m + 0 = m
    BY SeqFacts DEF TypeOK
  <1>3. \A k \in Consumers : \A m \in DOMAIN received'[k] :
          \/ /\ m \in DOMAIN received[k] /\ received'[k][m] = received[k][m]
             /\ received'[k][m].value # x.value
          \/ k = c /\ m = n /\ received'[k][m] = x
    BY <1>1, <1>2 DEF Extended, Returned
  <1>4. ReturnedOnce'
    BY <1>3 DEF ReturnedOnce
  <1>5. \A e : Returned(e)' => Returned(e) \/ e = x.value
    BY <1>3 DEF Returned
  <1> QED
    BY <1>4, <1>5

-----------------------------------------------------------------------------
(* The steps. *)

LEMMA InitHolds == Init => Inv
  <1> SUFFICES ASSUME Init PROVE Inv
    OBVIOUS
  <1>1. /\ \A key \in Keys : queue[key] = <<>>
        /\ \A c \in Consumers : open[c] = <<>> /\ received[c] = <<>>
    BY DEF Init
  <1>2. TypeOK
    BY DEF Init, TypeOK
  <1>3. OnePlace
    BY <1>1 DEF OnePlace, QueuedOnce, GivenOnce, ReturnedOnce, Queued, Given, Returned
  <1> QED
    BY <1>2, <1>3 DEF Inv

(* Only calls change, and nothing is given.                                 *)
LEMMA SettledHolds ==
  ASSUME None \notin Elements, Inv, TypeOK', GivenOnce', \A e : e # None => (Given(e)' => Given(e)),
         UNCHANGED <<queue, received>>
  PROVE  Inv'
  <1>1. QueuedOnce' /\ ReturnedOnce'
    BY DEF Inv, OnePlace, QueuedOnce, ReturnedOnce
  <1>2. \A e : (Queued(e)' <=> Queued(e)) /\ (Returned(e)' <=> Returned(e))
    BY DEF Queued, Returned
  <1> QED
    BY <1>1, <1>2 DEF Inv, OnePlace

LEMMA CallHolds ==
  ASSUME None \notin Elements, Inv, NEW c \in Consumers, NEW key \in Keys \cup {Nowhere},
         NEW left \in BOOLEAN, Call(c, key, left)
  PROVE  Inv'
  <1> DEFINE x == [key |-> key, left |-> left, value |-> None]
  <1>1. TypeOK /\ x \in Slots /\ open[c] \in Seq(Slots)
    BY DEF Inv, TypeOK, Slots
  <1>2. /\ open'[c] = Append(open[c], x) /\ x.value = None
        /\ \A b \in Consumers : b # c => open'[b] = open[b]
    BY <1>1 DEF Call, TypeOK
  <1> HIDE DEF x
  <1>3. TypeOK'
    BY <1>1, AppendFacts DEF Call, TypeOK, x
  <1>4. Emptied(c, 0)
    <2>1. \A m \in DOMAIN open[c] : m + 0 = m
      BY <1>1
    <2>2. /\ DOMAIN open'[c] = DOMAIN open[c] \cup {Len(open[c]) + 1}
          /\ open'[c][Len(open[c]) + 1] = x
          /\ \A m \in DOMAIN open[c] : open'[c][m] = open[c][m]
      BY <1>1, <1>2, AppendFacts
    <2> QED
      BY <1>2, <2>1, <2>2 DEF Emptied
  <1>5. GivenOnce' /\ \A e : e # None => (Given(e)' => Given(e))
    BY <1>3, <1>4, CallsShrink DEF Inv, OnePlace
  <1>6. UNCHANGED <<queue, received>>
    BY DEF Call
  <1> QED
    BY <1>3, <1>5, <1>6, SettledHolds

LEMMA FailHolds ==
  ASSUME None \notin Elements, Inv, NEW c \in Consumers, Fail(c)
  PROVE  Inv'
  <1>1. open \in [Consumers -> Seq(Slots)] /\ \A m \in DOMAIN open[c] : open[c][m] \in Slots /\ m \in Nat
    BY SeqFacts DEF Inv, TypeOK
  <1>2. PICK calls \in Seq(Slots) :
          /\ open' = [open EXCEPT ![c] = calls]
          /\ \A m \in DOMAIN calls : calls[m].value = None
    <2>1. CASE open' = [open EXCEPT ![c] = <<>>]
      <3> <<>> \in Seq(Slots) /\ DOMAIN <<>> = {}
        OBVIOUS
      <3> QED
        BY <2>1
    <2>2. CASE open' = [open EXCEPT ![c] = [i \in DOMAIN @ |-> [@[i] EXCEPT !.value = None]]]
      <3> DEFINE calls == [i \in DOMAIN open[c] |-> [open[c][i] EXCEPT !.value = None]]
      <3>1. \A x \in Slots : [x EXCEPT !.value = None] \in Slots /\ [x EXCEPT !.value = None].value = None
        BY DEF Slots
      <3>2. \A i \in DOMAIN open[c] : calls[i] \in Slots /\ calls[i].value = None
        BY <1>1, <3>1
      <3>3. Len(open[c]) \in Nat /\ DOMAIN open[c] = 1..Len(open[c])
        BY <1>1
      <3> HIDE DEF calls
      <3>4. calls \in Seq(Slots) /\ DOMAIN calls = DOMAIN open[c]
        <4>1. calls = [i \in 1..Len(open[c]) |-> [open[c][i] EXCEPT !.value = None]]
          BY <3>3 DEF calls
        <4>2. \A i \in 1..Len(open[c]) : [open[c][i] EXCEPT !.value = None] \in Slots
          BY <1>1, <3>1, <3>3
        <4> QED
          BY <3>3, <4>1, <4>2, IsASeq
      <3>5. open' = [open EXCEPT ![c] = calls]
        BY <2>2 DEF calls
      <3> QED
        BY <3>2, <3>4, <3>5
    <2> QED
      BY <2>1, <2>2 DEF Fail
  <1>3. TypeOK'
    BY <1>1, <1>2 DEF Fail, Inv, TypeOK
  <1>4. Emptied(c, 0)
    BY <1>1, <1>2 DEF Emptied
  <1>5. GivenOnce' /\ \A e : e # None => (Given(e)' => Given(e))
    BY <1>3, <1>4, CallsShrink DEF Inv, OnePlace
  <1> QED
    BY <1>3, <1>5, SettledHolds DEF Fail

LEMMA ReturnHolds ==
  ASSUME None \notin Elements, Inv, NEW c \in Consumers, Return(c)
  PROVE  Inv'
  <1>1. TypeOK /\ open[c] \in Seq(Slots) /\ open[c] # <<>>
    BY DEF Inv, TypeOK, Return
  <1>2. PICK x \in Slots : x = Head(open[c])
    BY <1>1
  <1>3. /\ Tail(open[c]) \in Seq(Slots) /\ x = open[c][1] /\ 1 \in DOMAIN open[c]
        /\ \A i \in DOMAIN Tail(open[c]) :
             i + 1 \in DOMAIN open[c] /\ Tail(open[c])[i] = open[c][i + 1] /\ i \in Nat \ {0}
    BY <1>1, <1>2, TailFacts, SeqFacts
  <1>4. /\ open' \in [Consumers -> Seq(Slots)] /\ open'[c] = Tail(open[c])
        /\ \A b \in Consumers : b # c => open'[b] = open[b]
    BY <1>1, <1>3 DEF Return, TypeOK
  <1>5. Emptied(c, 1)
    BY <1>3, <1>4 DEF Emptied
  <1>6. CASE UNCHANGED received
    <2>1. TypeOK'
      BY <1>1, <1>4, <1>6 DEF Return, TypeOK
    <2>2. GivenOnce' /\ \A e : e # None => (Given(e)' => Given(e))
      BY <1>5, <2>1, CallsShrink DEF Inv, OnePlace
    <2> QED
      BY <1>6, <2>1, <2>2, SettledHolds DEF Return
  <1>7. CASE x.value # None /\ received' = [received EXCEPT ![c] = Append(@, x)]
    <2>1. x \in Answers /\ received[c] \in Seq(Answers)
      BY <1>1, <1>7 DEF Slots, TypeOK, Answers
    <2>2. Append(received[c], x) \in Seq(Answers)
      BY <2>1
    <2>3. TypeOK'
      BY <1>1, <1>4, <1>7, <2>2 DEF Return, TypeOK, Answers
    <2>4. GivenOnce' /\ \A e : e # None => (Given(e)' => Given(e))
      BY <1>5, <2>3, CallsShrink DEF Inv, OnePlace
    <2>5. Given(x.value) /\ ~ Returned(x.value) /\ ~ Queued(x.value) /\ x.value \in Elements
      BY <1>3, <1>7, <2>1 DEF Inv, OnePlace, Given, Answers
    <2>6. ~ Given(x.value)'
      <3>1. \A b \in Consumers : \A m \in DOMAIN open'[b] : open'[b][m].value # x.value
        <4> SUFFICES ASSUME NEW b \in Consumers, NEW m \in DOMAIN open'[b], open'[b][m].value = x.value
                     PROVE  FALSE
          OBVIOUS
        <4>1. CASE b = c
          <5>1. /\ m + 1 \in DOMAIN open[c] /\ m + 1 # 1
                /\ open[c][m + 1].value = x.value /\ open[c][1].value = x.value
            <6>1. m \in DOMAIN Tail(open[c]) /\ Tail(open[c])[m].value = x.value
              BY <1>4, <4>1
            <6>2. m \in Nat \ {0} /\ m + 1 \in DOMAIN open[c] /\ Tail(open[c])[m] = open[c][m + 1]
              BY <1>3, <6>1
            <6>3. x = open[c][1]
              BY <1>3
            <6> QED
              BY ONLY <6>1, <6>2, <6>3
          <5>2. \A i, j \in DOMAIN open[c] :
                  open[c][i].value = open[c][j].value /\ open[c][i].value # None => i = j
            BY DEF Inv, OnePlace, GivenOnce
          <5>3. x.value # None /\ 1 \in DOMAIN open[c]
            BY <1>3, <1>7
          <5> QED
            BY <5>1, <5>2, <5>3
        <4>2. CASE b # c
          BY <1>3, <1>4, <1>7, <4>2 DEF Inv, OnePlace, GivenOnce
        <4> QED
          BY <4>1, <4>2
      <3> QED
        BY <3>1 DEF Given
    <2> PICK n : n = Len(received[c]) + 1
      OBVIOUS
    <2>7. Extended(received, received', c, x, n, 0)
      <3>1. /\ \A b \in DOMAIN received : b # c => received'[b] = received[b]
            /\ received'[c] = Append(received[c], x)
        BY <1>1, <1>7 DEF TypeOK
      <3>2. n = Len(received[c]) + 1
        OBVIOUS
      <3>3. /\ DOMAIN received'[c] = DOMAIN received[c] \cup {n} /\ received'[c][n] = x
            /\ \A i \in DOMAIN received[c] : received'[c][i] = received[c][i] /\ i + 0 = i
        BY ONLY <2>1, <3>1, <3>2, AppendFacts
      <3> QED
        BY <3>1, <3>3 DEF Extended
    <2>8. ReturnedOnce' /\ \A e : Returned(e)' => Returned(e) \/ e = x.value
      BY <2>3, <2>5, <2>7, AnswersGrow DEF Inv, OnePlace
    <2>9. QueuedOnce' /\ \A e : Queued(e)' <=> Queued(e)
      BY DEF Return, Inv, OnePlace, QueuedOnce, Queued
    <2> QED
      BY <2>3, <2>4, <2>5, <2>6, <2>8, <2>9 DEF Inv, OnePlace
  <1> QED
    BY <1>2, <1>6, <1>7 DEF Return

LEMMA TrimHolds ==
  ASSUME Inv, NEW key \in Keys, NEW from \in 1..Len(queue[key]), NEW to \in 0..Len(queue[key]),
         Trim(key, from, to)
  PROVE  Inv'
  <1>1. TypeOK /\ queue[key] \in Seq(Elements)
    BY DEF Inv, TypeOK
  <1>2. PICK rest : rest = SubSeq(queue[key], from, to)
    OBVIOUS
  <1>3. /\ rest \in Seq(Elements)
        /\ \A i \in DOMAIN rest : i + (from - 1) \in DOMAIN queue[key] /\ rest[i] = queue[key][i + (from - 1)]
    <2>1. \A i \in Nat : i + from - 1 = i + (from - 1)
      BY <1>1
    <2> QED
      BY <1>1, <1>2, <2>1, SubSeqFacts
  <1>4. queue' = [queue EXCEPT ![key] = rest] /\ UNCHANGED <<open, received>>
    BY <1>2 DEF Trim
  <1>5. TypeOK'
    BY <1>1, <1>3, <1>4 DEF TypeOK
  <1>6. from - 1 \in Int
    BY <1>1
  <1>7. Shifted(queue, queue', key, from - 1)
    BY <1>1, <1>3, <1>4 DEF Shifted, TypeOK
  <1>8. QueuedOnce' /\ \A e : Queued(e)' => Queued(e)
    BY <1>1, <1>5, <1>6, <1>7, QueueShrinks DEF OnePlace, Inv, TypeOK
  <1>9. /\ GivenOnce' /\ ReturnedOnce'
        /\ \A e : (Given(e)' <=> Given(e)) /\ (Returned(e)' <=> Returned(e))
    BY <1>4 DEF Inv, OnePlace, GivenOnce, ReturnedOnce, Given, Returned
  <1> QED
    BY <1>5, <1>8, <1>9 DEF Inv, OnePlace

LEMMA PutHolds ==
  ASSUME Inv, NEW key \in Keys, NEW e \in Elements, Put(key, e)
  PROVE  Inv'
  <1>1. TypeOK /\ queue[key] \in Seq(Elements)
    BY DEF Inv, TypeOK
  <1>2. PICK longer : longer = IF e \in LeftElements THEN <<e>> \o queue[key] ELSE Append(queue[key], e)
    OBVIOUS
  <1>3. PICK n, d \in Int : /\ longer \in Seq(Elements)
                          /\ \A m \in DOMAIN longer :
                               IF m = n THEN longer[m] = e
                               ELSE m + d \in DOMAIN queue[key] /\ longer[m] = queue[key][m + d]
    <2>1. CASE e \in LeftElements
      <3>1. longer \in Seq(Elements) /\ longer[1] = e
        BY <1>1, <1>2, <2>1, PrependFacts
      <3>2. \A m \in DOMAIN longer : m # 1 => m + (-1) \in DOMAIN queue[key] /\ longer[m] = queue[key][m + (-1)]
        <4>1. \A m \in DOMAIN longer : m + (-1) = m - 1
          BY <3>1
        <4> QED
          BY <1>1, <1>2, <2>1, <4>1, PrependFacts
      <3> WITNESS 1 \in Int, -1 \in Int
      <3> QED
        BY <3>1, <3>2
    <2>2. CASE e \notin LeftElements
      <3>1. /\ longer \in Seq(Elements) /\ longer[Len(queue[key]) + 1] = e
            /\ DOMAIN longer = DOMAIN queue[key] \cup {Len(queue[key]) + 1}
            /\ \A m \in DOMAIN queue[key] : longer[m] = queue[key][m] /\ m + 0 = m
        BY <1>1, <1>2, <2>2, AppendFacts
      <3> WITNESS Len(queue[key]) + 1 \in Int, 0 \in Int
      <3> QED
        BY <3>1
    <2> QED
      BY <2>1, <2>2
  <1>4. queue' = [queue EXCEPT ![key] = longer] /\ UNCHANGED <<open, received>> /\ Absent(e)
    BY <1>2 DEF Put
  <1>5. TypeOK'
    BY <1>1, <1>3, <1>4 DEF TypeOK
  <1>6. Extended(queue, queue', key, e, n, d)
    BY <1>1, <1>3, <1>4 DEF Extended, TypeOK
  <1>7. QueuedOnce' /\ \A x : Queued(x)' => Queued(x) \/ x = e
    BY <1>3, <1>4, <1>5, <1>6, QueueGrows DEF Inv, OnePlace, Absent
  <1>8. /\ GivenOnce' /\ ReturnedOnce'
        /\ \A x : (Given(x)' <=> Given(x)) /\ (Returned(x)' <=> Returned(x))
    BY <1>4 DEF Inv, OnePlace, GivenOnce, ReturnedOnce, Given, Returned
  <1> QED
    BY <1>4, <1>5, <1>7, <1>8 DEF Inv, OnePlace, Absent

(* A call is given e, which is neither given nor returned yet, and is not   *)
(* in the queue any more.                                                   *)
LEMMA GiveHolds ==
  ASSUME None \notin Elements, Inv, NEW c \in Consumers, NEW i \in DOMAIN open[c], NEW key,
         NEW e \in Elements, Turn(c, i, key), Give(c, i, e), ~ Given(e), ~ Returned(e),
         queue' \in [Keys -> Seq(Elements)], QueuedOnce',
         \A x : Queued(x)' => Queued(x), ~ Queued(e)', UNCHANGED received
  PROVE  Inv'
  <1>1. TypeOK /\ open \in [Consumers -> Seq(Slots)] /\ open[c] \in Seq(Slots)
    BY DEF Inv, TypeOK
  <1>2. i \in 1..Len(open[c]) /\ open[c][i] \in Slots /\ open[c][i].value = None
    <2>1. i \in 1..Len(open[c]) /\ open[c][i] \in Slots /\ i <= i
      BY <1>1
    <2> QED
      BY <2>1 DEF Turn
  <1>3. PICK x : x = [open[c][i] EXCEPT !.value = e]
    OBVIOUS
  <1>4. x \in Slots /\ x.value = e
    BY <1>2, <1>3 DEF Slots
  <1>5. PICK calls : calls = [open[c] EXCEPT ![i] = x]
    OBVIOUS
  <1>6. /\ calls \in Seq(Slots) /\ DOMAIN calls = DOMAIN open[c] /\ calls[i] = x
        /\ \A m \in DOMAIN open[c] : m # i => calls[m] = open[c][m]
    BY <1>1, <1>2, <1>4, <1>5, ExceptSeq
  <1>7. open' = [open EXCEPT ![c] = calls]
    BY <1>3, <1>5 DEF Give
  <1>8. TypeOK'
    BY <1>1, <1>6, <1>7 DEF TypeOK
  <1>9. Filled(c, i, e)
    BY <1>1, <1>2, <1>4, <1>6, <1>7 DEF Filled
  <1>10. GivenOnce' /\ \A y : Given(y)' => Given(y) \/ y = e
    BY <1>8, <1>9, CallGiven DEF Inv, OnePlace
  <1>11. ReturnedOnce' /\ \A y : Returned(y)' <=> Returned(y)
    BY DEF Inv, OnePlace, ReturnedOnce, Returned
  <1> QED
    BY <1>8, <1>10, <1>11 DEF Inv, OnePlace

LEMMA PassHolds ==
  ASSUME None \notin Elements, Inv, NEW key \in Keys, NEW e \in Elements, NEW c \in Consumers,
         NEW i \in DOMAIN open[c], Pass(key, e, c, i)
  PROVE  Inv'
  <1>1. queue' = queue /\ Absent(e) /\ Turn(c, i, key) /\ Give(c, i, e) /\ UNCHANGED received
    BY Zenon DEF Pass
  <1>2. queue' \in [Keys -> Seq(Elements)] /\ QueuedOnce'
    BY <1>1 DEF Inv, TypeOK, OnePlace, QueuedOnce
  <1>3. \A x : Queued(x)' <=> Queued(x)
    BY <1>1 DEF Queued
  <1> QED
    BY <1>1, <1>2, <1>3, GiveHolds DEF Absent

LEMMA TakeHolds ==
  ASSUME None \notin Elements, Inv, NEW key \in Keys, NEW c \in Consumers,
         NEW i \in DOMAIN open[c], Take(key, c, i)
  PROVE  Inv'
  <1>1. TypeOK /\ queue[key] \in Seq(Elements) /\ queue[key] # <<>>
    BY DEF Inv, TypeOK, Take
  <1>2. PICK n \in DOMAIN queue[key], d \in {0, 1}, rest \in Seq(Elements) :
          /\ queue' = [queue EXCEPT ![key] = rest] /\ Give(c, i, queue[key][n])
          /\ \A m \in DOMAIN rest : m + d \in DOMAIN queue[key] /\ rest[m] = queue[key][m + d] /\ m + d # n
    <2>1. CASE Give(c, i, Head(queue[key])) /\ queue' = [queue EXCEPT ![key] = Tail(@)]
      <3>1. /\ Tail(queue[key]) \in Seq(Elements)
            /\ Head(queue[key]) = queue[key][1] /\ 1 \in DOMAIN queue[key]
            /\ \A m \in DOMAIN Tail(queue[key]) :
                 /\ m + 1 \in DOMAIN queue[key] /\ Tail(queue[key])[m] = queue[key][m + 1]
                 /\ m + 1 # 1
        <4>1. \A m \in DOMAIN Tail(queue[key]) : m + 1 # 1
          BY <1>1
        <4> QED
          BY <1>1, <4>1, TailFacts
      <3> QED
        BY <2>1, <3>1
    <2>2. CASE Give(c, i, Last(queue[key])) /\ queue' = [queue EXCEPT ![key] = Front(@)]
      <3>1. /\ Front(queue[key]) \in Seq(Elements)
            /\ Last(queue[key]) = queue[key][Len(queue[key])] /\ Len(queue[key]) \in DOMAIN queue[key]
            /\ \A m \in DOMAIN Front(queue[key]) :
                 /\ m + 0 \in DOMAIN queue[key] /\ Front(queue[key])[m] = queue[key][m + 0]
                 /\ m + 0 # Len(queue[key])
        <4>1. \A m \in DOMAIN Front(queue[key]) : m + 0 = m
          BY <1>1, FrontFacts
        <4> QED
          BY <1>1, <4>1, FrontFacts
      <3> QED
        BY <2>2, <3>1
    <2> QED
      BY <2>1, <2>2 DEF Take
  <1>3. PICK e : e = queue[key][n]
    OBVIOUS
  <1>4. e \in Elements /\ Turn(c, i, key) /\ Give(c, i, e) /\ UNCHANGED received /\ d \in Int
    BY <1>1, <1>2, <1>3 DEF Take
  <1>5. queue' \in [Keys -> Seq(Elements)] /\ Shifted(queue, queue', key, d)
    BY <1>1, <1>2 DEF Shifted, TypeOK
  <1>6. QueuedOnce' /\ \A x : Queued(x)' => Queued(x)
    BY <1>1, <1>4, <1>5, QueueShrinks DEF Inv, OnePlace
  <1>7. Queued(e) /\ ~ Given(e) /\ ~ Returned(e)
    BY <1>3, <1>4 DEF Inv, OnePlace, Queued
  <1>8. ~ Queued(e)'
    <2>1. \A k \in Keys : \A m \in DOMAIN queue[k] : queue[k][m] = queue[key][n] => k = key /\ m = n
      BY DEF Inv, OnePlace, QueuedOnce
    <2>2. \A k \in Keys : \A m \in DOMAIN queue'[k] : queue'[k][m] # e
      BY <1>1, <1>2, <1>3, <2>1 DEF TypeOK
    <2> QED
      BY <2>2 DEF Queued
  <1> QED
    BY <1>4, <1>5, <1>6, <1>7, <1>8, GiveHolds

LEMMA NextHolds ==
  ASSUME None \notin Elements, Inv, [Next]_vars
  PROVE  Inv'
  <1>1. CASE UNCHANGED vars
    <2>1. UNCHANGED <<queue, open, received>>
      BY <1>1 DEF vars
    <2>2. TypeOK'
      BY <2>1 DEF Inv, TypeOK
    <2>3. QueuedOnce' /\ GivenOnce' /\ ReturnedOnce'
      BY <2>1 DEF Inv, OnePlace, QueuedOnce, GivenOnce, ReturnedOnce
    <2>4. \A e : (Queued(e)' <=> Queued(e)) /\ (Given(e)' <=> Given(e)) /\ (Returned(e)' <=> Returned(e))
      BY <2>1 DEF Queued, Given, Returned
    <2> QED
      BY <2>2, <2>3, <2>4 DEF Inv, OnePlace
  <1>2. ASSUME NEW c \in Consumers,
               \/ \E key \in Keys \cup {Nowhere}, left \in BOOLEAN : Call(c, key, left)
               \/ Return(c) \/ Fail(c)
        PROVE  Inv'
    BY <1>2, CallHolds, ReturnHolds, FailHolds
  <1>3. ASSUME NEW key \in Keys, NEW e \in Elements, Put(key, e)
        PROVE  Inv'
    BY <1>3, PutHolds
  <1>4. ASSUME NEW key \in Keys, NEW c \in Consumers, NEW i \in DOMAIN open[c],
               Take(key, c, i) \/ \E e \in Elements : Pass(key, e, c, i)
        PROVE  Inv'
    BY <1>4, TakeHolds, PassHolds
  <1>5. ASSUME NEW key \in Keys, NEW from \in 1..Len(queue[key]), NEW to \in 0..Len(queue[key]),
               Trim(key, from, to)
        PROVE  Inv'
    BY <1>5, TrimHolds
  <1> QED
    BY <1>1, <1>2, <1>3, <1>4, <1>5 DEF Next

(* Every element is in one place: it is queued under one key, or given to   *)
(* one call, or returned by one.                                            *)
THEOREM OnePlaceHolds ==
  ASSUME None \notin Elements
  PROVE  Spec => []OnePlace
  <1>1. Inv /\ [Next]_vars => Inv'
    BY NextHolds
  <1>2. Inv => OnePlace
    BY DEF Inv
  <1> QED
    BY <1>1, <1>2, InitHolds, PTL DEF Spec
=============================================================================
