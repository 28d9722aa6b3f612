----------------------- MODULE LogQueueDeliveryProofs -----------------------
(* LogQueue implements DeliveryQueue, for every value of its constants. *)
EXTENDS LogQueueProofs

-----------------------------------------------------------------------------
(* The calls on a connection. *)

Slot(x) == [key |-> x.key, left |-> x.op = "BLPOP", value |-> x.value]
Slots   == [key : Keys \cup {<<>>}, left : BOOLEAN, value : Elements \cup {None}]

LEMMA SlotFacts ==
  \A x \in Command : Slot(x) \in Slots /\ Slot(x).key = x.key /\ Slot(x).value = x.value
  BY DEF Slot, Slots, Command

LEMMA OpenFacts ==
  ASSUME NEW q \in Seq(Command)
  PROVE  /\ Open(q) \in Seq(Slots) /\ Len(Open(q)) = Len(q) /\ DOMAIN Open(q) = DOMAIN q
         /\ DOMAIN q = 1..Len(q)
         /\ \A i \in 1..Len(q) : Open(q)[i] = Slot(q[i]) /\ q[i] \in Command
  <1>1. /\ Len(q) \in Nat /\ DOMAIN q = 1..Len(q)
        /\ \A i \in DOMAIN q : q[i] \in Command
    OBVIOUS
  <1>2. Open(q) = [i \in 1..Len(q) |-> Slot(q[i])]
    BY <1>1 DEF Open, Slot
  <1>3. \A i \in 1..Len(q) : Slot(q[i]) \in Slots
    BY <1>1, SlotFacts
  <1> QED
    BY <1>1, <1>2, <1>3, IsASeq

LEMMA OpenAppend ==
  ASSUME NEW q \in Seq(Command), NEW x \in Command
  PROVE  Open(Append(q, x)) = Append(Open(q), Slot(x))
  <1> DEFINE r == Append(q, x)
             t == Append(Open(q), Slot(x))
  <1>1. /\ r \in Seq(Command) /\ Len(r) = Len(q) + 1 /\ Len(q) \in Nat
        /\ \A i \in 1..Len(q) : r[i] = q[i]
        /\ r[Len(q) + 1] = x
    OBVIOUS
  <1>2. /\ Open(r) \in Seq(Slots) /\ Len(Open(r)) = Len(r)
        /\ \A i \in 1..Len(r) : Open(r)[i] = Slot(r[i])
    BY ONLY <1>1, OpenFacts
  <1>3. /\ Open(q) \in Seq(Slots) /\ Len(Open(q)) = Len(q) /\ Slot(x) \in Slots
        /\ \A i \in 1..Len(q) : Open(q)[i] = Slot(q[i])
    BY OpenFacts, SlotFacts
  <1>4. /\ t \in Seq(Slots) /\ Len(t) = Len(q) + 1 /\ t[Len(q) + 1] = Slot(x)
        /\ \A i \in 1..Len(q) : t[i] = Open(q)[i]
    BY ONLY <1>1, <1>3
  <1> HIDE DEF r, t
  <1>5. \A i \in 1..Len(r) : Open(r)[i] = t[i]
    <2> SUFFICES ASSUME NEW i \in 1..Len(r) PROVE Open(r)[i] = t[i]
      OBVIOUS
    <2>1. CASE i = Len(q) + 1
      BY <1>1, <1>2, <1>4, <2>1
    <2>2. CASE i \in 1..Len(q)
      BY <1>1, <1>2, <1>3, <1>4, <2>2
    <2> QED
      BY <1>1, <2>1, <2>2
  <1>6. Open(r) = t
    BY <1>1, <1>2, <1>4, <1>5, SeqEqual
  <1> QED
    BY <1>6 DEF r, t

LEMMA OpenTail ==
  ASSUME NEW q \in Seq(Command), q # <<>>
  PROVE  /\ Open(q) # <<>> /\ Head(Open(q)) = Slot(Head(q)) /\ Open(Tail(q)) = Tail(Open(q))
  <1> DEFINE r == Tail(q)
             t == Tail(Open(q))
  <1>1. /\ r \in Seq(Command) /\ Len(r) = Len(q) - 1 /\ Len(q) \in Nat \ {0} /\ Head(q) = q[1]
        /\ \A i \in 1..Len(r) : r[i] = q[i + 1] /\ i + 1 \in 1..Len(q)
    OBVIOUS
  <1>2. /\ Open(r) \in Seq(Slots) /\ Len(Open(r)) = Len(r)
        /\ \A i \in 1..Len(r) : Open(r)[i] = Slot(r[i])
    BY ONLY <1>1, OpenFacts
  <1>3. /\ Open(q) \in Seq(Slots) /\ Len(Open(q)) = Len(q)
        /\ \A i \in 1..Len(q) : Open(q)[i] = Slot(q[i])
    BY OpenFacts
  <1>4. /\ Open(q) # <<>> /\ Head(Open(q)) = Open(q)[1]
        /\ t \in Seq(Slots) /\ Len(t) = Len(q) - 1
        /\ \A i \in 1..(Len(q) - 1) : t[i] = Open(q)[i + 1]
    BY ONLY <1>1, <1>3
  <1>5. Head(Open(q)) = Slot(Head(q))
    BY <1>1, <1>3, <1>4
  <1> HIDE DEF r, t
  <1>6. \A i \in 1..Len(r) : Open(r)[i] = t[i]
    BY <1>1, <1>2, <1>3, <1>4
  <1>7. Open(r) = t
    BY <1>1, <1>2, <1>4, <1>6, SeqEqual
  <1> QED
    BY <1>4, <1>5, <1>7 DEF r, t

(* An answer is given to the call it belongs to.                            *)
LEMMA OpenChanged ==
  ASSUME NEW q \in Seq(Command), NEW i \in DOMAIN q, NEW state \in {"new", "blocked", "done"},
         NEW value \in Elements \cup {None}
  PROVE  /\ Open(Changed(q, i, state, value)) = [Open(q) EXCEPT ![i].value = value]
         /\ value = q[i].value => Open(Changed(q, i, state, value)) = Open(q)
  <1> DEFINE r == Changed(q, i, state, value)
             y == [Open(q)[i] EXCEPT !.value = value]
             t == [Open(q) EXCEPT ![i] = y]
  <1>1. /\ r \in Seq(Command) /\ DOMAIN r = DOMAIN q /\ DOMAIN q = 1..Len(q) /\ Len(q) \in Nat
        /\ r[i].value = value /\ r[i].key = q[i].key /\ r[i].op = q[i].op
        /\ \A j \in DOMAIN q : j # i => r[j] = q[j]
    BY ChangedFacts
  <1> HIDE DEF r
  <1>2. /\ Open(r) \in Seq(Slots) /\ Len(Open(r)) = Len(q) /\ r[i] \in Command
        /\ \A j \in 1..Len(q) : Open(r)[j] = Slot(r[j])
    <2>1. Len(r) = Len(q)
      BY <1>1
    <2>2. r[i] \in Command
      BY <1>1
    <2> QED
      BY ONLY <1>1, <2>1, <2>2, OpenFacts
  <1>3. /\ Open(q) \in Seq(Slots) /\ Len(Open(q)) = Len(q)
        /\ \A j \in 1..Len(q) : Open(q)[j] = Slot(q[j])
    BY <1>1, OpenFacts
  <1>4. q[i] \in Command /\ Open(q)[i] = Slot(q[i])
    BY <1>1, <1>3
  <1>5. y \in Slots /\ y = Slot(r[i])
    <2>1. y = [key |-> q[i].key, left |-> q[i].op = "BLPOP", value |-> value]
      BY <1>4 DEF Slot
    <2>2. y = Slot(r[i])
      BY <1>1, <2>1 DEF Slot
    <2> HIDE DEF y
    <2> QED
      BY <1>2, <2>2, SlotFacts
  <1> HIDE DEF y
  <1>6. /\ t \in Seq(Slots) /\ Len(t) = Len(q)
        /\ \A j \in 1..Len(q) : t[j] = IF j = i THEN y ELSE Open(q)[j]
    BY <1>1, <1>3, <1>5, ExceptSeq
  <1> HIDE DEF t
  <1>7. \A j \in 1..Len(q) : Open(r)[j] = t[j]
    BY <1>1, <1>2, <1>3, <1>5, <1>6
  <1>8. Open(r) = t
    BY <1>1, <1>2, <1>6, <1>7, SeqEqual
  <1>9. t = [Open(q) EXCEPT ![i].value = value]
    BY DEF t, y
  <1>10. ASSUME value = q[i].value PROVE Open(r) = Open(q)
    <2>1. Slot(r[i]) = Slot(q[i])
      BY <1>1, <1>10 DEF Slot
    <2>2. \A j \in 1..Len(q) : Open(r)[j] = Open(q)[j]
      BY <1>1, <1>2, <1>3, <2>1
    <2> QED
      BY <1>2, <1>3, <2>2, SeqEqual
  <1> QED
    BY <1>8, <1>9, <1>10 DEF r

LEMMA OpenAgain ==
  ASSUME NEW q \in Seq(Command)
  PROVE  Open(Again(q)) = [i \in DOMAIN Open(q) |-> [Open(q)[i] EXCEPT !.value = None]]
  <1>1. /\ DOMAIN Again(q) = DOMAIN q /\ DOMAIN Open(q) = DOMAIN q
        /\ DOMAIN Open(Again(q)) = DOMAIN q
    BY OpenFacts DEF Again, Open
  <1>2. ASSUME NEW i \in DOMAIN q
        PROVE  Open(Again(q))[i] = [Open(q)[i] EXCEPT !.value = None]
    <2>1. q[i] \in Command /\ Open(q)[i] = Slot(q[i])
      BY <1>1, OpenFacts
    <2>2. Again(q)[i] = [q[i] EXCEPT !.state = "new", !.value = None]
      BY DEF Again
    <2>3. Again(q)[i].key = q[i].key /\ Again(q)[i].op = q[i].op /\ Again(q)[i].value = None
      BY <2>1, <2>2 DEF Command
    <2>4. Open(Again(q))[i] = [key |-> q[i].key, left |-> q[i].op = "BLPOP", value |-> None]
      BY <1>1, <2>3 DEF Open
    <2> QED
      BY <2>1, <2>4 DEF Slot
  <1>3. Open(Again(q)) = [i \in DOMAIN q |-> Open(Again(q))[i]]
    BY <1>1 DEF Open
  <1> QED
    BY <1>1, <1>2, <1>3

-----------------------------------------------------------------------------
(* Trimming. *)

(* A stretch of a sequence, from one position to another.                   *)
LEMMA StretchFromTo ==
  ASSUME NEW s \in Seq(Elements), s # <<>>, NEW r \in Seq(Elements), NEW k \in Nat, NEW n \in Nat,
         Stretch(r, s, k, n)
  PROVE  \E from \in 1..Len(s), to \in 0..Len(s) : r = SubSeq(s, from, to)
  <1>1. /\ Len(s) \in Nat \ {0} /\ DOMAIN s = 1..Len(s) /\ Len(r) = n
        /\ \A i \in 1..n : i + k \in 1..Len(s) /\ r[i] = s[i + k]
    BY DEF Stretch
  <1>2. CASE n = 0
    <2>1. r = <<>> /\ SubSeq(s, 1, 0) = <<>>
      BY <1>1, <1>2
    <2> QED
      BY <1>1, <2>1
  <1>3. CASE n # 0
    <2>1. PICK from \in 1..Len(s), to \in 0..Len(s) : from = k + 1 /\ to = k + n
      <3>1. 1 + k \in 1..Len(s) /\ n + k \in 1..Len(s)
        BY <1>1, <1>3
      <3> QED
        BY <1>1, <3>1
    <2>2. PICK u : u = SubSeq(s, from, to)
      OBVIOUS
    <2>3. \A i \in from..to : s[i] \in Elements
      BY <1>1
    <2>4. /\ u \in Seq(Elements) /\ Len(u) = IF from <= to THEN to - from + 1 ELSE 0
          /\ \A i \in 1..(to - from + 1) : u[i] = s[from + i - 1]
      BY <1>1, <2>2, <2>3, SubSeqProperties, SMTT(30)
    <2>5. Len(u) = n /\ to - from + 1 = n
      BY <1>1, <1>3, <2>1, <2>4
    <2>6. \A i \in 1..n : from + i - 1 = i + k
      BY <2>1
    <2>7. \A i \in 1..n : u[i] = r[i]
      BY <1>1, <2>4, <2>5, <2>6
    <2>8. u = r
      BY <1>1, <2>4, <2>5, <2>7, SeqEqual
    <2> QED
      BY <2>2, <2>8
  <1> QED
    BY <1>2, <1>3

(* Trimming keeps a stretch.                                                *)
LEMMA TrimmedSub ==
  ASSUME NEW list \in Seq(Elements), list # <<>>, NEW range \in Int \X Int
  PROVE  \E from \in 1..Len(list), to \in 0..Len(list) :
           Trimmed(list, range) = SubSeq(list, from, to)
  <1>1. PICK r \in Seq(Elements) : r = Trimmed(list, range)
    BY TrimmedFacts
  <1>2. PICK k \in Nat, n \in Nat : Stretch(r, list, k, n)
    BY <1>1, TrimmedStretch
  <1> QED
    BY <1>1, <1>2, StretchFromTo

-----------------------------------------------------------------------------
(* The pushes on their way. *)

(* The producer awaits the answer of a push of this element.                *)
Awaits(q, e) == \E i \in DOMAIN q : q[i].op \in Pushes /\ q[i].state # "done" /\ q[i].element = e

Holds(q, e) == \E i \in DOMAIN q : q[i].value = e

AwaitsOnce(q) ==
  \A i, j \in DOMAIN q :
    /\ q[i].op \in Pushes /\ q[i].state # "done"
    /\ q[j].op \in Pushes /\ q[j].state # "done"
    /\ q[i].element = q[j].element
    => i = j

Placed(e) ==
  \/ \E key \in Keys : In(lists[key], e)
  \/ \E c \in Consumers : Holds(sent[c], e)
  \/ \E c \in Consumers : \E i \in DOMAIN got[c] : got[c][i].value = e

(* No two pushes bring the same element.                                    *)
OnePush ==
  \A s, t \in Services, e \in Elements : Awaits(sent[s], e) /\ Awaits(sent[t], e) => s = t

(* What a push is to bring is nowhere yet.                                  *)
NotYet == \A s \in Services, e \in Elements : Awaits(sent[s], e) => ~ Placed(e)

Counted ==
  \A e \in Elements : Placed(e) \/ (\E s \in Services : Awaits(sent[s], e)) => e.call <= calls

PushInv == (\A s \in Services : AwaitsOnce(sent[s])) /\ OnePush /\ NotYet /\ Counted

LEMMA AppendPushes ==
  ASSUME NEW s, NEW q, QueueOK(s, q), AwaitsOnce(q),
         NEW x \in Command, CommandOK(s, x), x.state = "new",
         x.op \in Pushes => ~ Awaits(q, x.element)
  PROVE  /\ AwaitsOnce(Append(q, x))
         /\ \A e : Awaits(Append(q, x), e) => Awaits(q, e) \/ (x.op \in Pushes /\ e = x.element)
         /\ \A e \in Elements : Holds(Append(q, x), e) => Holds(q, e)
  <1> DEFINE r == Append(q, x)
  <1>1. /\ Len(q) \in Nat /\ DOMAIN q = 1..Len(q) /\ DOMAIN r = 1..(Len(q) + 1)
        /\ r[Len(q) + 1] = x /\ \A i \in DOMAIN q : r[i] = q[i]
    BY DEF QueueOK
  <1> HIDE DEF r
  <1>2. x.value \notin Elements
    BY ConfigAssumption DEF CommandOK
  <1>3. AwaitsOnce(r)
    <2> SUFFICES ASSUME NEW i \in DOMAIN r, NEW j \in DOMAIN r,
                        r[i].op \in Pushes, r[i].state # "done",
                        r[j].op \in Pushes, r[j].state # "done", r[i].element = r[j].element
                 PROVE  i = j
      BY DEF AwaitsOnce
    <2>1. CASE i \in DOMAIN q /\ j \in DOMAIN q
      BY <1>1, <2>1 DEF AwaitsOnce
    <2>2. i \notin DOMAIN q /\ j \in DOMAIN q => FALSE
      BY <1>1 DEF Awaits
    <2>3. j \notin DOMAIN q /\ i \in DOMAIN q => FALSE
      BY <1>1 DEF Awaits
    <2> QED
      BY <1>1, <2>1, <2>2, <2>3
  <1>5. \A e : Awaits(r, e) => Awaits(q, e) \/ (x.op \in Pushes /\ e = x.element)
    BY <1>1 DEF Awaits
  <1>6. \A e \in Elements : Holds(r, e) => Holds(q, e)
    BY <1>1, <1>2 DEF Holds
  <1> QED
    BY <1>3, <1>5, <1>6 DEF r

LEMMA TailPushes ==
  ASSUME NEW q \in Seq(Command), AwaitsOnce(q), q # <<>>
  PROVE  /\ AwaitsOnce(Tail(q))
         /\ \A e : Awaits(Tail(q), e) => Awaits(q, e)
         /\ \A e : Holds(Tail(q), e) => Holds(q, e)
         /\ Holds(q, Head(q).value)
  <1> DEFINE r == Tail(q)
  <1>1. /\ Len(q) \in Nat \ {0} /\ DOMAIN q = 1..Len(q) /\ DOMAIN r = 1..(Len(q) - 1)
        /\ Head(q) = q[1] /\ 1 \in DOMAIN q
        /\ \A i \in DOMAIN r : i + 1 \in DOMAIN q /\ r[i] = q[i + 1]
    OBVIOUS
  <1> HIDE DEF r
  <1>2. AwaitsOnce(r)
    <2> SUFFICES ASSUME NEW i \in DOMAIN r, NEW j \in DOMAIN r,
                        r[i].op \in Pushes, r[i].state # "done",
                        r[j].op \in Pushes, r[j].state # "done", r[i].element = r[j].element
                 PROVE  i = j
      BY DEF AwaitsOnce
    <2>1. i + 1 = j + 1
      BY <1>1 DEF AwaitsOnce
    <2> QED
      BY <1>1, <2>1
  <1>4. \A e : Awaits(r, e) => Awaits(q, e)
    BY <1>1 DEF Awaits
  <1>5. \A e : Holds(r, e) => Holds(q, e)
    BY <1>1 DEF Holds
  <1>6. Holds(q, Head(q).value)
    BY <1>1 DEF Holds
  <1> QED
    BY <1>2, <1>4, <1>5, <1>6 DEF r

LEMMA ChangedPushes ==
  ASSUME NEW q \in Seq(Command), AwaitsOnce(q), NEW i \in DOMAIN q, q[i].state # "done",
         NEW state \in {"blocked", "done"}, NEW value \in Elements \cup {None}
  PROVE  LET r == Changed(q, i, state, value) IN
         /\ AwaitsOnce(r)
         /\ \A e : Awaits(r, e) => Awaits(q, e)
         /\ \A e \in Elements : Holds(r, e) => Holds(q, e) \/ e = value
         /\ q[i].op \in Pushes /\ state = "done" => ~ Awaits(r, q[i].element)
  <1> DEFINE r == Changed(q, i, state, value)
  <1>1. /\ DOMAIN r = DOMAIN q /\ r[i].state = state /\ r[i].value = value
        /\ r[i].op = q[i].op /\ r[i].key = q[i].key /\ r[i].element = q[i].element
        /\ \A j \in DOMAIN q : j # i => r[j] = q[j]
    BY ChangedFacts
  <1> HIDE DEF r
  <1>2. \A j \in DOMAIN q : r[j].op = q[j].op /\ r[j].element = q[j].element /\ r[j].key = q[j].key
                            /\ (r[j].state # "done" => q[j].state # "done")
    BY <1>1
  <1>3. AwaitsOnce(r)
    BY <1>1, <1>2 DEF AwaitsOnce
  <1>5. \A e : Awaits(r, e) => Awaits(q, e)
    BY <1>1, <1>2 DEF Awaits
  <1>6. \A e \in Elements : Holds(r, e) => Holds(q, e) \/ e = value
    BY <1>1 DEF Holds
  <1>7. ASSUME q[i].op \in Pushes, state = "done", Awaits(r, q[i].element) PROVE FALSE
    <2>1. PICK j \in DOMAIN q : q[j].op \in Pushes /\ r[j].state # "done" /\ q[j].element = q[i].element
      BY <1>1, <1>2, <1>7 DEF Awaits
    <2>2. j # i
      BY <1>1, <1>7, <2>1
    <2> QED
      BY <1>2, <1>7, <2>1, <2>2 DEF AwaitsOnce
  <1> QED
    BY <1>3, <1>5, <1>6, <1>7 DEF r

LEMMA AgainPushes ==
  ASSUME NEW s \in Consumers, NEW q, QueueOK(s, q), AwaitsOnce(q)
  PROVE  /\ AwaitsOnce(Again(q))
         /\ \A e : ~ Awaits(Again(q), e)
         /\ \A e \in Elements : ~ Holds(Again(q), e)
  <1> DEFINE r == Again(q)
  <1>1. DOMAIN r = DOMAIN q
    BY DEF Again
  <1>2. ASSUME NEW i \in DOMAIN q
        PROVE  r[i].op = q[i].op /\ r[i].key = q[i].key /\ r[i].value = None /\ q[i].op \notin Pushes
    <2>1. q[i] \in Command /\ CommandOK(s, q[i])
      BY SentFacts
    <2>2. r[i] = [q[i] EXCEPT !.state = "new", !.value = None]
      BY DEF Again
    <2>3. r[i].op = q[i].op /\ r[i].key = q[i].key /\ r[i].value = None
      BY <2>1, <2>2 DEF Command
    <2>4. q[i].op \notin Pushes
      BY <2>1, ConfigAssumption DEF CommandOK
    <2> QED
      BY <2>3, <2>4
  <1> HIDE DEF r
  <1>3. AwaitsOnce(r)
    BY <1>1, <1>2 DEF AwaitsOnce
  <1>4. \A e : ~ Awaits(r, e)
    BY <1>1, <1>2 DEF Awaits
  <1>5. \A e \in Elements : ~ Holds(r, e)
    BY <1>1, <1>2, ConfigAssumption DEF Holds
  <1> QED
    BY <1>3, <1>4, <1>5 DEF r

LEMMA EmptyPushes ==
  AwaitsOnce(<<>>) /\ \A e : ~ Awaits(<<>>, e) /\ ~ Holds(<<>>, e)
  BY DEF AwaitsOnce, Awaits, Holds

-----------------------------------------------------------------------------
(* What DeliveryQueue sees of a state. *)

O == [c \in Consumers |-> Open(sent[c])]
R == [c \in Consumers |-> Received(got[c])]

LEMMA StateFacts ==
  ASSUME Inv
  PROVE  /\ \A s \in Services : sent[s] \in Seq(Command) /\ QueueOK(s, sent[s])
         /\ \A key \in Keys : lists[key] \in Seq(Elements)
         /\ \A c \in Consumers : got[c] \in Seq(Answers)
         /\ sent = [s \in Services |-> sent[s]] /\ lists = [key \in Keys |-> lists[key]]
         /\ got = [c \in Consumers |-> got[c]]
         /\ calls \in Nat
  <1>1. lists \in [Keys -> Seq(Elements)] /\ sent \in [Services -> Seq(Command)]
    BY DEF Inv, TypeOK
  <1>2. PICK Items : /\ Items = Answers
                     /\ got \in [Consumers -> Seq(Items)]
    BY DEF Inv, TypeOK, Answers
  <1>3. /\ \A c \in Consumers : got[c] \in Seq(Answers)
        /\ got = [c \in Consumers |-> got[c]]
    BY ONLY <1>2
  <1>4. /\ \A s \in Services : sent[s] \in Seq(Command)
        /\ sent = [s \in Services |-> sent[s]]
    BY ONLY <1>1
  <1>5. /\ \A key \in Keys : lists[key] \in Seq(Elements)
        /\ lists = [key \in Keys |-> lists[key]]
    BY ONLY <1>1
  <1>6. \A s \in Services : QueueOK(s, sent[s])
    BY DEF Inv, Queues
  <1>7. calls \in Nat
    BY ConfigAssumption DEF Inv, TypeOK
  <1> QED
    BY <1>3, <1>4, <1>5, <1>6, <1>7

LEMMA OneQueue ==
  ASSUME Inv, NEW s \in Services, NEW r, sent' = [sent EXCEPT ![s] = r]
  PROVE  /\ \A t \in Services : sent'[t] = IF t = s THEN r ELSE sent[t]
         /\ s \in Consumers => O' = [O EXCEPT ![s] = Open(r)]
         /\ s \notin Consumers \/ Open(r) = Open(sent[s]) => O' = O
  <1>1. \A t \in Services : sent'[t] = IF t = s THEN r ELSE sent[t]
    BY StateFacts
  <1>2. \A c \in Consumers : c \in Services /\ O[c] = Open(sent[c]) /\ O'[c] = Open(sent'[c])
    BY DEF O, Services
  <1>3. \A c \in Consumers : O'[c] = IF c = s THEN Open(r) ELSE O[c]
    BY <1>1, <1>2
  <1>4. O = [c \in Consumers |-> O[c]] /\ O' = [c \in Consumers |-> O'[c]]
    BY DEF O
  <1>5. s \in Consumers => O' = [O EXCEPT ![s] = Open(r)]
    BY <1>3, <1>4
  <1>6. s \notin Consumers \/ Open(r) = Open(sent[s]) => O' = O
    BY <1>2, <1>3, <1>4
  <1> QED
    BY <1>1, <1>5, <1>6

LEMMA QuietViews ==
  /\ UNCHANGED sent => O' = O
  /\ UNCHANGED got  => R' = R
  <1>1. UNCHANGED sent => O' = O
    BY Zenon DEF O
  <1>2. UNCHANGED got => R' = R
    BY Zenon DEF R
  <1> QED
    BY <1>1, <1>2

(* An element that is nowhere.                                              *)
LEMMA PlacedFacts ==
  ASSUME Inv, NEW e, ~ Placed(e)
  PROVE  Delivery!Absent(e)
  <1>1. \A key \in Keys : \A i \in DOMAIN lists[key] : lists[key][i] # e
    BY DEF Placed, In
  <1>2. \A c \in Consumers : \A i \in DOMAIN O[c] : O[c][i].value # e
    <2> SUFFICES ASSUME NEW c \in Consumers, NEW i \in DOMAIN O[c], O[c][i].value = e PROVE FALSE
      OBVIOUS
    <2>1. i \in DOMAIN sent[c] /\ sent[c][i].value = e
      BY DEF O, Open
    <2> QED
      BY <2>1 DEF Placed, Holds
  <1>3. \A c \in Consumers : \A i \in DOMAIN R[c] : R[c][i].value # e
    <2> SUFFICES ASSUME NEW c \in Consumers, NEW i \in DOMAIN R[c], R[c][i].value = e PROVE FALSE
      OBVIOUS
    <2>1. i \in DOMAIN got[c] /\ got[c][i].value = e
      BY DEF R, Received
    <2> QED
      BY <2>1 DEF Placed
  <1> QED
    BY <1>1, <1>2, <1>3
    DEF O, R, Delivery!Absent, Delivery!Queued, Delivery!Given, Delivery!Returned

-----------------------------------------------------------------------------
(* How the elements of pushes move. *)

(* Nothing is pushed and nothing put anywhere.                              *)
Calm ==
  /\ \A t \in Services :
       /\ AwaitsOnce(sent[t])'
       /\ \A e \in Elements : Awaits(sent[t], e)' => Awaits(sent[t], e)
  /\ \A e \in Elements : Placed(e)' => Placed(e)
  /\ UNCHANGED calls

LEMMA CalmPushes ==
  ASSUME PushInv, Calm
  PROVE  PushInv'
  <1>1. (\A s \in Services : AwaitsOnce(sent[s]))'
    BY DEF Calm
  <1>2. OnePush'
    BY DEF Calm, PushInv, OnePush
  <1>3. NotYet'
    BY DEF Calm, PushInv, NotYet
  <1>4. Counted'
    BY DEF Calm, PushInv, Counted
  <1> QED
    BY <1>1, <1>2, <1>3, <1>4 DEF PushInv

(* A push puts its element in its place.                                    *)
Moves(s, e) ==
  /\ Awaits(sent[s], e)
  /\ \A t \in Services :
       /\ AwaitsOnce(sent[t])'
       /\ \A x \in Elements : Awaits(sent[t], x)' => Awaits(sent[t], x)
  /\ ~ Awaits(sent[s], e)'
  /\ \A x \in Elements : Placed(x)' => Placed(x) \/ x = e
  /\ UNCHANGED calls

LEMMA MovesPushes ==
  ASSUME PushInv, NEW s \in Services, NEW e \in Elements, Moves(s, e)
  PROVE  PushInv'
  <1>1. (\A t \in Services : AwaitsOnce(sent[t]))'
    BY DEF Moves
  <1>2. OnePush'
    BY DEF Moves, PushInv, OnePush
  <1>3. \A t \in Services : ~ Awaits(sent[t], e)'
    BY DEF Moves, PushInv, OnePush
  <1>4. NotYet'
    BY <1>3 DEF Moves, PushInv, NotYet
  <1>5. Counted'
    BY DEF Moves, PushInv, Counted
  <1> QED
    BY <1>1, <1>2, <1>4, <1>5 DEF PushInv

(* A service calls.                                                         *)
Brings(s) ==
  /\ \A t \in Services :
       /\ AwaitsOnce(sent[t])'
       /\ \A x \in Elements :
            Awaits(sent[t], x)' => Awaits(sent[t], x) \/ (t = s /\ x.call = calls + 1)
  /\ \A x \in Elements : Placed(x)' => Placed(x)
  /\ calls' = calls + 1

LEMMA BringsPushes ==
  ASSUME PushInv, calls \in Nat, NEW s \in Services, Brings(s)
  PROVE  PushInv'
  <1>1. (\A t \in Services : AwaitsOnce(sent[t]))'
    BY DEF Brings
  <1>2. \A x \in Elements, t \in Services : x.call = calls + 1 => ~ Awaits(sent[t], x) /\ ~ Placed(x)
    BY CallFacts DEF PushInv, Counted
  <1>3. OnePush'
    BY <1>2 DEF Brings, PushInv, OnePush
  <1>4. NotYet'
    BY <1>2 DEF Brings, PushInv, NotYet
  <1>5. Counted'
    <2> SUFFICES ASSUME NEW e \in Elements, Placed(e)' \/ \E t \in Services : Awaits(sent[t], e)'
                 PROVE  e.call <= calls + 1
      BY DEF Counted, Brings
    <2>1. e.call <= calls \/ e.call = calls + 1
      BY DEF Brings, PushInv, Counted
    <2> QED
      BY <2>1, CallFacts
  <1> QED
    BY <1>1, <1>3, <1>4, <1>5 DEF PushInv

-----------------------------------------------------------------------------
(* Redis answers, or blocks, a command that is not a push: whatever it does *)
(* to a list, nothing is put there.                                         *)
LEMMA CalmStep ==
  ASSUME Inv, PushInv, NEW s \in Services, NEW i \in DOMAIN sent[s], sent[s][i].state # "done",
         NEW state \in {"blocked", "done"},
         sent' = [sent EXCEPT ![s] = Changed(sent[s], i, state, None)],
         \A key \in Keys, e \in Elements : In(lists'[key], e) => In(lists[key], e),
         UNCHANGED <<got, calls>>
  PROVE  PushInv' /\ O' = O
  <1>1. PICK q, r : q = sent[s] /\ r = Changed(q, i, state, None)
    OBVIOUS
  <1>2. q \in Seq(Command) /\ QueueOK(s, q) /\ AwaitsOnce(q) /\ i \in DOMAIN q /\ q[i].state # "done"
    BY <1>1, StateFacts DEF PushInv
  <1>3. /\ AwaitsOnce(r) /\ \A e : Awaits(r, e) => Awaits(q, e)
        /\ \A e \in Elements : Holds(r, e) => Holds(q, e)
    BY <1>1, <1>2, ChangedPushes, ConfigAssumption
  <1>4. Open(r) = Open(q)
    <2>1. q[i].value = None
      BY <1>2, SentFacts
    <2> QED
      BY <1>1, <1>2, <2>1, OpenChanged
  <1>5. /\ \A t \in Services : sent'[t] = IF t = s THEN r ELSE sent[t]
        /\ O' = O
    <2>1. sent' = [sent EXCEPT ![s] = r] /\ Open(r) = Open(sent[s])
      BY <1>1, <1>4
    <2> QED
      BY <2>1, OneQueue
  <1>6. \A e \in Elements : Placed(e)' => Placed(e)
    BY <1>1, <1>3, <1>5 DEF Placed, Services
  <1>7. Calm
    BY <1>1, <1>3, <1>5, <1>6 DEF Calm, PushInv
  <1> QED
    BY <1>5, <1>7, CalmPushes

(* A call.                                                                  *)
LEMMA CallsDeliver ==
  ASSUME Inv, PushInv, Calls
  PROVE  PushInv' /\ [Delivery!Next]_(Delivery!vars)
  <1>1. PICK s \in Services, x \in Command :
          CommandOK(s, x) /\ x.state = "new" /\ Send(s, x) /\ Made(x)
    BY CallsSend DEF ACall
  <1>2. PICK q, r : q = sent[s] /\ r = Append(q, x)
    OBVIOUS
  <1>3. q \in Seq(Command) /\ QueueOK(s, q) /\ AwaitsOnce(q)
    BY <1>1, <1>2, StateFacts DEF PushInv
  <1>4. x.op \in Pushes => x.element \in Elements /\ x.element.call = calls + 1 /\ ~ Awaits(q, x.element)
    <2>1. x.op \in Pushes => x.element \in Elements /\ x.element.call = calls + 1
      BY <1>1 DEF CommandOK, Made
    <2>2. x.op \in Pushes /\ Awaits(q, x.element) => x.element.call <= calls
      BY <1>2, <2>1 DEF PushInv, Counted
    <2> QED
      BY <2>1, <2>2, StateFacts
  <1>5. /\ AwaitsOnce(r)
        /\ \A e \in Elements : Awaits(r, e) => Awaits(q, e) \/ e.call = calls + 1
        /\ \A e \in Elements : Holds(r, e) => Holds(q, e)
    BY <1>1, <1>2, <1>3, <1>4, AppendPushes
  <1>6. sent' = [sent EXCEPT ![s] = r] /\ calls' = calls + 1 /\ UNCHANGED <<lists, got>>
    BY <1>1, <1>2 DEF Send
  <1>7. /\ \A t \in Services : sent'[t] = IF t = s THEN r ELSE sent[t]
        /\ s \in Consumers => O' = [O EXCEPT ![s] = Open(r)]
        /\ s \notin Consumers => O' = O
    BY <1>6, OneQueue
  <1>8. PushInv'
    <2>1. \A e \in Elements : Placed(e)' => Placed(e)
      BY <1>2, <1>5, <1>6, <1>7 DEF Placed, Services
    <2>2. Brings(s)
      BY <1>2, <1>5, <1>6, <1>7, <2>1 DEF Brings, PushInv
    <2> QED
      BY <2>2, BringsPushes, StateFacts
  <1>9. lists' = lists /\ R' = R
    BY <1>6, QuietViews
  <1>10. CASE s \in Consumers
    <2>1. Open(r) = Append(Open(q), Slot(x))
      BY <1>2, <1>3, OpenAppend
    <2>2. x.value = None /\ x.key \in Keys \cup {<<>>}
      BY <1>1 DEF CommandOK, Command
    <2>3. Slot(x) = [key |-> x.key, left |-> x.op = "BLPOP", value |-> None]
      BY <2>2 DEF Slot
    <2>4. O[s] = Open(q)
      BY <1>2, <1>10 DEF O
    <2>5. O' = [O EXCEPT ![s] = Append(@, [key |-> x.key, left |-> x.op = "BLPOP", value |-> None])]
      BY <1>7, <1>10, <2>1, <2>3, <2>4
    <2>6. Delivery!Call(s, x.key, x.op = "BLPOP")
      BY <1>9, <2>5 DEF Delivery!Call, O, R
    <2> QED
      BY <1>8, <1>10, <2>2, <2>6, (x.op = "BLPOP") \in BOOLEAN DEF Delivery!Next
  <1>11. CASE s \notin Consumers
    <2>1. O' = O
      BY <1>7, <1>11
    <2> QED
      BY <1>8, <1>9, <2>1 DEF Delivery!vars, O, R
  <1> QED
    BY <1>10, <1>11

(* The first command of a consumer without an answer is in turn.            *)
LEMMA TurnFacts ==
  ASSUME Inv, NEW c \in Consumers, NEW i \in DOMAIN sent[c], sent[c][i].state # "done"
  PROVE  /\ i \in DOMAIN O[c] /\ Delivery!Turn(c, i, sent[c][i].key)
         /\ O[c][i].left = (sent[c][i].op = "BLPOP")
         /\ \A e : O' = [O EXCEPT ![c] = Open(Changed(sent[c], i, "done", e))] /\ e \in Elements
                => Delivery!Give(c, i, e)
  <1>1. PICK q : q = sent[c]
    OBVIOUS
  <1>2. q \in Seq(Command) /\ QueueOK(c, q) /\ i \in DOMAIN q /\ O[c] = Open(q)
    BY <1>1, StateFacts DEF Services, O
  <1>3. /\ DOMAIN Open(q) = DOMAIN q /\ DOMAIN q = 1..Len(q) /\ Len(q) \in Nat
        /\ \A j \in DOMAIN q : /\ Open(q)[j].key = q[j].key /\ Open(q)[j].value = q[j].value
                               /\ Open(q)[j].left = (q[j].op = "BLPOP")
    <2>1. /\ DOMAIN Open(q) = DOMAIN q /\ DOMAIN q = 1..Len(q) /\ Len(q) \in Nat
          /\ \A j \in 1..Len(q) : Open(q)[j] = Slot(q[j])
      BY ONLY <1>2, OpenFacts
    <2> QED
      BY ONLY <2>1 DEF Slot
  <1>4. \A j \in DOMAIN q : i <= j => q[j].value = None
    <2> SUFFICES ASSUME NEW j \in DOMAIN q, i <= j PROVE q[j].value = None
      OBVIOUS
    <2>1. q[j].state # "done"
      BY <1>1, <1>2, <1>3 DEF QueueOK, InLine
    <2> QED
      BY <1>2, <2>1, SentFacts
  <1>5. Delivery!Turn(c, i, sent[c][i].key)
    <2>1. O[c][i].key = q[i].key /\ \A j \in DOMAIN O[c] : i <= j => O[c][j].value = None
      BY <1>2, <1>3, <1>4
    <2> QED
      BY <1>1, <2>1 DEF Delivery!Turn, O
  <1>6. ASSUME NEW e, O' = [O EXCEPT ![c] = Open(Changed(sent[c], i, "done", e))], e \in Elements
        PROVE  Delivery!Give(c, i, e)
    <2>1. Open(Changed(sent[c], i, "done", e)) = [Open(q) EXCEPT ![i].value = e]
      BY <1>1, <1>2, <1>6, OpenChanged
    <2>2. O' = [O EXCEPT ![c] = [Open(q) EXCEPT ![i].value = e]]
      BY <1>6, <2>1
    <2>3. O' = [O EXCEPT ![c][i].value = e]
      BY <1>2, <2>2
    <2> QED
      BY <2>3 DEF Delivery!Give, O
  <1> QED
    BY <1>1, <1>2, <1>3, <1>5, <1>6

(* A pop takes the outermost element on its side and leaves the rest.       *)
Pulls(op, list, value, rest) ==
  IF op = "BLPOP" THEN value = Head(list) /\ rest = Tail(list)
                  ELSE value = Last(list) /\ rest = Front(list)

(* A pop that finds elements.                                               *)
LEMMA TakeDelivers ==
  ASSUME Inv, PushInv, NEW c \in Consumers, NEW i \in DOMAIN sent[c], sent[c][i].state # "done",
         NEW key \in Keys, key = sent[c][i].key,
         NEW value \in Elements, NEW rest, In(lists[key], value),
         \A e : In(rest, e) => In(lists[key], e),
         lists[key] # <<>>, Pulls(sent[c][i].op, lists[key], value, rest),
         sent' = [sent EXCEPT ![c] = Reply(sent[c], i, value)],
         lists' = [lists EXCEPT ![key] = rest],
         UNCHANGED <<got, calls>>
  PROVE  PushInv' /\ [Delivery!Next]_(Delivery!vars)
  <1>1. PICK q, r : q = sent[c] /\ r = Changed(q, i, "done", value)
    OBVIOUS
  <1>2. /\ q \in Seq(Command) /\ QueueOK(c, q) /\ AwaitsOnce(q) /\ i \in DOMAIN q
        /\ q[i].state # "done" /\ c \in Services
    BY <1>1, StateFacts DEF PushInv, Services
  <1>3. sent' = [sent EXCEPT ![c] = r]
    BY <1>1, <1>2, ReplyFacts
  <1>4. /\ AwaitsOnce(r) /\ \A e : Awaits(r, e) => Awaits(q, e)
        /\ \A e \in Elements : Holds(r, e) => Holds(q, e) \/ e = value
    BY <1>1, <1>2, ChangedPushes
  <1>5. /\ \A t \in Services : sent'[t] = IF t = c THEN r ELSE sent[t]
        /\ O' = [O EXCEPT ![c] = Open(r)]
    BY <1>2, <1>3, OneQueue
  <1>6. \A k \in Keys : lists'[k] = IF k = key THEN rest ELSE lists[k]
    BY StateFacts
  <1>7. PushInv'
    <2>1. \A e \in Elements : Placed(e)' => Placed(e)
      <3>1. \A k \in Keys, e \in Elements : In(lists'[k], e) => In(lists[k], e)
        BY <1>6
      <3>2. \A d \in Consumers, e \in Elements : Holds(sent'[d], e) => Holds(sent[d], e) \/ e = value
        BY <1>1, <1>4, <1>5 DEF Services
      <3>3. Placed(value)
        BY DEF Placed
      <3> QED
        BY ONLY <3>1, <3>2, <3>3, UNCHANGED got DEF Placed
    <2>2. Calm
      BY <1>1, <1>4, <1>5, <2>1 DEF Calm, PushInv
    <2> QED
      BY <2>2, CalmPushes
  <1>8. /\ i \in DOMAIN O[c] /\ Delivery!Turn(c, i, key) /\ Delivery!Give(c, i, value)
        /\ O[c][i].left = (q[i].op = "BLPOP")
    BY <1>1, <1>5, TurnFacts
  <1>9. R' = R
    BY QuietViews
  <1>10. Delivery!Take(key, c, i)
    <2>1. CASE q[i].op = "BLPOP"
      <3>1. value = Head(lists[key]) /\ lists' = [lists EXCEPT ![key] = Tail(@)]
        BY <1>1, <2>1 DEF Pulls
      <3> QED
        BY <1>8, <1>9, <2>1, <3>1 DEF Delivery!Take, O, R
    <2>2. CASE q[i].op # "BLPOP"
      <3>1. value = Last(lists[key]) /\ lists' = [lists EXCEPT ![key] = Front(@)]
        BY <1>1, <2>2 DEF Pulls
      <3> QED
        BY <1>8, <1>9, <2>2, <3>1 DEF Delivery!Take, Delivery!Last, Delivery!Front, Last, Front, O, R
    <2> QED
      BY <2>1, <2>2
  <1> QED
    BY <1>7, <1>8, <1>10 DEF Delivery!Next, O

(* What a push finds.                                                       *)
LEMMA PushFacts ==
  ASSUME Inv, PushInv, NEW p \in Services, NEW i \in DOMAIN sent[p], IsNext(p, i),
         sent[p][i].op \in Pushes
  PROVE  /\ p \in Producers /\ p \notin Consumers
         /\ sent[p][i].key \in Keys /\ sent[p][i].element \in Elements
         /\ sent[p][i].state # "done"
         /\ sent[p][i].element.left = (sent[p][i].op = "LPUSH")
         /\ Awaits(sent[p], sent[p][i].element)
         /\ ~ Placed(sent[p][i].element) /\ Delivery!Absent(sent[p][i].element)
  <1>1. /\ sent[p][i] \in Command /\ CommandOK(p, sent[p][i]) /\ sent[p][i].state = "new"
    BY NextFacts
  <1>2. /\ p \in Producers /\ sent[p][i].name \in Names /\ sent[p][i].element \in Elements
        /\ sent[p][i].key = ProducerKey(sent[p][i].name)
        /\ sent[p][i].element.left = (sent[p][i].op = "LPUSH")
    BY <1>1 DEF CommandOK
  <1>3. p \notin Consumers /\ sent[p][i].key \in Keys
    BY <1>2, KeyFacts, ConfigAssumption
  <1>4. Awaits(sent[p], sent[p][i].element)
    BY <1>1 DEF Awaits
  <1>5. ~ Placed(sent[p][i].element)
    BY <1>2, <1>4 DEF PushInv, NotYet
  <1> QED
    BY <1>1, <1>2, <1>3, <1>4, <1>5, PlacedFacts

(* A push that finds nobody waiting.                                        *)
LEMMA ExtendDelivers ==
  ASSUME Inv, PushInv, NEW p \in Services, NEW i \in DOMAIN sent[p], IsNext(p, i),
         sent[p][i].op \in Pushes,
         sent' = [sent EXCEPT ![p] = Reply(sent[p], i, None)],
         lists' = [lists EXCEPT ![sent[p][i].key] =
                     IF sent[p][i].op = "RPUSH" THEN Append(@, sent[p][i].element)
                     ELSE <<sent[p][i].element>> \o @],
         UNCHANGED <<waiting, got, calls, faults>>
  PROVE  PushInv' /\ [Delivery!Next]_(Delivery!vars)
  <1>1. PICK key \in Keys, e \in Elements : key = sent[p][i].key /\ e = sent[p][i].element
    BY PushFacts
  <1>2. PICK list \in Seq(Elements) : list = lists[key]
    BY StateFacts
  <1>3. PICK q, r, rest :
          /\ q = sent[p] /\ r = Changed(q, i, "done", None)
          /\ rest = IF sent[p][i].op = "RPUSH" THEN Append(list, e) ELSE <<e>> \o list
    OBVIOUS
  <1>4. /\ p \notin Consumers /\ sent[p][i].state # "done"
        /\ e.left = (sent[p][i].op = "LPUSH") /\ Awaits(sent[p], e) /\ Delivery!Absent(e)
    BY <1>1, PushFacts
  <1>5. \A x : In(rest, x) => In(list, x) \/ x = e
    <2>1. CASE sent[p][i].op = "RPUSH"
      <3>1. \A x : In(Append(list, e), x) => In(list, x) \/ x = e
        BY DEF In
      <3> QED
        BY <1>3, <2>1, <3>1
    <2>2. CASE sent[p][i].op = "LPUSH"
      <3>1. PICK t : t = <<e>> \o list
        OBVIOUS
      <3>2. /\ Len(list) \in Nat /\ DOMAIN list = 1..Len(list) /\ DOMAIN t = 1..(Len(list) + 1)
            /\ t[1] = e /\ \A j \in 1..Len(list) : t[j + 1] = list[j]
        BY <3>1
      <3>3. \A x : In(t, x) => In(list, x) \/ x = e
        <4> SUFFICES ASSUME NEW j \in 1..(Len(list) + 1), t[j] # e PROVE In(list, t[j])
          BY <3>2 DEF In
        <4>1. j - 1 \in 1..Len(list) /\ t[(j - 1) + 1] = list[j - 1] /\ (j - 1) + 1 = j
          BY <3>2
        <4> QED
          BY <3>2, <4>1 DEF In
      <3> QED
        BY <1>3, <2>2, <3>1, <3>3
    <2> QED
      BY <2>1, <2>2 DEF Pushes
  <1>6. /\ q \in Seq(Command) /\ QueueOK(p, q) /\ AwaitsOnce(q) /\ i \in DOMAIN q /\ q[i].state # "done"
    BY <1>3, <1>4, StateFacts DEF PushInv
  <1>7. /\ sent' = [sent EXCEPT ![p] = r] /\ lists' = [lists EXCEPT ![key] = rest]
    BY <1>1, <1>2, <1>3, <1>6, ReplyFacts
  <1>8. /\ AwaitsOnce(r) /\ (\A x : Awaits(r, x) => Awaits(q, x)) /\ ~ Awaits(r, e)
    BY <1>1, <1>3, <1>6, ChangedPushes
  <1>9. O' = O /\ R' = R /\ \A t \in Services : sent'[t] = IF t = p THEN r ELSE sent[t]
    BY <1>4, <1>7, OneQueue, QuietViews
  <1>10. \A k \in Keys : lists'[k] = IF k = key THEN rest ELSE lists[k]
    BY <1>7, StateFacts
  <1>11. PushInv'
    <2>1. \A x \in Elements : Placed(x)' => Placed(x) \/ x = e
      <3>1. \A k \in Keys, x \in Elements : In(lists'[k], x) => In(lists[k], x) \/ x = e
        BY <1>2, <1>5, <1>10
      <3>2. \A d \in Consumers, x \in Elements : Holds(sent'[d], x) => Holds(sent[d], x)
        BY <1>4, <1>9 DEF Services
      <3> QED
        BY ONLY <3>1, <3>2, UNCHANGED got DEF Placed
    <2>2. Moves(p, e)
      BY <1>3, <1>4, <1>8, <1>9, <2>1 DEF Moves, PushInv
    <2> QED
      BY <2>2, MovesPushes
  <1>12. Delivery!Put(key, e)
    <2>1. e \in {x \in Elements : x.left} <=> sent[p][i].op # "RPUSH"
      BY <1>4 DEF Pushes
    <2>2. lists' = [lists EXCEPT ![key] =
                      IF e \in {x \in Elements : x.left} THEN <<e>> \o @ ELSE Append(@, e)]
      BY <1>2, <1>3, <1>7, <2>1
    <2> QED
      BY <1>4, <1>9, <2>2 DEF Delivery!Put, O, R
  <1> QED
    BY <1>11, <1>12 DEF Delivery!Next

(* A push that serves who waits.                                            *)
LEMMA ServeDelivers ==
  ASSUME Inv, PushInv, NEW p \in Services, NEW i \in DOMAIN sent[p], IsNext(p, i),
         sent[p][i].op \in Pushes,
         NEW key, key = sent[p][i].key, waiting[key] # <<>>,
         NEW c, First(waiting[key], c),
         ServeStep(p, i, key, c)
  PROVE  PushInv' /\ [Delivery!Next]_(Delivery!vars)
  <1>0. PICK j : j = Blocked(c)
    OBVIOUS
  <1>1. PICK e \in Elements : e = sent[p][i].element
    BY PushFacts
  <1>2. /\ key \in Keys /\ p \notin Consumers /\ sent[p][i].state # "done"
        /\ Awaits(sent[p], e) /\ Delivery!Absent(e)
    BY <1>1, PushFacts
  <1>3. /\ c \in Consumers /\ c \in Services /\ j \in DOMAIN sent[c]
        /\ sent[c][j].state = "blocked" /\ sent[c][j].key = key /\ c # p
    BY <1>0, <1>1, <1>2, BlockedFacts
  <1>4. PICK q, r, v, w : /\ q = sent[p] /\ r = Changed(q, i, "done", None)
                          /\ v = sent[c] /\ w = Changed(v, j, "done", e)
    OBVIOUS
  <1>5. /\ q \in Seq(Command) /\ AwaitsOnce(q) /\ i \in DOMAIN q /\ q[i].state # "done"
        /\ v \in Seq(Command) /\ AwaitsOnce(v) /\ j \in DOMAIN v /\ v[j].state # "done"
    BY <1>2, <1>3, <1>4, StateFacts DEF PushInv
  <1>6. /\ AwaitsOnce(r) /\ (\A x : Awaits(r, x) => Awaits(q, x)) /\ ~ Awaits(r, e)
    BY <1>1, <1>4, <1>5, ChangedPushes
  <1>7. /\ AwaitsOnce(w) /\ (\A x : Awaits(w, x) => Awaits(v, x))
        /\ \A x \in Elements : Holds(w, x) => Holds(v, x) \/ x = e
    BY <1>1, <1>4, <1>5, ChangedPushes
  <1>8. /\ Reply(sent[p], i, None) = r /\ Reply(sent[c], j, e) = w
    BY <1>4, <1>5, ReplyFacts
  <1>9. /\ UNCHANGED <<lists, got, calls>>
        /\ \A t \in Services : sent'[t] = IF t = c THEN w ELSE IF t = p THEN r ELSE sent[t]
    <2>1. sent' = [sent EXCEPT ![p] = r, ![c] = w]
      BY <1>0, <1>1, <1>3, <1>8 DEF ServeStep
    <2>2. UNCHANGED <<lists, got, calls>>
      BY DEF ServeStep
    <2> QED
      BY <1>3, <2>1, <2>2, StateFacts
  <1>10. R' = R /\ O' = [O EXCEPT ![c] = Open(w)]
    <2>1. \A d \in Consumers : sent'[d] = IF d = c THEN w ELSE sent[d]
      BY <1>2, <1>9 DEF Services
    <2>2. O' = [d \in Consumers |-> Open(sent'[d])] /\ O = [d \in Consumers |-> Open(sent[d])]
      BY DEF O
    <2>3. O' = [O EXCEPT ![c] = Open(w)]
      BY <1>3, <2>1, <2>2
    <2> QED
      BY <1>9, <2>3, QuietViews
  <1>11. PushInv'
    <2>1. \A x \in Elements : Placed(x)' => Placed(x) \/ x = e
      <3>1. \A d \in Consumers, x \in Elements : Holds(sent'[d], x) => Holds(sent[d], x) \/ x = e
        BY <1>2, <1>4, <1>7, <1>9 DEF Services
      <3> QED
        BY ONLY <1>9, <3>1 DEF Placed
    <2>2. Moves(p, e)
      BY <1>2, <1>3, <1>4, <1>6, <1>7, <1>9, <2>1 DEF Moves, PushInv
    <2> QED
      BY <2>2, MovesPushes
  <1>12. j \in DOMAIN O[c] /\ Delivery!Turn(c, j, key) /\ Delivery!Give(c, j, e)
    BY <1>3, <1>4, <1>10, TurnFacts
  <1>13. lists[key] = <<>>
    BY <1>2 DEF Inv, Served
  <1>14. Delivery!Pass(key, e, c, j)
    BY <1>2, <1>9, <1>10, <1>12, <1>13 DEF Delivery!Pass, R
  <1> QED
    BY <1>2, <1>3, <1>11, <1>12, <1>14 DEF Delivery!Next, O

(* The views do not change.                                                 *)
LEMMA NoStep ==
  ASSUME lists' = lists, O' = O, R' = R
  PROVE  [Delivery!Next]_(Delivery!vars)
  BY DEF Delivery!vars, O, R

LEMMA PopDelivers ==
  ASSUME Inv, PushInv, NEW s \in Services, NEW i \in DOMAIN sent[s], PopStep(s, i)
  PROVE  PushInv' /\ [Delivery!Next]_(Delivery!vars)
  <1>1. /\ QueueOK(s, sent[s]) /\ sent[s][i].state = "new" /\ sent[s][i] \in Command
        /\ CommandOK(s, sent[s][i]) /\ sent[s][i].op \in Pops
    BY NextFacts DEF PopStep
  <1>2. s \in Consumers /\ UNCHANGED <<got, calls>>
    BY <1>1 DEF CommandOK, PopStep
  <1>3. PICK key \in Keys : key = sent[s][i].key
    <2>1. sent[s][i].name \in Names /\ sent[s][i].key = ConsumerKey(sent[s][i].name)
      BY <1>1 DEF CommandOK
    <2> QED
      BY <2>1, KeyFacts, SMTT(30)
  <1>4. PICK list \in Seq(Elements) : list = lists[key]
    BY StateFacts
  <1>5. CASE list = <<>>
    <2>1. sent' = [sent EXCEPT ![s] = [sent[s] EXCEPT ![i].state = "blocked"]] /\ UNCHANGED lists
      BY <1>3, <1>4, <1>5 DEF PopStep
    <2>2. [sent[s] EXCEPT ![i].state = "blocked"] = Changed(sent[s], i, "blocked", None)
      <3>1. PICK x \in Command : x = sent[s][i] /\ x.value = None
        BY <1>1 DEF CommandOK
      <3>2. PICK r : r = Changed(sent[s], i, "blocked", None)
        OBVIOUS
      <3>3. /\ [sent[s] EXCEPT ![i].state = "blocked"] = [sent[s] EXCEPT ![i] = [x EXCEPT !.state = "blocked"]]
            /\ r = [sent[s] EXCEPT ![i] = [x EXCEPT !.state = "blocked", !.value = None]]
        BY <3>1, <3>2 DEF Changed
      <3>4. [x EXCEPT !.state = "blocked"] = [x EXCEPT !.state = "blocked", !.value = None]
        BY <3>1 DEF Command
      <3> QED
        BY <3>2, <3>3, <3>4
    <2>3. \A k \in Keys, e \in Elements : In(lists'[k], e) => In(lists[k], e)
      BY <2>1
    <2>4. PushInv' /\ O' = O
      BY <1>1, <1>2, <2>1, <2>2, <2>3, CalmStep
    <2> QED
      BY <1>2, <2>1, <2>4, NoStep, QuietViews
  <1>6. ASSUME NEW value \in Elements, NEW rest \in Seq(Elements), list # <<>>,
               In(list, value), \A e : In(rest, e) => In(list, e),
               Pulls(sent[s][i].op, list, value, rest),
               sent' = [sent EXCEPT ![s] = Reply(@, i, value)],
               lists' = [lists EXCEPT ![sent[s][i].key] = rest]
        PROVE  PushInv' /\ [Delivery!Next]_(Delivery!vars)
    <2>1. lists[key] # <<>>
      BY <1>4, <1>6
    <2>2. sent' = [sent EXCEPT ![s] = Reply(sent[s], i, value)] /\ lists' = [lists EXCEPT ![key] = rest]
      BY <1>3, <1>6
    <2>3. sent[s][i].state # "done" /\ key \in Keys /\ key = sent[s][i].key
      BY <1>1, <1>3
    <2>4. /\ In(lists[key], value) /\ \A e : In(rest, e) => In(lists[key], e)
          /\ Pulls(sent[s][i].op, lists[key], value, rest)
      BY <1>4, <1>6
    <2> QED
      BY ONLY Inv, PushInv, i \in DOMAIN sent[s], value \in Elements, <1>2, <2>1, <2>2, <2>3, <2>4,
              TakeDelivers, Zenon
  <1>7. CASE list # <<>> /\ sent[s][i].op = "BLPOP"
    <2>1. PICK value \in Elements, rest \in Seq(Elements) : value = Head(list) /\ rest = Tail(list)
      <3>1. Head(list) \in Elements /\ Tail(list) \in Seq(Elements)
        BY <1>7
      <3> QED
        BY ONLY <3>1
    <2>2. In(list, value) /\ \A e : In(rest, e) => In(list, e)
      <3>1. /\ DOMAIN list = 1..Len(list) /\ Len(list) \in Nat \ {0} /\ value = list[1]
            /\ DOMAIN rest = 1..(Len(list) - 1) /\ \A j \in DOMAIN rest : j + 1 \in DOMAIN list /\ rest[j] = list[j + 1]
        BY <1>7, <2>1
      <3> QED
        BY <3>1 DEF In
    <2>3. Pulls(sent[s][i].op, list, value, rest)
      BY <1>7, <2>1 DEF Pulls
    <2>4. /\ sent' = [sent EXCEPT ![s] = Reply(@, i, value)]
          /\ lists' = [lists EXCEPT ![sent[s][i].key] = rest]
      BY <1>3, <1>4, <1>7, <2>1 DEF PopStep
    <2> QED
      BY <1>6, <1>7, <2>2, <2>3, <2>4
  <1>8. CASE list # <<>> /\ sent[s][i].op = "BRPOP"
    <2>1. PICK value \in Elements, rest \in Seq(Elements) : value = Last(list) /\ rest = Front(list)
      BY <1>8, FrontFacts
    <2>2. In(list, value) /\ \A e : In(rest, e) => In(list, e)
      <3>1. /\ DOMAIN list = 1..Len(list) /\ Len(list) \in Nat \ {0} /\ value = list[Len(list)]
            /\ DOMAIN rest = 1..(Len(list) - 1) /\ \A j \in DOMAIN rest : j \in DOMAIN list /\ rest[j] = list[j]
        <4>1. DOMAIN list = 1..Len(list) /\ Len(list) \in Nat \ {0}
          BY <1>8
        <4>2. /\ Len(rest) = Len(list) - 1 /\ value = list[Len(list)]
              /\ \A j \in 1..(Len(list) - 1) : rest[j] = list[j]
          <5>1. /\ Len(Front(list)) = Len(list) - 1 /\ Last(list) = list[Len(list)]
                /\ \A j \in 1..(Len(list) - 1) : Front(list)[j] = list[j]
            BY <1>8, FrontFacts
          <5> QED
            BY ONLY <2>1, <5>1
        <4>3. DOMAIN rest = 1..Len(rest)
          OBVIOUS
        <4> QED
          BY <4>1, <4>2, <4>3
      <3> QED
        BY <3>1 DEF In
    <2>3. Pulls(sent[s][i].op, list, value, rest)
      BY <1>8, <2>1 DEF Pulls
    <2>4. /\ sent' = [sent EXCEPT ![s] = Reply(@, i, value)]
          /\ lists' = [lists EXCEPT ![sent[s][i].key] = rest]
      BY <1>3, <1>4, <1>8, <2>1 DEF PopStep
    <2> QED
      BY <1>6, <1>8, <2>2, <2>3, <2>4
  <1> QED
    BY <1>1, <1>5, <1>7, <1>8 DEF Pops

LEMMA TrimDelivers ==
  ASSUME Inv, PushInv, NEW s \in Services, ExecTrim(s)
  PROVE  PushInv' /\ [Delivery!Next]_(Delivery!vars)
  <1>1. PICK i \in DOMAIN sent[s] :
          /\ IsNext(s, i) /\ sent[s][i].op = "LTRIM"
          /\ sent' = [sent EXCEPT ![s] = Reply(@, i, None)]
          /\ lists' = [lists EXCEPT ![sent[s][i].key] = Trimmed(@, sent[s][i].range)]
          /\ UNCHANGED <<waiting, got, calls, faults>>
    BY DEF ExecTrim
  <1>2. PICK key \in Keys, range \in Int \X Int :
          key = sent[s][i].key /\ range = sent[s][i].range
    <2>1. sent[s][i].name \in Names /\ sent[s][i].key = ProducerKey(sent[s][i].name)
      BY <1>1, NextFacts DEF CommandOK
    <2>2. sent[s][i] \in Command
      BY <1>1, NextFacts
    <2> QED
      BY <2>1, <2>2, KeyFacts DEF Command
  <1>3. PICK list \in Seq(Elements) : list = lists[key]
    BY StateFacts
  <1>4. PICK rest \in Seq(Elements) : rest = Trimmed(list, range)
    BY TrimmedFacts
  <1>5. lists' = [lists EXCEPT ![key] = rest]
    BY <1>1, <1>2, <1>3, <1>4
  <1>6. \A k \in Keys : lists'[k] = IF k = key THEN rest ELSE lists[k]
    BY <1>5, StateFacts
  <1>7. \A e : In(rest, e) => In(list, e)
    <2>1. PICK k \in Nat, n \in Nat : Stretch(rest, list, k, n)
      BY <1>4, TrimmedStretch
    <2> QED
      BY <2>1 DEF Stretch, In
  <1>8. PushInv' /\ O' = O
    <2>1. sent[s][i].state # "done" /\ sent[s] \in Seq(Command)
      BY <1>1, NextFacts, StateFacts
    <2>2. sent' = [sent EXCEPT ![s] = Changed(sent[s], i, "done", None)]
      BY <1>1, <2>1, ReplyFacts
    <2>3. \A k \in Keys, e \in Elements : In(lists'[k], e) => In(lists[k], e)
      BY <1>3, <1>6, <1>7
    <2> QED
      BY <1>1, <2>1, <2>2, <2>3, CalmStep
  <1>9. R' = R /\ lists = [k \in Keys |-> lists[k]]
    BY <1>1, QuietViews, StateFacts
  <1>10. CASE list = <<>>
    <2>1. rest = <<>>
      BY <1>4, <1>10, TrimmedFacts
    <2>2. lists' = lists
      BY <1>3, <1>5, <1>9, <1>10, <2>1
    <2> QED
      BY <1>8, <1>9, <2>2, NoStep
  <1>11. CASE list # <<>>
    <2>1. PICK from \in 1..Len(lists[key]), to \in 0..Len(lists[key]) :
            rest = SubSeq(lists[key], from, to)
      <3>1. \E from \in 1..Len(list), to \in 0..Len(list) :
              Trimmed(list, range) = SubSeq(list, from, to)
        BY <1>11, TrimmedSub
      <3> QED
        BY ONLY <1>3, <1>4, <3>1
    <2>2. lists' = [lists EXCEPT ![key] = SubSeq(@, from, to)]
      BY <1>5, <2>1
    <2>3. Delivery!Trim(key, from, to)
      BY <1>8, <1>9, <2>2 DEF Delivery!Trim, O, R
    <2> QED
      BY <1>8, <2>3 DEF Delivery!Next
  <1> QED
    BY <1>10, <1>11

LEMMA ExecDelivers ==
  ASSUME Inv, PushInv, NEW s \in Services, Exec(s)
  PROVE  PushInv' /\ [Delivery!Next]_(Delivery!vars)
  <1>1. CASE ExecPush(s)
    <2>1. PICK i \in DOMAIN sent[s] : PushStep(s, i)
      BY <1>1, PushSteps
    <2>2. CASE waiting[sent[s][i].key] # <<>>
      BY <2>1, <2>2, ServeDelivers DEF PushStep
    <2>3. CASE waiting[sent[s][i].key] = <<>>
      BY <2>1, <2>3, ExtendDelivers DEF PushStep
    <2> QED
      BY <2>2, <2>3
  <1>2. CASE ExecPop(s)
    BY <1>2, PopSteps, PopDelivers
  <1>3. CASE ExecTrim(s)
    BY <1>3, TrimDelivers
  <1>4. CASE ExecRead(s)
    <2>1. PICK i \in DOMAIN sent[s] :
            /\ IsNext(s, i)
            /\ sent' = [sent EXCEPT ![s] = Reply(@, i, None)]
            /\ UNCHANGED <<lists, waiting, got, calls, faults>>
      BY <1>4 DEF ExecRead
    <2>2. sent[s][i].state # "done" /\ sent[s] \in Seq(Command)
      BY <2>1, NextFacts, StateFacts
    <2>3. sent' = [sent EXCEPT ![s] = Changed(sent[s], i, "done", None)]
      BY <2>1, <2>2, ReplyFacts
    <2>4. PushInv' /\ O' = O
      BY <2>1, <2>2, <2>3, CalmStep
    <2> QED
      BY <2>1, <2>4, NoStep, QuietViews
  <1> QED
    BY <1>1, <1>2, <1>3, <1>4 DEF Exec

LEMMA ExpireDelivers ==
  ASSUME Inv, PushInv, NEW s \in Services, Expire(s)
  PROVE  PushInv' /\ [Delivery!Next]_(Delivery!vars)
  <1>1. PICK i \in DOMAIN sent[s] :
          /\ sent[s][i].state = "blocked"
          /\ sent' = [sent EXCEPT ![s] = Reply(@, i, None)]
          /\ UNCHANGED <<lists, got, calls, faults>>
    BY DEF Expire
  <1>2. sent' = [sent EXCEPT ![s] = Changed(sent[s], i, "done", None)]
    BY <1>1, StateFacts, ReplyFacts
  <1>3. PushInv' /\ O' = O
    BY <1>1, <1>2, CalmStep
  <1> QED
    BY <1>1, <1>3, NoStep, QuietViews

(* What DeliveryQueue sees of an answer.                                    *)
Item(x) == [key |-> ConsumerKey(x.name), left |-> x.op = "BLPOP", value |-> x.value]

LEMMA ReceivedAppend ==
  ASSUME NEW Items, NEW g \in Seq(Items), NEW x \in Items
  PROVE  Received(Append(g, x)) = Append(Received(g), Item(x))
  <1>1. PICK n, h, y : n = Len(g) /\ h = Append(g, x) /\ y = Item(x)
    OBVIOUS
  <1>2. /\ n \in Nat /\ DOMAIN g = 1..n /\ DOMAIN h = 1..(n + 1)
        /\ h[n + 1] = x /\ \A i \in 1..n : h[i] = g[i]
    BY <1>1
  <1>3. PICK T : \A z \in Items : Item(z) \in T
    <2>1. \A z \in Items : Item(z)
                            \in {Item(w) : w \in Items}
      OBVIOUS
    <2> QED
      BY <2>1
  <1>4. \A i \in 1..n : g[i] \in Items
    BY <1>1
  <1>5. /\ Received(g) \in Seq(T) /\ Len(Received(g)) = n
        /\ \A i \in 1..n : Received(g)[i] = Item(g[i])
    <2>1. Received(g) = [i \in 1..n |-> Item(g[i])]
      BY <1>2 DEF Received, Item
    <2>2. \A i \in 1..n : Item(g[i]) \in T
      BY <1>3, <1>4
    <2> QED
      BY <1>2, <2>1, <2>2, IsASeq
  <1>6. /\ Received(h) \in Seq(T) /\ Len(Received(h)) = n + 1 /\ Received(h)[n + 1] = y
        /\ \A i \in 1..n : Received(h)[i] = Item(g[i])
    <2>1. Received(h) = [i \in 1..(n + 1) |-> Item(h[i])]
      BY <1>2 DEF Received, Item
    <2>2. \A i \in 1..(n + 1) : h[i] \in Items
      BY <1>2, <1>4
    <2>3. \A i \in 1..(n + 1) : Item(h[i]) \in T
      BY <1>3, <2>2
    <2>4. Received(h) \in Seq(T) /\ Len(Received(h)) = n + 1
      <3>1. PICK m \in Nat : m = n + 1
        BY <1>2
      <3>2. /\ Received(h) = [i \in 1..m |-> Item(h[i])]
            /\ \A i \in 1..m : Item(h[i]) \in T
        BY <2>1, <2>3, <3>1
      <3>3. Received(h) \in Seq(T) /\ Len(Received(h)) = m
        BY ONLY <3>2, m \in Nat, IsASeq
      <3> QED
        BY <3>1, <3>3
    <2>5. Received(h)[n + 1] = y
      BY <1>1, <1>2, <2>1
    <2>6. \A i \in 1..n : Received(h)[i] = Item(g[i])
      BY <1>2, <2>1
    <2> QED
      BY <2>4, <2>5, <2>6
  <1>7. y \in T
    BY <1>1, <1>3
  <1>8. PICK u, v : u = Append(Received(g), y) /\ v = Received(h)
    OBVIOUS
  <1>9. /\ u \in Seq(T) /\ Len(u) = n + 1 /\ u[n + 1] = y
        /\ \A i \in 1..n : u[i] = Received(g)[i]
    BY ONLY <1>2, <1>5, <1>7, <1>8
  <1>10. \A i \in 1..(n + 1) : u[i] = v[i]
    <2> SUFFICES ASSUME NEW i \in 1..(n + 1) PROVE u[i] = v[i]
      OBVIOUS
    <2>1. i = n + 1 \/ i \in 1..n
      BY <1>2
    <2> QED
      BY <1>5, <1>6, <1>8, <1>9, <2>1
  <1>11. u = v
    BY <1>6, <1>8, <1>9, <1>10, SeqEqual
  <1> QED
    BY <1>1, <1>8, <1>11

LEMMA FaultDelivers ==
  ASSUME Inv, PushInv, NEW s \in Consumers, Crash(s) \/ Reconnect(s)
  PROVE  PushInv' /\ [Delivery!Next]_(Delivery!vars)
  <1>1. UNCHANGED <<lists, got, calls>>
    BY DEF Crash, Reconnect, Fault
  <1>2. s \in Services /\ sent[s] \in Seq(Command) /\ QueueOK(s, sent[s]) /\ AwaitsOnce(sent[s])
    BY StateFacts DEF PushInv, Services
  <1>3. O[s] = Open(sent[s])
    BY DEF O
  <1>4. PICK r : /\ sent' = [sent EXCEPT ![s] = r]
                 /\ AwaitsOnce(r)
                 /\ \A e : ~ Awaits(r, e)
                 /\ \A e \in Elements : ~ Holds(r, e)
                 /\ \/ Open(r) = <<>>
                    \/ Open(r) = [i \in DOMAIN O[s] |-> [O[s][i] EXCEPT !.value = None]]
    <2>1. CASE Crash(s)
      <3>1. Open(<<>>) = <<>>
        <4>1. <<>> \in Seq(Command) /\ Len(<<>>) = 0
          OBVIOUS
        <4>2. PICK o : o = Open(<<>>)
          OBVIOUS
        <4>3. o \in Seq(Slots) /\ Len(o) = 0
          BY <4>1, <4>2, OpenFacts
        <4> QED
          BY <4>2, <4>3
      <3> QED
        BY <2>1, <3>1, EmptyPushes DEF Crash
    <2>2. CASE Reconnect(s)
      <3>1. sent' = [sent EXCEPT ![s] = Again(sent[s])]
        BY <2>2 DEF Reconnect, Again
      <3>2. Open(Again(sent[s])) = [i \in DOMAIN O[s] |-> [O[s][i] EXCEPT !.value = None]]
        BY <1>2, <1>3, OpenAgain
      <3> QED
        BY <1>2, <3>1, <3>2, AgainPushes
    <2> QED
      BY <2>1, <2>2
  <1>5. /\ \A t \in Services : sent'[t] = IF t = s THEN r ELSE sent[t]
        /\ O' = [O EXCEPT ![s] = Open(r)]
    BY <1>2, <1>4, OneQueue
  <1>6. PushInv'
    <2>1. \A e \in Elements : Placed(e)' => Placed(e)
      BY <1>1, <1>4, <1>5 DEF Placed, Services
    <2>2. Calm
      BY <1>1, <1>4, <1>5, <2>1 DEF Calm, PushInv
    <2> QED
      BY <2>2, CalmPushes
  <1>7. lists' = lists /\ R' = R
    BY <1>1, QuietViews
  <1>8. \/ O' = [O EXCEPT ![s] = <<>>]
        \/ O' = [O EXCEPT ![s] = [i \in DOMAIN @ |-> [@[i] EXCEPT !.value = None]]]
    BY <1>4, <1>5
  <1>9. Delivery!Fail(s)
    BY <1>7, <1>8 DEF Delivery!Fail, O, R
  <1> QED
    BY <1>6, <1>9 DEF Delivery!Next

LEMMA AnswerDelivers ==
  ASSUME Inv, PushInv, NEW s \in Services, Answer(s)
  PROVE  PushInv' /\ [Delivery!Next]_(Delivery!vars)
  <1>1. PICK q, x, r : q = sent[s] /\ x = Head(q) /\ r = Tail(q)
    OBVIOUS
  <1>2. /\ q # <<>> /\ x.state = "done" /\ sent' = [sent EXCEPT ![s] = r]
        /\ UNCHANGED <<lists, waiting, calls, faults>>
    BY <1>1 DEF Answer
  <1>3. q \in Seq(Command) /\ QueueOK(s, q) /\ AwaitsOnce(q)
    BY <1>1, StateFacts DEF PushInv
  <1>4. /\ AwaitsOnce(r) /\ \A e : Awaits(r, e) => Awaits(q, e)
        /\ \A e : Holds(r, e) => Holds(q, e)
        /\ Holds(q, x.value)
    BY <1>1, <1>2, <1>3, TailPushes
  <1>5. x \in Command /\ CommandOK(s, x)
    BY <1>1, <1>2, <1>3, TailQueue
  <1>6. /\ \A t \in Services : sent'[t] = IF t = s THEN r ELSE sent[t]
        /\ s \in Consumers => O' = [O EXCEPT ![s] = Open(r)]
        /\ s \notin Consumers => O' = O
    BY <1>2, OneQueue
  <1>7. lists' = lists
    BY <1>2
  <1>8. s \in Consumers =>
          O[s] = Open(q) /\ O[s] # <<>> /\ Head(O[s]) = Slot(x) /\ O' = [O EXCEPT ![s] = Tail(@)]
    <2>1. Open(q) # <<>> /\ Head(Open(q)) = Slot(x) /\ Open(r) = Tail(Open(q))
      BY <1>1, <1>2, <1>3, OpenTail
    <2>2. s \in Consumers => O[s] = Open(q)
      BY <1>1 DEF O
    <2> QED
      BY <1>6, <2>1, <2>2
  <1>9. ASSUME UNCHANGED got PROVE PushInv' /\ [Delivery!Next]_(Delivery!vars)
    <2>1. PushInv'
      <3>1. \A e \in Elements : Placed(e)' => Placed(e)
        BY <1>1, <1>2, <1>4, <1>6, <1>9 DEF Placed, Services
      <3>2. Calm
        BY <1>1, <1>2, <1>4, <1>6, <3>1 DEF Calm, PushInv
      <3> QED
        BY <3>2, CalmPushes
    <2>2. R' = R
      BY <1>9, QuietViews
    <2>3. CASE s \notin Consumers
      BY <1>6, <1>7, <2>1, <2>2, <2>3, NoStep
    <2>4. CASE s \in Consumers
      <3>1. Delivery!Return(s)
        BY <1>7, <1>8, <2>2, <2>4 DEF Delivery!Return, O, R
      <3> QED
        BY <2>1, <2>4, <3>1 DEF Delivery!Next
    <2> QED
      BY <2>3, <2>4
  <1>10. CASE Deserialized(x) = None
    BY <1>1, <1>9, <1>10 DEF Answer
  <1>11. CASE Deserialized(x) # None
    <2>1. Deserialized(x) = x.value /\ x.value # None
      BY <1>11 DEF Deserialized
    <2>2. /\ s \in Consumers /\ x.op \in Pops /\ x.name \in Names /\ x.key = ConsumerKey(x.name)
          /\ x.value \in Elements
      BY <1>5, <2>1 DEF CommandOK, Command
    <2>3. PICK Items, item :
            /\ Items = Answers
            /\ item = [op |-> x.op, name |-> x.name, parse |-> x.parse, value |-> x.value]
      OBVIOUS
    <2>4. /\ item \in Items /\ item.value = x.value /\ ConsumerKey(item.name) = x.key
          /\ item.op = x.op
      BY <1>5, <2>2, <2>3 DEF Command, Answers, Pops
    <2>5. PICK g : g = got[s] /\ g \in Seq(Items)
      BY <2>2, <2>3, StateFacts
    <2>6. got' = [got EXCEPT ![s] = Append(g, item)]
      BY <1>1, <1>11, <2>1, <2>3, <2>5 DEF Answer
    <2>7. \A c \in Consumers : got'[c] = IF c = s THEN Append(g, item) ELSE got[c]
      BY <2>2, <2>6, StateFacts
    <2>8. \A j \in DOMAIN Append(g, item) : Append(g, item)[j] = item \/ (j \in DOMAIN g /\ Append(g, item)[j] = g[j])
      BY <2>4, <2>5
    <2>9. PushInv'
      <3>1. \A e \in Elements : Placed(e)' => Placed(e)
        <4>1. \A c \in Consumers, e \in Elements : Holds(sent'[c], e) => Holds(sent[c], e)
          BY <1>1, <1>4, <1>6 DEF Services
        <4>2. Placed(x.value)
          BY <1>1, <1>4, <2>2 DEF Placed
        <4>3. ASSUME NEW e \in Elements, NEW c \in Consumers, NEW j \in DOMAIN got'[c],
                     got'[c][j].value = e
              PROVE  Placed(e)
          <5>1. CASE c # s
            BY <2>7, <4>3, <5>1 DEF Placed
          <5>2. CASE c = s
            <6>1. e = x.value \/ \E k \in DOMAIN got[s] : got[s][k].value = e
              BY <2>4, <2>5, <2>7, <2>8, <4>3, <5>2
            <6> QED
              BY <2>2, <4>2, <6>1 DEF Placed
          <5> QED
            BY <5>1, <5>2
        <4> QED
          BY ONLY <1>2, <4>1, <4>3 DEF Placed
      <3>2. Calm
        BY <1>1, <1>2, <1>4, <1>6, <3>1 DEF Calm, PushInv
      <3> QED
        BY <3>2, CalmPushes
    <2>10. R' = [R EXCEPT ![s] = Append(@, Slot(x))]
      <3>1. Received(Append(g, item)) = Append(Received(g), Slot(x))
        BY <2>4, <2>5, ReceivedAppend DEF Slot, Item
      <3>2. R' = [c \in Consumers |-> Received(got'[c])] /\ R = [c \in Consumers |-> Received(got[c])]
        BY DEF R
      <3>3. R' = [R EXCEPT ![s] = Received(Append(g, item))]
        BY <2>2, <2>7, <3>2
      <3>4. R[s] = Received(g)
        BY <2>2, <2>5, <3>2
      <3> QED
        BY <3>1, <3>3, <3>4
    <2>11. Delivery!Return(s)
      <3>1. Slot(x).value # None
        BY <2>1 DEF Slot
      <3> QED
        BY <1>7, <1>8, <2>2, <2>10, <3>1 DEF Delivery!Return, O, R
    <2> QED
      BY <2>2, <2>9, <2>11 DEF Delivery!Next
  <1> QED
    BY <1>10, <1>11

-----------------------------------------------------------------------------
(* The refinement. *)

(* No producer sends its pushes again.                                      *)
Unrepeated == Producers \cap MayFail = {}

LEMMA NextDelivers ==
  ASSUME Unrepeated, Inv, PushInv, [Next]_vars
  PROVE  PushInv' /\ [Delivery!Next]_(Delivery!vars)
  <1>1. CASE Calls
    BY <1>1, CallsDeliver
  <1>2. ASSUME NEW s \in Services, Exec(s) \/ Expire(s) \/ Answer(s)
        PROVE  PushInv' /\ [Delivery!Next]_(Delivery!vars)
    BY <1>2, ExecDelivers, ExpireDelivers, AnswerDelivers
  <1>3. ASSUME NEW s \in MayFail, Crash(s) \/ Reconnect(s)
        PROVE  PushInv' /\ [Delivery!Next]_(Delivery!vars)
    <2>1. s \in Consumers
      BY ConfigAssumption DEF Unrepeated, Services
    <2> QED
      BY <1>3, <2>1, FaultDelivers
  <1>4. CASE Sleep \/ UNCHANGED vars
    <2>1. UNCHANGED <<lists, sent, got, calls>>
      BY <1>4 DEF Sleep, vars
    <2>2. PushInv'
      BY <2>1 DEF PushInv, OnePush, NotYet, Counted, Placed
    <2> QED
      BY <2>1, <2>2, NoStep, QuietViews
  <1> QED
    BY <1>1, <1>2, <1>3, <1>4 DEF Next

LEMMA InitDelivers == Init => PushInv /\ Delivery!Init
  <1> SUFFICES ASSUME Init PROVE PushInv /\ Delivery!Init
    OBVIOUS
  <1>1. /\ \A key \in Keys : lists[key] = <<>>
        /\ \A s \in Services : sent[s] = <<>>
        /\ \A c \in Consumers : got[c] = <<>>
    BY DEF Init
  <1>2. PushInv
    <2>1. \A s \in Services : AwaitsOnce(sent[s]) /\ \A e : ~ Awaits(sent[s], e)
      BY <1>1, EmptyPushes
    <2>2. \A e : ~ Placed(e)
      BY <1>1 DEF Placed, In, Holds, Services
    <2> QED
      BY <2>1, <2>2 DEF PushInv, OnePush, NotYet, Counted
  <1>4. \A c \in Consumers : Open(sent[c]) = <<>>
    <2>1. <<>> \in Seq(Command) /\ Len(<<>>) = 0
      OBVIOUS
    <2>2. Open(<<>>) \in Seq(Slots) /\ Len(Open(<<>>)) = 0
      BY <2>1, OpenFacts
    <2>3. Open(<<>>) = <<>>
      BY <2>2
    <2> QED
      BY <1>1, <2>3 DEF Services
  <1>5. \A c \in Consumers : Received(got[c]) = <<>>
    <2>1. Received(<<>>) = <<>>
      <3>1. PICK g : g = Received(<<>>)
        OBVIOUS
      <3>2. g = [i \in 1..0 |-> 0]
        BY <3>1 DEF Received
      <3>3. g \in Seq(Nat) /\ Len(g) = 0
        BY <3>2, IsASeq
      <3> QED
        BY <3>1, <3>3
    <2> QED
      BY <1>1, <2>1
  <1>6. /\ lists = [key \in Keys |-> <<>>] /\ O = [c \in Consumers |-> <<>>]
        /\ R = [c \in Consumers |-> <<>>]
    BY <1>4, <1>5 DEF Init, O, R
  <1> QED
    BY <1>2, <1>6 DEF Delivery!Init, O, R

(* The lists are the double-ended queues that DeliveryQueue describes:      *)
(* whatever the services send, on whatever sides, and whichever consumers   *)
(* time out, crash and reconnect, an element enters at the end of its push, *)
(* is given to one call, at whose end it is the outermost, and calls return *)
(* in the order in which they were made.                                    *)
THEOREM ImplementsQueueHolds ==
  ASSUME Unrepeated
  PROVE  Spec => ImplementsQueue
  <1>1. Unrepeated /\ Inv /\ PushInv /\ [Next]_vars => PushInv'
    BY NextDelivers
  <1>2. Unrepeated /\ Inv /\ PushInv /\ [Next]_vars => [Delivery!Next]_(Delivery!vars)
    BY NextDelivers
  <1> QED
    BY <1>1, <1>2, Invariance, InitDelivers, PTL DEF Spec, ImplementsQueue, Delivery!Spec

Promises == INSTANCE DeliveryQueueProofs WITH
  LeftElements <- {e \in Elements : e.left},
  queue        <- lists,
  open         <- [c \in Consumers |-> Open(sent[c])],
  received     <- [c \in Consumers |-> Received(got[c])],
  Nowhere      <- <<>>

(* The two instances say the same.                                          *)
LEMMA SameNext ==
  /\ Delivery!Init <=> Promises!Init
  /\ Delivery!Next <=> Promises!Next
  /\ UNCHANGED Delivery!vars <=> UNCHANGED Promises!vars
  <1>1. Delivery!Init <=> Promises!Init
    BY DEF Delivery!Init, Promises!Init
  <1>2. UNCHANGED Delivery!vars <=> UNCHANGED Promises!vars
    BY DEF Delivery!vars, Promises!vars
  <1>3. \A e : Delivery!Absent(e) <=> Promises!Absent(e)
    BY DEF Delivery!Absent, Promises!Absent, Delivery!Queued, Promises!Queued,
           Delivery!Given, Promises!Given, Delivery!Returned, Promises!Returned
  <1>4. \A c, i, key : Delivery!Turn(c, i, key) <=> Promises!Turn(c, i, key)
    BY DEF Delivery!Turn, Promises!Turn
  <1>5. \A c, i, e : Delivery!Give(c, i, e) <=> Promises!Give(c, i, e)
    BY DEF Delivery!Give, Promises!Give
  <1>6. \A c, key, left : Delivery!Call(c, key, left) <=> Promises!Call(c, key, left)
    BY DEF Delivery!Call, Promises!Call
  <1>7. \A c : /\ Delivery!Return(c) <=> Promises!Return(c)
               /\ Delivery!Fail(c) <=> Promises!Fail(c)
    BY DEF Delivery!Return, Promises!Return, Delivery!Fail, Promises!Fail
  <1>8. \A key, e : Delivery!Put(key, e) <=> Promises!Put(key, e)
    BY <1>3 DEF Delivery!Put, Promises!Put
  <1>9. \A key, c, i : Delivery!Take(key, c, i) <=> Promises!Take(key, c, i)
    BY <1>4, <1>5
    DEF Delivery!Take, Promises!Take, Delivery!Last, Promises!Last, Delivery!Front, Promises!Front
  <1>10. \A key, e, c, i : Delivery!Pass(key, e, c, i) <=> Promises!Pass(key, e, c, i)
    BY <1>3, <1>4, <1>5 DEF Delivery!Pass, Promises!Pass
  <1>11. \A key, from, to : Delivery!Trim(key, from, to) <=> Promises!Trim(key, from, to)
    BY DEF Delivery!Trim, Promises!Trim
  <1>12. Delivery!Next <=> Promises!Next
    BY <1>6, <1>7, <1>8, <1>9, <1>10, <1>11 DEF Delivery!Next, Promises!Next
  <1> QED
    BY <1>1, <1>2, <1>12

(* And so what one push brought is received once at most, however many      *)
(* services push and pop.                                                   *)
THEOREM ReceivedOnceHolds ==
  ASSUME Unrepeated
  PROVE  Spec => []ReceivedOnce
  <1>1. Promises!Spec => []Promises!OnePlace
    BY ConfigAssumption, Promises!OnePlaceHolds
  <1>2. [Delivery!Next]_(Delivery!vars) => [Promises!Next]_(Promises!vars)
    BY SameNext
  <1>3. Delivery!Init => Promises!Init
    BY SameNext
  <1>4. Spec => Promises!Spec
    BY <1>2, <1>3, ImplementsQueueHolds, PTL DEF ImplementsQueue, Delivery!Spec, Promises!Spec
  <1>5. Promises!OnePlace => ReceivedOnce
    <2> SUFFICES ASSUME Promises!ReturnedOnce,
                        NEW c \in Consumers, NEW d \in Consumers, NEW i \in DOMAIN got[c], NEW j \in DOMAIN got[d],
                        got[c][i].value = got[d][j].value
                 PROVE  c = d /\ i = j
      BY DEF Promises!OnePlace, ReceivedOnce
    <2>1. /\ R[c] = Received(got[c]) /\ R[d] = Received(got[d])
          /\ \A m \in DOMAIN R[c], n \in DOMAIN R[d] : R[c][m].value = R[d][n].value => c = d /\ m = n
      BY DEF R, Promises!ReturnedOnce
    <2>2. /\ i \in DOMAIN R[c] /\ R[c][i].value = got[c][i].value
          /\ j \in DOMAIN R[d] /\ R[d][j].value = got[d][j].value
      BY <2>1 DEF Received
    <2> QED
      BY ONLY <2>1, <2>2, got[c][i].value = got[d][j].value
  <1> QED
    BY <1>1, <1>4, <1>5, PTL
=============================================================================
