---------------------------- MODULE LogQueueProofs ----------------------------
(* Theorems about LogQueue, for every value of its constants. *)
EXTENDS LogQueue, SequenceTheorems, TLAPS

-----------------------------------------------------------------------------
(* What a connection carries. *)

Pushes == {"RPUSH", "LPUSH"}
Pops   == {"BLPOP", "BRPOP"}

(* What a service sends, and what Redis answers.                            *)
CommandOK(s, x) ==
  /\ x.op \in Pushes => x.element \in Elements /\ x.element.left = (x.op = "LPUSH")
  /\ x.op \in Pushes \cup {"LTRIM"} =>
       s \in Producers /\ x.name \in Names /\ x.key = ProducerKey(x.name)
  /\ x.op \in Pops => s \in Consumers /\ x.name \in Names /\ x.key = ConsumerKey(x.name)
  /\ x.state = "blocked" => x.op \in Pops
  /\ x.value # None => x.op \in Pops /\ x.state = "done"

(* Behind a command without an answer nothing has run.                      *)
InLine(q) ==
  \A i, j \in DOMAIN q : i < j /\ q[i].state # "done" => q[j].state = "new"

QueueOK(s, q) == q \in Seq(Command) /\ (\A i \in DOMAIN q : CommandOK(s, q[i])) /\ InLine(q)

BlockedOn(q, key) == \E i \in DOMAIN q : q[i].state = "blocked" /\ q[i].key = key

LEMMA OneBlocked ==
  ASSUME NEW s, NEW q, QueueOK(s, q), NEW i \in DOMAIN q, NEW j \in DOMAIN q,
         q[i].state = "blocked", q[j].state = "blocked"
  PROVE  i = j
  <1>1. i \in Nat /\ j \in Nat
    BY DEF QueueOK
  <1> QED
    BY <1>1 DEF QueueOK, InLine

LEMMA OnlyBlocked ==
  ASSUME NEW s, NEW q, QueueOK(s, q), NEW i \in DOMAIN q, q[i].state = "blocked"
  PROVE  \A key : BlockedOn(q, key) <=> key = q[i].key
  BY OneBlocked DEF BlockedOn

LEMMA EmptyQueue ==
  ASSUME NEW s
  PROVE  QueueOK(s, <<>>) /\ \A key : ~ BlockedOn(<<>>, key)
  BY DEF QueueOK, InLine, BlockedOn

LEMMA AppendQueue ==
  ASSUME NEW s, NEW q, QueueOK(s, q), NEW x \in Command, CommandOK(s, x), x.state = "new"
  PROVE  /\ QueueOK(s, Append(q, x))
         /\ \A key : BlockedOn(Append(q, x), key) <=> BlockedOn(q, key)
  <1> DEFINE r == Append(q, x)
  <1>1. /\ q \in Seq(Command) /\ r \in Seq(Command) /\ Len(q) \in Nat
        /\ DOMAIN q = 1..Len(q) /\ DOMAIN r = 1..(Len(q) + 1)
        /\ r[Len(q) + 1] = x /\ \A i \in DOMAIN q : r[i] = q[i]
    BY DEF QueueOK
  <1>2. \A i \in DOMAIN r : CommandOK(s, r[i])
    BY <1>1 DEF QueueOK
  <1>3. InLine(r)
    BY <1>1 DEF QueueOK, InLine
  <1>4. \A key : BlockedOn(r, key) <=> BlockedOn(q, key)
    BY <1>1 DEF BlockedOn
  <1> QED
    BY <1>1, <1>2, <1>3, <1>4 DEF QueueOK

LEMMA TailQueue ==
  ASSUME NEW s, NEW q, QueueOK(s, q), q # <<>>, Head(q).state = "done"
  PROVE  /\ QueueOK(s, Tail(q))
         /\ \A key : BlockedOn(Tail(q), key) <=> BlockedOn(q, key)
         /\ Head(q) \in Command /\ CommandOK(s, Head(q))
  <1> DEFINE r == Tail(q)
  <1>1. /\ q \in Seq(Command) /\ r \in Seq(Command) /\ Len(q) \in Nat \ {0}
        /\ DOMAIN q = 1..Len(q) /\ DOMAIN r = 1..(Len(q) - 1)
        /\ Head(q) = q[1] /\ 1 \in DOMAIN q /\ Head(q) \in Command
        /\ \A i \in DOMAIN r : r[i] = q[i + 1] /\ i + 1 \in DOMAIN q
    BY DEF QueueOK
  <1>2. \A i \in DOMAIN r : CommandOK(s, r[i])
    BY <1>1 DEF QueueOK
  <1>3. InLine(r)
    <2> SUFFICES ASSUME NEW i \in DOMAIN r, NEW j \in DOMAIN r, i < j, r[i].state # "done"
                 PROVE  r[j].state = "new"
      BY DEF InLine
    <2>1. i + 1 < j + 1
      BY <1>1
    <2> QED
      BY <1>1, <2>1 DEF QueueOK, InLine
  <1>4. \A key : BlockedOn(r, key) => BlockedOn(q, key)
    BY <1>1 DEF BlockedOn
  <1>5. ASSUME NEW key, BlockedOn(q, key) PROVE BlockedOn(r, key)
    <2>1. PICK i \in DOMAIN q : q[i].state = "blocked" /\ q[i].key = key
      BY <1>5 DEF BlockedOn
    <2>2. i # 1
      BY <1>1, <2>1
    <2>3. i - 1 \in DOMAIN r /\ r[i - 1] = q[i]
      BY <1>1, <2>1, <2>2
    <2> QED
      BY <2>1, <2>3 DEF BlockedOn
  <1> QED
    BY <1>1, <1>2, <1>3, <1>4, <1>5 DEF QueueOK

(* A command in the queue changes its state and value.                      *)
Changed(q, i, state, value) == [q EXCEPT ![i] = [@ EXCEPT !.state = state, !.value = value]]

LEMMA ChangedFacts ==
  ASSUME NEW q \in Seq(Command), NEW i \in DOMAIN q,
         NEW state \in {"new", "blocked", "done"}, NEW value \in Elements \cup {None}
  PROVE  LET r == Changed(q, i, state, value) IN
         /\ r \in Seq(Command) /\ DOMAIN r = DOMAIN q /\ DOMAIN q = 1..Len(q) /\ Len(q) \in Nat
         /\ r[i].state = state /\ r[i].value = value
         /\ r[i].op = q[i].op /\ r[i].key = q[i].key /\ r[i].name = q[i].name
         /\ r[i].element = q[i].element /\ r[i].call = q[i].call /\ r[i].parse = q[i].parse
         /\ \A j \in DOMAIN q : j # i => r[j] = q[j]
  <1> DEFINE y == [q[i] EXCEPT !.state = state, !.value = value]
  <1>1. q[i] \in Command
    OBVIOUS
  <1>2. y \in Command
    BY <1>1 DEF Command
  <1>3. /\ y.state = state /\ y.value = value
        /\ y.op = q[i].op /\ y.key = q[i].key /\ y.name = q[i].name
        /\ y.element = q[i].element /\ y.call = q[i].call /\ y.parse = q[i].parse
    BY <1>1 DEF Command
  <1>4. Changed(q, i, state, value) = [q EXCEPT ![i] = y]
    BY DEF Changed
  <1> HIDE DEF y
  <1>5. [q EXCEPT ![i] = y] \in Seq(Command) /\ [q EXCEPT ![i] = y][i] = y
    BY <1>2, ExceptSeq
  <1> QED
    BY <1>3, <1>4, <1>5

Foremost(q, i) == \A j \in 1..(i - 1) : q[j].state = "done"

LEMMA BlockedIsForemost ==
  ASSUME NEW s, NEW q, QueueOK(s, q), NEW i \in DOMAIN q, q[i].state = "blocked"
  PROVE  Foremost(q, i)
  <1>1. i \in Nat /\ DOMAIN q = 1..Len(q) /\ Len(q) \in Nat
    BY DEF QueueOK
  <1> QED
    BY <1>1 DEF QueueOK, InLine, Foremost

LEMMA ChangedQueue ==
  ASSUME NEW s, NEW q, QueueOK(s, q), NEW i \in DOMAIN q, Foremost(q, i), q[i].state # "done",
         NEW state \in {"blocked", "done"}, NEW value \in Elements \cup {None},
         state = "blocked" => q[i].op \in Pops,
         value # None => q[i].op \in Pops /\ state = "done"
  PROVE  /\ QueueOK(s, Changed(q, i, state, value))
         /\ \A key : BlockedOn(Changed(q, i, state, value), key)
                       <=> state = "blocked" /\ key = q[i].key
         /\ q[i].state = "new" => \A key : ~ BlockedOn(q, key)
  <1> DEFINE r == Changed(q, i, state, value)
  <1>1. /\ r \in Seq(Command) /\ DOMAIN r = DOMAIN q /\ DOMAIN q = 1..Len(q) /\ Len(q) \in Nat
        /\ r[i].state = state /\ r[i].value = value
        /\ r[i].op = q[i].op /\ r[i].key = q[i].key /\ r[i].name = q[i].name
        /\ r[i].element = q[i].element
        /\ \A j \in DOMAIN q : j # i => r[j] = q[j]
    BY ChangedFacts DEF QueueOK
  <1> HIDE DEF r
  <1>2. \A j \in DOMAIN q : j # i => q[j].state \in {"done", "new"}
    BY <1>1 DEF QueueOK, InLine, Foremost
  <1>3. CommandOK(s, r[i])
    <2>1. CommandOK(s, q[i])
      BY DEF QueueOK
    <2> QED
      BY <1>1, <2>1 DEF CommandOK
  <1>4. \A j \in DOMAIN r : CommandOK(s, r[j])
    BY <1>1, <1>3 DEF QueueOK
  <1>5. InLine(r)
    <2> SUFFICES ASSUME NEW j \in DOMAIN r, NEW k \in DOMAIN r, j < k, r[j].state # "done"
                 PROVE  r[k].state = "new"
      BY DEF InLine
    <2>1. j >= i
      BY <1>1 DEF Foremost
    <2>2. k # i /\ r[k] = q[k]
      BY <1>1, <2>1
    <2>3. q[j].state # "done"
      BY <1>1
    <2> QED
      BY <1>1, <2>2, <2>3 DEF QueueOK, InLine
  <1>6. \A key : BlockedOn(r, key) <=> state = "blocked" /\ key = q[i].key
    BY <1>1, <1>2 DEF BlockedOn
  <1>7. q[i].state = "new" => \A key : ~ BlockedOn(q, key)
    BY <1>2 DEF BlockedOn
  <1> QED
    BY <1>1, <1>4, <1>5, <1>6, <1>7 DEF QueueOK, r

LEMMA ResetQueue ==
  ASSUME NEW s, NEW q, QueueOK(s, q)
  PROVE  LET r == [i \in DOMAIN q |-> [q[i] EXCEPT !.state = "new", !.value = None]]
         IN  /\ QueueOK(s, r) /\ DOMAIN r = DOMAIN q
             /\ \A key : ~ BlockedOn(r, key)
  <1> DEFINE r == [i \in DOMAIN q |-> [q[i] EXCEPT !.state = "new", !.value = None]]
  <1>1. q \in Seq(Command) /\ DOMAIN q = 1..Len(q) /\ Len(q) \in Nat /\ DOMAIN r = 1..Len(q)
    BY DEF QueueOK
  <1>2. \A i \in DOMAIN q :
          /\ r[i] \in Command /\ r[i].state = "new" /\ r[i].value = None
          /\ r[i].op = q[i].op /\ r[i].key = q[i].key /\ r[i].name = q[i].name
          /\ r[i].element = q[i].element
    <2> SUFFICES ASSUME NEW i \in DOMAIN q
                 PROVE  /\ r[i] \in Command /\ r[i].state = "new" /\ r[i].value = None
                        /\ r[i].op = q[i].op /\ r[i].key = q[i].key /\ r[i].name = q[i].name
                        /\ r[i].element = q[i].element
      OBVIOUS
    <2>1. q[i] \in Command
      BY <1>1
    <2> DEFINE x == q[i]
    <2>2. r[i] = [x EXCEPT !.state = "new", !.value = None]
      OBVIOUS
    <2> HIDE DEF r, x
    <2>3. x \in Command /\ x = q[i]
      BY <2>1 DEF x
    <2> QED
      BY <2>2, <2>3 DEF Command
  <1>. r = [i \in DOMAIN q |-> r[i]]
    OBVIOUS
  <1> HIDE DEF r
  <1>3. \A i \in DOMAIN q : CommandOK(s, r[i])
    <2> SUFFICES ASSUME NEW i \in DOMAIN q PROVE CommandOK(s, r[i])
      OBVIOUS
    <2>1. CommandOK(s, q[i])
      BY DEF QueueOK
    <2> QED
      BY <1>2, <2>1 DEF CommandOK
  <1>4. r \in Seq(Command)
    <2>1. r \in [1..Len(q) -> Command]
      BY <1>1, <1>2
    <2> QED
      BY <1>1, <2>1, SeqDef
  <1>5. InLine(r) /\ \A key : ~ BlockedOn(r, key)
    BY <1>1, <1>2 DEF InLine, BlockedOn
  <1> QED
    BY <1>1, <1>3, <1>4, <1>5 DEF QueueOK, r

-----------------------------------------------------------------------------
(* Who waits. *)

In(w, c) == \E n \in DOMAIN w : w[n] = c

Distinct(w) == \A m, n \in DOMAIN w : w[m] = w[n] => m = n

LEMMA AppendWaiting ==
  ASSUME NEW w \in Seq(Consumers), Distinct(w), NEW c \in Consumers, ~ In(w, c)
  PROVE  /\ Append(w, c) \in Seq(Consumers) /\ Distinct(Append(w, c))
         /\ \A d : In(Append(w, c), d) <=> In(w, d) \/ d = c
  <1> DEFINE v == Append(w, c)
  <1>1. /\ v \in Seq(Consumers) /\ Len(w) \in Nat
        /\ DOMAIN w = 1..Len(w) /\ DOMAIN v = 1..(Len(w) + 1)
        /\ v[Len(w) + 1] = c /\ \A i \in DOMAIN w : v[i] = w[i]
    OBVIOUS
  <1> HIDE DEF v
  <1>2. Distinct(v)
    BY <1>1 DEF Distinct, In
  <1>3. \A d : In(v, d) <=> In(w, d) \/ d = c
    BY <1>1 DEF In
  <1> QED
    BY <1>1, <1>2, <1>3 DEF v

LEMMA RemoveFacts ==
  ASSUME NEW w \in Seq(Consumers), Distinct(w), NEW i \in DOMAIN w
  PROVE  /\ RemoveAt(w, i) \in Seq(Consumers) /\ Distinct(RemoveAt(w, i))
         /\ \A d : In(RemoveAt(w, i), d) <=> In(w, d) /\ d # w[i]
  <1> DEFINE a == SubSeq(w, 1, i - 1)
             b == SubSeq(w, i + 1, Len(w))
             v == RemoveAt(w, i)
  <1>1. Len(w) \in Nat /\ DOMAIN w = 1..Len(w) /\ i \in 1..Len(w)
          /\ \A j \in 1..Len(w) : w[j] \in Consumers
    OBVIOUS
  <1>2. a \in Seq(Consumers) /\ Len(a) = i - 1 /\ \A j \in 1..(i - 1) : a[j] = w[j]
    <2>1. \A j \in 1..(i - 1) : w[j] \in Consumers
      BY <1>1
    <2> QED
      BY <1>1, <2>1, SubSeqProperties
  <1>3. b \in Seq(Consumers) /\ Len(b) = Len(w) - i /\ \A j \in 1..(Len(w) - i) : b[j] = w[j + i]
    <2>1. \A j \in (i + 1)..Len(w) : w[j] \in Consumers
      BY <1>1
    <2>2. /\ b \in Seq(Consumers)
          /\ Len(b) = IF i + 1 <= Len(w) THEN Len(w) - (i + 1) + 1 ELSE 0
          /\ \A j \in 1..(Len(w) - (i + 1) + 1) : b[j] = w[(i + 1) + j - 1]
      BY <1>1, <2>1, SubSeqProperties
    <2>3. \A j \in 1..(Len(w) - i) : j \in 1..(Len(w) - (i + 1) + 1) /\ (i + 1) + j - 1 = j + i
      BY <1>1
    <2> QED
      BY <1>1, <2>2, <2>3
  <1>4. v = a \o b
    BY DEF RemoveAt
  <1> HIDE DEF a, b, v
  <1>5. /\ v \in Seq(Consumers) /\ Len(v) = Len(w) - 1 /\ DOMAIN v = 1..(Len(w) - 1)
        /\ \A j \in 1..(Len(w) - 1) : v[j] = IF j < i THEN w[j] ELSE w[j + 1]
    <2>1. v \in Seq(Consumers) /\ Len(v) = Len(a) + Len(b)
            /\ \A j \in 1..(Len(a) + Len(b)) : v[j] = IF j <= Len(a) THEN a[j] ELSE b[j - Len(a)]
      BY <1>2, <1>3, <1>4, ConcatProperties
    <2>2. ASSUME NEW j \in 1..(Len(w) - 1) PROVE v[j] = IF j < i THEN w[j] ELSE w[j + 1]
      <3>1. CASE j < i
        BY <1>1, <1>2, <1>3, <2>1, <3>1
      <3>2. CASE j >= i
        <4>1. j - (i - 1) \in 1..(Len(w) - i) /\ (j - (i - 1)) + i = j + 1
          BY <1>1, <3>2
        <4>2. b[j - (i - 1)] = w[j + 1]
          BY <1>3, <4>1
        <4> QED
          BY <1>1, <1>2, <1>3, <2>1, <3>2, <4>2
      <3> QED
        BY <1>1, <3>1, <3>2
    <2> QED
      BY <1>1, <1>2, <1>3, <2>1, <2>2
  <1>6. Distinct(v)
    BY <1>1, <1>5, SMTT(30) DEF Distinct
  <1>7. ASSUME NEW d, In(v, d) PROVE In(w, d) /\ d # w[i]
    <2>1. PICK j \in 1..(Len(w) - 1) : v[j] = d
      BY <1>5, <1>7 DEF In
    <2>2. PICK k \in DOMAIN w : k # i /\ w[k] = d
      BY <1>1, <1>5, <2>1
    <2> QED
      BY <2>2 DEF In, Distinct
  <1>8. ASSUME NEW d, In(w, d), d # w[i] PROVE In(v, d)
    <2>1. PICK j \in DOMAIN w : w[j] = d
      BY <1>8 DEF In
    <2>2. CASE j < i
      <3>1. j \in 1..(Len(w) - 1)
        BY <1>1, <2>2
      <3> QED
        BY <1>5, <2>1, <2>2, <3>1 DEF In
    <2>3. CASE j > i
      <3>1. j - 1 \in 1..(Len(w) - 1) /\ ~ (j - 1 < i) /\ (j - 1) + 1 = j
        BY <1>1, <2>3
      <3>2. v[j - 1] = w[j]
        BY <1>5, <3>1
      <3> QED
        BY <1>5, <2>1, <3>1, <3>2 DEF In
    <2> QED
      BY <1>1, <1>8, <2>1, <2>2, <2>3
  <1> QED
    BY <1>5, <1>6, <1>7, <1>8 DEF v

LEMMA WithoutFacts ==
  ASSUME NEW w \in Seq(Consumers), Distinct(w), NEW c
  PROVE  /\ Without(w, c) \in Seq(Consumers) /\ Distinct(Without(w, c))
         /\ \A d : In(Without(w, c), d) <=> In(w, d) /\ d # c
         /\ w = <<>> => Without(w, c) = <<>>
  <1>1. CASE In(w, c)
    <2> DEFINE i == CHOOSE i \in DOMAIN w : w[i] = c
    <2>1. i \in DOMAIN w /\ w[i] = c
      BY <1>1 DEF In
    <2>2. Without(w, c) = RemoveAt(w, i)
      BY <1>1 DEF Without, In
    <2>3. w # <<>>
      BY <2>1
    <2> HIDE DEF i
    <2> QED
      BY <2>1, <2>2, <2>3, RemoveFacts
  <1>2. CASE ~ In(w, c)
    <2>1. Without(w, c) = w
      BY <1>2 DEF Without, In
    <2> QED
      BY <1>2, <2>1
  <1> QED
    BY <1>1, <1>2

First(w, c) == c = Head(w)

LEMMA ServeFacts ==
  ASSUME NEW w \in Seq(Consumers), Distinct(w), w # <<>>
  PROVE  /\ Head(w) \in Consumers /\ In(w, Head(w))
         /\ Tail(w) \in Seq(Consumers) /\ Distinct(Tail(w))
         /\ \A d : In(Tail(w), d) <=> In(w, d) /\ d # Head(w)
  <1> DEFINE v == Tail(w)
  <1>1. /\ v \in Seq(Consumers) /\ Len(w) \in Nat \ {0} /\ Head(w) = w[1] /\ Head(w) \in Consumers
        /\ DOMAIN w = 1..Len(w) /\ DOMAIN v = 1..(Len(w) - 1)
        /\ \A j \in DOMAIN v : v[j] = w[j + 1] /\ j + 1 \in DOMAIN w
    OBVIOUS
  <1> HIDE DEF v
  <1>2. Distinct(v)
    BY <1>1 DEF Distinct
  <1>3. \A d : In(v, d) => In(w, d) /\ d # Head(w)
    BY <1>1 DEF In, Distinct
  <1>4. ASSUME NEW d, In(w, d), d # Head(w) PROVE In(v, d)
    <2>1. PICK j \in DOMAIN w : w[j] = d
      BY <1>4 DEF In
    <2>2. j - 1 \in DOMAIN v /\ (j - 1) + 1 = j
      BY <1>1, <1>4, <2>1
    <2>3. v[j - 1] = w[j]
      BY <1>1, <2>2
    <2> QED
      BY <2>1, <2>2, <2>3 DEF In
  <1> QED
    BY <1>1, <1>2, <1>3, <1>4 DEF In, v

-----------------------------------------------------------------------------
(* The inductive invariant. *)

Queues == \A s \in Services : QueueOK(s, sent[s])

(* The consumers blocked on a list are those whose pop is blocked.          *)
Waits ==
  \A key \in Keys :
    /\ Distinct(waiting[key])
    /\ \A c \in Consumers : In(waiting[key], c) <=> BlockedOn(sent[c], key)

(* Redis serves who waits before it extends a list.                         *)
Served == \A key \in Keys : waiting[key] # <<>> => lists[key] = <<>>

Inv == TypeOK /\ Queues /\ Waits /\ Served

LEMMA KeyFacts ==
  \A k \in Names : ProducerKey(k) \in Keys /\ ConsumerKey(k) \in Keys
  BY DEF Keys

LEMMA ServiceFacts ==
  ASSUME NEW p \in Producers, NEW c \in Consumers
  PROVE  p # c /\ p \in Services /\ c \in Services
  BY ConfigAssumption DEF Services

LEMMA ReplyFacts ==
  ASSUME NEW q \in Seq(Command), NEW i \in DOMAIN q, NEW value
  PROVE  Reply(q, i, value) = Changed(q, i, "done", value)
  <1> DEFINE x == q[i]
  <1>1. x \in Command
    OBVIOUS
  <1>2. Reply(q, i, value) = [q EXCEPT ![i] = [[x EXCEPT !.state = "done"] EXCEPT !.value = value]]
    BY DEF Reply
  <1>3. Changed(q, i, "done", value) = [q EXCEPT ![i] = [x EXCEPT !.state = "done", !.value = value]]
    BY DEF Changed
  <1> HIDE DEF x
  <1>4. [[x EXCEPT !.state = "done"] EXCEPT !.value = value]
          = [x EXCEPT !.state = "done", !.value = value]
    BY <1>1 DEF Command
  <1> QED
    BY <1>2, <1>3, <1>4

(* Redis answers the foremost command of a queue.                           *)
LEMMA ReplyQueue ==
  ASSUME NEW s, NEW q, QueueOK(s, q), NEW i \in DOMAIN q, Foremost(q, i), q[i].state # "done",
         NEW value \in Elements \cup {None}, value # None => q[i].op \in Pops
  PROVE  /\ QueueOK(s, Reply(q, i, value))
         /\ \A key : ~ BlockedOn(Reply(q, i, value), key)
         /\ q[i].state = "new" => \A key : ~ BlockedOn(q, key)
  <1>1. Reply(q, i, value) = Changed(q, i, "done", value)
    BY ReplyFacts DEF QueueOK
  <1> QED
    BY <1>1, ChangedQueue

LEMMA TrimmedFacts ==
  ASSUME NEW list \in Seq(Elements), NEW range \in Int \X Int
  PROVE  Trimmed(list, range) \in Seq(Elements) /\ (list = <<>> => Trimmed(list, range) = <<>>)
  <1> DEFINE At(i) == IF i < 0 THEN Len(list) + i ELSE i
             from == IF At(range[1]) < 0 THEN 0 ELSE At(range[1])
             to == IF At(range[2]) < Len(list) THEN At(range[2]) + 1 ELSE Len(list)
  <1>1. /\ Len(list) \in Nat /\ range[1] \in Int /\ range[2] \in Int
        /\ \A i \in 1..Len(list) : list[i] \in Elements
    OBVIOUS
  <1>2. from + 1 \in Int /\ from + 1 >= 1 /\ to \in Int /\ to <= Len(list)
    BY <1>1
  <1>3. Trimmed(list, range) = SubSeq(list, from + 1, to)
    BY DEF Trimmed
  <1> HIDE DEF from, to
  <1>4. \A i \in (from + 1)..to : list[i] \in Elements
    BY <1>1, <1>2
  <1>5. SubSeq(list, from + 1, to) \in Seq(Elements)
    BY <1>2, <1>4, SubSeqProperties
  <1>6. ASSUME list = <<>> PROVE SubSeq(list, from + 1, to) = <<>>
    <2>1. to < from + 1
      BY <1>1, <1>2, <1>6
    <2> QED
      BY <1>2, <2>1, SubSeqEmpty
  <1> QED
    BY <1>3, <1>5, <1>6

LEMMA FrontFacts ==
  ASSUME NEW list \in Seq(Elements), list # <<>>
  PROVE  /\ Front(list) \in Seq(Elements) /\ Last(list) \in Elements
         /\ Len(Front(list)) = Len(list) - 1 /\ Last(list) = list[Len(list)]
         /\ \A i \in 1..(Len(list) - 1) : Front(list)[i] = list[i]
  <1> DEFINE n == Len(list) - 1
             f == SubSeq(list, 1, n)
  <1>1. Len(list) \in Nat \ {0} /\ list[Len(list)] \in Elements /\ n \in Nat
          /\ n = Len(list) - 1 /\ \A i \in 1..n : list[i] \in Elements
    OBVIOUS
  <1>2. Front(list) = f /\ Last(list) = list[Len(list)]
    BY DEF Front, Last
  <1>3. /\ f \in Seq(Elements)
        /\ Len(f) = IF 1 <= n THEN n - 1 + 1 ELSE 0
        /\ \A i \in 1..(n - 1 + 1) : f[i] = list[1 + i - 1]
    BY <1>1, SubSeqProperties
  <1> HIDE DEF f, n
  <1>4. Len(f) = n
    BY <1>1, <1>3
  <1>5. ASSUME NEW i \in 1..n PROVE f[i] = list[i]
    <2>1. i \in 1..(n - 1 + 1) /\ 1 + i - 1 = i
      BY <1>1
    <2>2. f[i] = list[1 + i - 1]
      BY <1>3, <2>1
    <2> QED
      BY <2>1, <2>2
  <1> QED
    BY <1>1, <1>2, <1>3, <1>4, <1>5

LEMMA InitHolds == Init => Inv
  <1> SUFFICES ASSUME Init PROVE Inv
    OBVIOUS
  <1>1. TypeOK
    BY ConfigAssumption DEF Init, TypeOK
  <1>2. \A s \in Services : sent[s] = <<>>
    BY DEF Init
  <1>3. \A key \in Keys : waiting[key] = <<>>
    BY DEF Init
  <1>4. Queues
    BY <1>2, EmptyQueue DEF Queues
  <1>5. Waits
    <2>1. \A c \in Consumers : sent[c] = <<>>
      BY <1>2 DEF Services
    <2> QED
      BY <1>3, <2>1, EmptyQueue DEF Waits, Distinct, In
  <1>6. Served
    BY <1>3 DEF Served
  <1> QED
    BY <1>1, <1>4, <1>5, <1>6 DEF Inv

-----------------------------------------------------------------------------
(* Calls. *)

LEMMA SendHolds ==
  ASSUME Inv, NEW s \in Services, NEW x \in Command, CommandOK(s, x), x.state = "new", Send(s, x)
  PROVE  Inv'
  <1> USE DEF Inv
  <1>1. /\ calls < MaxCalls /\ calls' = calls + 1
        /\ sent' = [sent EXCEPT ![s] = Append(sent[s], x)]
        /\ UNCHANGED <<lists, waiting, got, faults>>
    BY DEF Send
  <1>2. QueueOK(s, sent[s])
    BY DEF Queues
  <1>3. /\ QueueOK(s, Append(sent[s], x))
        /\ \A key : BlockedOn(Append(sent[s], x), key) <=> BlockedOn(sent[s], key)
    BY <1>2, AppendQueue
  <1>4. sent' \in [Services -> Seq(Command)]
    BY <1>1, <1>3 DEF TypeOK, QueueOK
  <1>5. \A t \in Services : sent'[t] = IF t = s THEN Append(sent[s], x) ELSE sent[t]
    BY <1>1 DEF TypeOK
  <1>6. TypeOK'
    <2>1. calls' \in 0..MaxCalls
      BY <1>1, ConfigAssumption DEF TypeOK
    <2> QED
      BY <1>1, <1>4, <2>1 DEF TypeOK
  <1>7. Queues'
    BY <1>3, <1>5 DEF Queues
  <1>8. Waits'
    <2>1. \A c \in Consumers, key \in Keys : BlockedOn(sent'[c], key) <=> BlockedOn(sent[c], key)
      BY <1>3, <1>5 DEF Services
    <2> QED
      BY <1>1, <2>1 DEF Waits
  <1>9. Served'
    BY <1>1 DEF Served
  <1> QED
    BY <1>6, <1>7, <1>8, <1>9

LEMMA AskFacts ==
  ASSUME calls \in Nat, MaxCalls \in Nat, calls < MaxCalls, NEW op \in Ops,
         NEW name \in Names \cup {<<>>}, NEW key \in Keys \cup {<<>>}
  PROVE  /\ Ask(op, name, key) \in Command
         /\ Ask(op, name, key).op = op /\ Ask(op, name, key).name = name
         /\ Ask(op, name, key).key = key /\ Ask(op, name, key).state = "new"
         /\ Ask(op, name, key).value = None /\ Ask(op, name, key).call = calls + 1
  <1>1. <<0, 0>> \in Int \X Int /\ calls + 1 \in 1..MaxCalls
    OBVIOUS
  <1> QED
    BY <1>1 DEF Ask, Command

(* A push makes an element that there was not.                              *)
Made(x) == x.op \in Pushes => x.element.call = calls + 1

ACall ==
  \E s \in Services, x \in Command :
    CommandOK(s, x) /\ x.state = "new" /\ Send(s, x) /\ Made(x)

LEMMA CallsSend ==
  ASSUME Inv, Calls
  PROVE  ACall
  <1>1. calls \in Nat /\ MaxCalls \in Nat /\ "READ" \in Ops /\ "LTRIM" \in Ops
          /\ "RPUSH" \in Ops /\ "LPUSH" \in Ops /\ "BLPOP" \in Ops /\ "BRPOP" \in Ops
    BY ConfigAssumption DEF Inv, TypeOK, Ops
  <1>2. ASSUME NEW s \in Services, Read(s) PROVE ACall
    <2>1. calls < MaxCalls
      BY <1>2 DEF Read, Send
    <2> DEFINE x == Ask("READ", <<>>, <<>>)
    <2>2. x \in Command /\ x.op = "READ" /\ x.state = "new" /\ x.value = None
      BY <1>1, <2>1, AskFacts
    <2> HIDE DEF x
    <2>3. CommandOK(s, x)
      BY <2>2 DEF CommandOK, Pushes, Pops
    <2>4. Send(s, x)
      BY <1>2 DEF Read, x
    <2> QED
      BY <2>2, <2>3, <2>4 DEF ACall, Made, Pushes
  <1>3. ASSUME NEW p \in Producers, NEW k \in PushNames, NEW op \in Pushes, Send(p, Push(op, k))
        PROVE  ACall
    <2>1. calls < MaxCalls /\ k \in Names /\ op \in Ops
      BY <1>3 DEF Send, Names, Pushes, Ops
    <2> DEFINE y == Ask(op, k, ProducerKey(k))
               e == [call |-> calls + 1, json |-> calls + 1 \notin Textual, left |-> op = "LPUSH"]
               x == Push(op, k)
    <2>2. y \in Command /\ y.op = op /\ y.state = "new" /\ y.value = None /\ y.name = k
            /\ y.key = ProducerKey(k)
      BY <1>1, <2>1, AskFacts, KeyFacts
    <2>3. e \in Elements /\ e.left = (op = "LPUSH")
      BY <1>1, <2>1 DEF Elements
    <2>4. x = [y EXCEPT !.element = e]
      BY DEF Push
    <2> HIDE DEF x, y, e
    <2>5. x \in Command /\ x.op = op /\ x.state = "new" /\ x.value = None /\ x.name = k
            /\ x.key = ProducerKey(k) /\ x.element = e
      BY <2>2, <2>3, <2>4 DEF Command
    <2>6. CommandOK(p, x)
      BY <2>1, <2>3, <2>5 DEF CommandOK, Pushes, Pops
    <2>7. Send(p, x) /\ p \in Services
      BY <1>3 DEF Services, x
    <2>8. e.call = calls + 1
      BY DEF e
    <2>9. Made(x)
      BY <1>3, <2>5, <2>8 DEF Made, Pushes
    <2> QED
      BY <2>5, <2>6, <2>7, <2>9 DEF ACall
  <1>4. ASSUME NEW p \in Producers, NEW k \in PushNames, NEW range \in Trims, Trim(p, k, range)
        PROVE  ACall
    <2>1. calls < MaxCalls /\ k \in Names /\ range \in Int \X Int
      BY <1>4, ConfigAssumption DEF Trim, Send, Names
    <2> DEFINE y == Ask("LTRIM", k, ProducerKey(k))
               x == [y EXCEPT !.range = range]
    <2>2. y \in Command /\ y.op = "LTRIM" /\ y.state = "new" /\ y.value = None /\ y.name = k
            /\ y.key = ProducerKey(k)
      BY <1>1, <2>1, AskFacts, KeyFacts
    <2>3. Send(p, x)
      BY <1>4 DEF Trim
    <2> HIDE DEF y
    <2>4. x \in Command /\ x.op = "LTRIM" /\ x.state = "new" /\ x.value = None /\ x.name = k
            /\ x.key = ProducerKey(k)
      BY <2>1, <2>2 DEF Command
    <2> HIDE DEF x
    <2>5. CommandOK(p, x)
      BY <2>1, <2>4 DEF CommandOK, Pushes, Pops
    <2>6. p \in Services /\ Made(x)
      BY <2>4 DEF Services, Made, Pushes
    <2> QED
      BY <2>3, <2>4, <2>5, <2>6 DEF ACall
  <1>5. ASSUME NEW c \in Consumers, NEW k \in PopNames, NEW timeout \in Timeouts, NEW op \in Pops,
               Send(c, Pop(op, c, k, timeout))
        PROVE  ACall
    <2>1. calls < MaxCalls /\ k \in Names /\ op \in Ops /\ timeout \in Nat
      BY <1>5, ConfigAssumption DEF Send, Names, Pops, Ops
    <2> DEFINE y == Ask(op, k, ConsumerKey(k))
               parse == c \in Parsing
               x == Pop(op, c, k, timeout)
    <2>2. y \in Command /\ y.op = op /\ y.state = "new" /\ y.value = None /\ y.name = k
            /\ y.key = ConsumerKey(k)
      BY <1>1, <2>1, AskFacts, KeyFacts
    <2>3. x = [y EXCEPT !.timeout = timeout, !.parse = parse] /\ parse \in BOOLEAN
      BY DEF Pop
    <2> HIDE DEF x, y, parse
    <2>4. x \in Command /\ x.op = op /\ x.state = "new" /\ x.value = None /\ x.name = k
            /\ x.key = ConsumerKey(k)
      BY <2>1, <2>2, <2>3 DEF Command
    <2>5. CommandOK(c, x)
      BY <2>1, <2>4 DEF CommandOK, Pushes, Pops
    <2>6. Send(c, x) /\ c \in Services
      BY <1>5 DEF Services, x
    <2>7. Made(x)
      BY <1>5, <2>4 DEF Made, Pushes, Pops
    <2> QED
      BY <2>4, <2>5, <2>6, <2>7 DEF ACall
  <1> QED
    BY <1>2, <1>3, <1>4, <1>5, ConfigAssumption DEF Calls, Rpush, Lpush, Blpop, Brpop, Pushes, Pops

LEMMA CallsHold == Inv /\ Calls => Inv'
  BY CallsSend, SendHolds DEF ACall

-----------------------------------------------------------------------------
(* Redis. *)

LEMMA NextFacts ==
  ASSUME Inv, NEW s \in Services, NEW i \in DOMAIN sent[s], IsNext(s, i)
  PROVE  /\ QueueOK(s, sent[s]) /\ Foremost(sent[s], i) /\ sent[s][i].state = "new"
         /\ sent[s][i] \in Command /\ CommandOK(s, sent[s][i])
  <1>1. QueueOK(s, sent[s])
    BY DEF Inv, Queues
  <1>2. sent[s][i] \in Command /\ CommandOK(s, sent[s][i])
    BY <1>1 DEF QueueOK
  <1> QED
    BY <1>1, <1>2 DEF IsNext, Foremost

(* A push finds nobody waiting.                                             *)
LEMMA ExtendHolds ==
  ASSUME Inv, NEW p \in Services, NEW i \in DOMAIN sent[p], IsNext(p, i),
         sent[p][i].op \in Pushes,
         waiting[sent[p][i].key] = <<>>,
         sent' = [sent EXCEPT ![p] = Reply(sent[p], i, None)],
         lists' = [lists EXCEPT ![sent[p][i].key] =
                     IF sent[p][i].op = "RPUSH" THEN Append(@, sent[p][i].element)
                     ELSE <<sent[p][i].element>> \o @],
         UNCHANGED <<waiting, got, calls, faults>>
  PROVE  Inv'
  <1> USE DEF Inv
  <1> DEFINE key == sent[p][i].key
             e == sent[p][i].element
             r == Reply(sent[p], i, None)
  <1>1. /\ QueueOK(p, sent[p]) /\ Foremost(sent[p], i) /\ sent[p][i].state = "new"
        /\ p \in Producers /\ key \in Keys /\ e \in Elements
    <2>1. sent[p][i].name \in Names /\ key = ProducerKey(sent[p][i].name)
      BY NextFacts DEF CommandOK
    <2> QED
      BY <2>1, NextFacts, KeyFacts DEF CommandOK
  <1>2. QueueOK(p, r)
    BY <1>1, ReplyQueue
  <1>3. r \in Seq(Command)
    BY <1>2 DEF QueueOK
  <1>4. \A t \in Services : sent'[t] = IF t = p THEN r ELSE sent[t]
    BY DEF TypeOK
  <1>5. sent' \in [Services -> Seq(Command)]
    BY <1>3 DEF TypeOK
  <1>6. lists' \in [Keys -> Seq(Elements)] /\ \A k \in Keys : k # key => lists'[k] = lists[k]
    <2>1. lists[key] \in Seq(Elements)
      BY <1>1 DEF TypeOK
    <2>2. Append(lists[key], e) \in Seq(Elements) /\ <<e>> \o lists[key] \in Seq(Elements)
      BY <1>1, <2>1
    <2> QED
      BY <1>1, <2>2 DEF TypeOK
  <1>7. TypeOK'
    BY <1>5, <1>6 DEF TypeOK
  <1>8. Queues'
    BY <1>2, <1>4 DEF Queues
  <1>9. Waits'
    <2>1. \A c \in Consumers : sent'[c] = sent[c]
      BY <1>1, <1>4, ServiceFacts
    <2> QED
      BY <2>1 DEF Waits
  <1>10. Served'
    BY <1>6 DEF Served
  <1> QED
    BY <1>7, <1>8, <1>9, <1>10

(* What a push finds when somebody waits.                                   *)
LEMMA BlockedFacts ==
  ASSUME Inv, NEW key \in Keys, waiting[key] # <<>>, NEW c, First(waiting[key], c)
  PROVE  /\ c \in Consumers /\ c \in Services /\ Blocked(c) \in DOMAIN sent[c]
         /\ sent[c][Blocked(c)].state = "blocked" /\ sent[c][Blocked(c)].key = key
         /\ QueueOK(c, sent[c]) /\ Foremost(sent[c], Blocked(c))
         /\ sent[c][Blocked(c)].op \in Pops
  <1>1. c \in Consumers /\ In(waiting[key], c)
    <2>1. waiting[key] \in Seq(Consumers) /\ Distinct(waiting[key])
      BY DEF Inv, TypeOK, Waits
    <2> QED
      BY <2>1, ServeFacts DEF First
  <1>2. c \in Services /\ QueueOK(c, sent[c])
    BY <1>1 DEF Inv, Queues, Services
  <1>3. PICK i \in DOMAIN sent[c] : sent[c][i].state = "blocked" /\ sent[c][i].key = key
    BY <1>1 DEF Inv, Waits, BlockedOn
  <1>4. Blocked(c) \in DOMAIN sent[c] /\ sent[c][Blocked(c)].state = "blocked"
    BY <1>3 DEF Blocked
  <1>5. Blocked(c) = i
    BY <1>2, <1>3, <1>4, OneBlocked
  <1>6. Foremost(sent[c], i)
    BY <1>2, <1>3, BlockedIsForemost
  <1>7. sent[c][i].op \in Pops
    BY <1>2, <1>3 DEF QueueOK, CommandOK
  <1> QED
    BY <1>1, <1>2, <1>3, <1>5, <1>6, <1>7

LEMMA BlockedOnThat ==
  ASSUME Inv, NEW key \in Keys, waiting[key] # <<>>, NEW c, First(waiting[key], c)
  PROVE  \A k \in Keys : BlockedOn(sent[c], k) <=> k = key
  <1>1. /\ QueueOK(c, sent[c]) /\ Blocked(c) \in DOMAIN sent[c]
        /\ sent[c][Blocked(c)].state = "blocked" /\ sent[c][Blocked(c)].key = key
    BY BlockedFacts
  <1> QED
    BY <1>1, OnlyBlocked

ServeStep(p, i, key, c) ==
  /\ sent' = [sent EXCEPT ![p] = Reply(@, i, None),
                          ![c] = Reply(@, Blocked(c), sent[p][i].element)]
  /\ waiting' = [waiting EXCEPT ![key] = Tail(@)]
  /\ UNCHANGED <<lists, got, calls, faults>>

LEMMA ServeHolds ==
  ASSUME Inv, NEW p \in Services, NEW i \in DOMAIN sent[p], IsNext(p, i),
         sent[p][i].op \in Pushes,
         NEW key, key = sent[p][i].key, waiting[key] # <<>>,
         NEW c, First(waiting[key], c),
         ServeStep(p, i, key, c)
  PROVE  Inv'
  <1> DEFINE e == sent[p][i].element
             r == Reply(sent[p], i, None)
             q == Reply(sent[c], Blocked(c), e)
  <1>1. /\ QueueOK(p, sent[p]) /\ Foremost(sent[p], i) /\ sent[p][i].state = "new"
        /\ p \in Producers /\ key \in Keys /\ e \in Elements
    <2>1. sent[p][i].name \in Names /\ key = ProducerKey(sent[p][i].name)
      BY NextFacts DEF CommandOK
    <2> QED
      BY <2>1, NextFacts, KeyFacts DEF CommandOK
  <1>2. /\ c \in Consumers /\ c \in Services /\ Blocked(c) \in DOMAIN sent[c]
        /\ sent[c][Blocked(c)].state = "blocked"
        /\ QueueOK(c, sent[c]) /\ Foremost(sent[c], Blocked(c))
        /\ sent[c][Blocked(c)].op \in Pops
        /\ \A k \in Keys : BlockedOn(sent[c], k) <=> k = key
    <2>1. key \in Keys
      BY <1>1
    <2>2. /\ c \in Consumers /\ c \in Services /\ Blocked(c) \in DOMAIN sent[c]
          /\ sent[c][Blocked(c)].state = "blocked"
      BY <2>1, BlockedFacts
    <2>3. /\ QueueOK(c, sent[c]) /\ Foremost(sent[c], Blocked(c))
          /\ sent[c][Blocked(c)].op \in Pops
          /\ sent[c][Blocked(c)].key = key
      BY <2>1, BlockedFacts
    <2>4. \A k \in Keys : BlockedOn(sent[c], k) <=> k = key
      BY <2>1, BlockedOnThat
    <2> QED
      BY <2>2, <2>3, <2>4
  <1> USE DEF Inv
  <1>3. p # c
    BY <1>1, <1>2, ServiceFacts
  <1>4. QueueOK(p, r)
    BY <1>1, ReplyQueue
  <1>5. QueueOK(c, q) /\ \A k : ~ BlockedOn(q, k)
    BY <1>1, <1>2, ReplyQueue
  <1>6. r \in Seq(Command) /\ q \in Seq(Command)
    BY <1>4, <1>5 DEF QueueOK
  <1> HIDE DEF r, q
  <1>7. sent' = [[sent EXCEPT ![p] = r] EXCEPT ![c] = q]
    BY <1>3 DEF TypeOK, ServeStep, r, q
  <1>8. sent' \in [Services -> Seq(Command)]
    BY <1>2, <1>6, <1>7 DEF TypeOK
  <1>9. \A t \in Services : sent'[t] = IF t = c THEN q ELSE IF t = p THEN r ELSE sent[t]
    BY <1>2, <1>3, <1>7 DEF TypeOK
  <1>10. waiting[key] \in Seq(Consumers) /\ Distinct(waiting[key])
    BY <1>1 DEF TypeOK, Waits
  <1>11. /\ Tail(waiting[key]) \in Seq(Consumers) /\ Distinct(Tail(waiting[key]))
         /\ \A d : In(Tail(waiting[key]), d) <=> In(waiting[key], d) /\ d # c
    BY <1>10, ServeFacts DEF First
  <1>12. waiting' \in [Keys -> Seq(Consumers)]
          /\ \A k \in Keys : waiting'[k] = IF k = key THEN Tail(waiting[key]) ELSE waiting[k]
    BY <1>1, <1>11 DEF TypeOK, ServeStep
  <1>13. TypeOK'
    BY <1>8, <1>12 DEF TypeOK, ServeStep
  <1>14. Queues'
    BY <1>4, <1>5, <1>9 DEF Queues
  <1>15. Waits'
    <2> SUFFICES ASSUME NEW k \in Keys
                 PROVE  /\ Distinct(waiting'[k])
                        /\ \A d \in Consumers : In(waiting'[k], d) <=> BlockedOn(sent'[d], k)
      BY DEF Waits
    <2>1. /\ Distinct(waiting[k])
          /\ \A d \in Consumers : In(waiting[k], d) <=> BlockedOn(sent[d], k)
      BY DEF Waits
    <2>2. \A d \in Consumers : d # c => sent'[d] = sent[d]
      BY <1>1, <1>9, ServiceFacts
    <2>3. sent'[c] = q
      BY <1>2, <1>9
    <2>4. CASE k = key
      BY <1>5, <1>11, <1>12, <2>1, <2>2, <2>3, <2>4
    <2>5. CASE k # key
      BY <1>2, <1>5, <1>12, <2>1, <2>2, <2>3, <2>5
    <2> QED
      BY <2>4, <2>5
  <1>16. Served'
    BY <1>12, <1>10, <1>1 DEF Served, ServeStep
  <1> QED
    BY <1>13, <1>14, <1>15, <1>16

(* A service other than those that wait gets an answer; the list shrinks.   *)
LEMMA TakeHolds ==
  ASSUME Inv, NEW s \in Services, NEW i \in DOMAIN sent[s], IsNext(s, i),
         NEW value \in Elements \cup {None}, value # None => sent[s][i].op \in Pops,
         sent' = [sent EXCEPT ![s] = Reply(sent[s], i, value)],
         lists' \in [Keys -> Seq(Elements)],
         \A key \in Keys : lists[key] = <<>> => lists'[key] = <<>>,
         UNCHANGED <<waiting, got, calls, faults>>
  PROVE  Inv'
  <1> USE DEF Inv
  <1> DEFINE r == Reply(sent[s], i, value)
  <1>1. /\ QueueOK(s, sent[s]) /\ Foremost(sent[s], i) /\ sent[s][i].state = "new"
    BY NextFacts
  <1>2. /\ QueueOK(s, r) /\ \A key : ~ BlockedOn(r, key)
        /\ \A key : ~ BlockedOn(sent[s], key)
    BY <1>1, ReplyQueue
  <1>3. r \in Seq(Command)
    BY <1>2 DEF QueueOK
  <1> HIDE DEF r
  <1>4. sent' \in [Services -> Seq(Command)]
          /\ \A t \in Services : sent'[t] = IF t = s THEN r ELSE sent[t]
    BY <1>3 DEF TypeOK, r
  <1>5. TypeOK'
    BY <1>4 DEF TypeOK
  <1>6. Queues'
    BY <1>2, <1>4 DEF Queues
  <1>7. Waits'
    <2>1. \A c \in Consumers, key \in Keys : BlockedOn(sent'[c], key) <=> BlockedOn(sent[c], key)
      BY <1>2, <1>4 DEF Services
    <2> QED
      BY <2>1 DEF Waits
  <1>8. Served'
    BY DEF Served
  <1> QED
    BY <1>5, <1>6, <1>7, <1>8

LEMMA BlockHolds ==
  ASSUME Inv, NEW c \in Services, NEW i \in DOMAIN sent[c], IsNext(c, i),
         sent[c][i].op \in Pops, NEW key, key = sent[c][i].key, lists[key] = <<>>,
         sent' = [sent EXCEPT ![c][i].state = "blocked"],
         waiting' = [waiting EXCEPT ![key] = Append(@, c)],
         UNCHANGED <<lists, got, calls, faults>>
  PROVE  Inv'
  <1> USE DEF Inv
  <1> DEFINE r == Changed(sent[c], i, "blocked", None)
  <1>1. /\ QueueOK(c, sent[c]) /\ Foremost(sent[c], i) /\ sent[c][i].state = "new"
        /\ c \in Consumers /\ key \in Keys
    <2>1. sent[c][i].name \in Names /\ key = ConsumerKey(sent[c][i].name)
      BY NextFacts DEF CommandOK
    <2> QED
      BY <2>1, NextFacts, KeyFacts DEF CommandOK
  <1>2. /\ QueueOK(c, r) /\ \A k : BlockedOn(r, k) <=> k = key
        /\ \A k : ~ BlockedOn(sent[c], k)
    BY <1>1, ChangedQueue
  <1>3. r \in Seq(Command)
    BY <1>2 DEF QueueOK
  <1>4. [sent[c] EXCEPT ![i].state = "blocked"] = r
    <2> DEFINE x == sent[c][i]
    <2>1. x \in Command /\ x.value = None
      BY NextFacts DEF CommandOK
    <2>2. /\ [sent[c] EXCEPT ![i].state = "blocked"] = [sent[c] EXCEPT ![i] = [x EXCEPT !.state = "blocked"]]
          /\ r = [sent[c] EXCEPT ![i] = [x EXCEPT !.state = "blocked", !.value = None]]
      BY DEF Changed
    <2> HIDE DEF x, r
    <2>3. [x EXCEPT !.state = "blocked"] = [x EXCEPT !.state = "blocked", !.value = None]
      BY <2>1 DEF Command
    <2> QED
      BY <2>2, <2>3
  <1> HIDE DEF r
  <1>5. sent' \in [Services -> Seq(Command)]
          /\ \A t \in Services : sent'[t] = IF t = c THEN r ELSE sent[t]
    BY <1>3, <1>4 DEF TypeOK
  <1>6. waiting[key] \in Seq(Consumers) /\ Distinct(waiting[key]) /\ ~ In(waiting[key], c)
    BY <1>1, <1>2 DEF TypeOK, Waits
  <1>7. /\ Append(waiting[key], c) \in Seq(Consumers) /\ Distinct(Append(waiting[key], c))
        /\ \A d : In(Append(waiting[key], c), d) <=> In(waiting[key], d) \/ d = c
    BY <1>1, <1>6, AppendWaiting
  <1>8. waiting' \in [Keys -> Seq(Consumers)]
          /\ \A k \in Keys : waiting'[k] = IF k = key THEN Append(waiting[key], c) ELSE waiting[k]
    BY <1>1, <1>7 DEF TypeOK
  <1>9. TypeOK'
    BY <1>5, <1>8 DEF TypeOK
  <1>10. Queues'
    BY <1>2, <1>5 DEF Queues
  <1>11. Waits'
    <2> SUFFICES ASSUME NEW k \in Keys
                 PROVE  /\ Distinct(waiting'[k])
                        /\ \A d \in Consumers : In(waiting'[k], d) <=> BlockedOn(sent'[d], k)
      BY DEF Waits
    <2>1. /\ Distinct(waiting[k])
          /\ \A d \in Consumers : In(waiting[k], d) <=> BlockedOn(sent[d], k)
      BY DEF Waits
    <2>2. \A d \in Consumers : sent'[d] = IF d = c THEN r ELSE sent[d]
      BY <1>5 DEF Services
    <2>3. CASE k = key
      BY <1>1, <1>2, <1>7, <1>8, <2>1, <2>2, <2>3
    <2>4. CASE k # key
      BY <1>1, <1>2, <1>8, <2>1, <2>2, <2>4
    <2> QED
      BY <2>3, <2>4
  <1>12. Served'
    BY <1>8 DEF Served
  <1> QED
    BY <1>9, <1>10, <1>11, <1>12

(* A push and a pop of the foremost command.                                *)
PushStep(s, i) ==
  /\ IsNext(s, i) /\ sent[s][i].op \in Pushes
  /\ UNCHANGED <<got, calls, faults>>
  /\ \/ /\ waiting[sent[s][i].key] # <<>>
        /\ \E c : /\ First(waiting[sent[s][i].key], c)
                  /\ ServeStep(s, i, sent[s][i].key, c)
     \/ /\ waiting[sent[s][i].key] = <<>>
        /\ sent' = [sent EXCEPT ![s] = Reply(@, i, None)]
        /\ lists' = [lists EXCEPT ![sent[s][i].key] =
                       IF sent[s][i].op = "RPUSH" THEN Append(@, sent[s][i].element)
                       ELSE <<sent[s][i].element>> \o @]
        /\ UNCHANGED waiting

PopStep(s, i) ==
  /\ IsNext(s, i) /\ sent[s][i].op \in Pops
  /\ UNCHANGED <<got, calls, faults>>
  /\ \/ /\ lists[sent[s][i].key] = <<>>
        /\ sent' = [sent EXCEPT ![s][i].state = "blocked"]
        /\ waiting' = [waiting EXCEPT ![sent[s][i].key] = Append(@, s)]
        /\ UNCHANGED lists
     \/ /\ lists[sent[s][i].key] # <<>>
        /\ sent[s][i].op = "BLPOP"
        /\ sent' = [sent EXCEPT ![s] = Reply(@, i, Head(lists[sent[s][i].key]))]
        /\ lists' = [lists EXCEPT ![sent[s][i].key] = Tail(@)]
        /\ UNCHANGED waiting
     \/ /\ lists[sent[s][i].key] # <<>>
        /\ sent[s][i].op = "BRPOP"
        /\ sent' = [sent EXCEPT ![s] = Reply(@, i, Last(lists[sent[s][i].key]))]
        /\ lists' = [lists EXCEPT ![sent[s][i].key] = Front(@)]
        /\ UNCHANGED waiting

LEMMA PushSteps ==
  ASSUME NEW s, ExecPush(s)
  PROVE  \E i \in DOMAIN sent[s] : PushStep(s, i)
  BY Zenon DEF ExecPush, PushStep, Pushes, ServeStep, First

LEMMA PopSteps ==
  ASSUME NEW s, ExecPop(s)
  PROVE  \E i \in DOMAIN sent[s] : PopStep(s, i)
  BY Zenon DEF ExecPop, PopStep, Pops

LEMMA ExecHolds == \A s \in Services : Inv /\ Exec(s) => Inv'
  <1> SUFFICES ASSUME NEW s \in Services, Inv, Exec(s) PROVE Inv'
    OBVIOUS
  <1>1. ASSUME ExecPush(s) PROVE Inv'
    <2>1. PICK i \in DOMAIN sent[s] : PushStep(s, i)
      BY <1>1, PushSteps
    <2>2. CASE waiting[sent[s][i].key] # <<>>
      BY <2>1, <2>2, ServeHolds DEF PushStep
    <2>3. CASE waiting[sent[s][i].key] = <<>>
      BY <2>1, <2>3, ExtendHolds DEF PushStep
    <2> QED
      BY <2>2, <2>3
  <1>2. ASSUME ExecPop(s) PROVE Inv'
    <2>1. PICK i \in DOMAIN sent[s] : PopStep(s, i)
      BY <1>2, PopSteps
    <2>2. sent[s][i].key \in Keys
      <3>1. sent[s][i].name \in Names /\ sent[s][i].key = ConsumerKey(sent[s][i].name)
        BY <2>1, NextFacts DEF CommandOK, PopStep
      <3> QED
        BY <3>1, KeyFacts, SMTT(30)
    <2>3. CASE lists[sent[s][i].key] = <<>>
      BY <2>1, <2>3, BlockHolds, SMTT(30) DEF PopStep
    <2>4. CASE lists[sent[s][i].key] # <<>>
      <3> DEFINE key == sent[s][i].key
      <3>1. lists[key] \in Seq(Elements) /\ lists[key] # <<>>
        BY <2>2, <2>4 DEF Inv, TypeOK
      <3>2. PICK value \in Elements, rest \in Seq(Elements) :
              /\ sent' = [sent EXCEPT ![s] = Reply(@, i, value)]
              /\ lists' = [lists EXCEPT ![key] = rest]
              /\ UNCHANGED <<waiting, got, calls, faults>>
        <4>1. Head(lists[key]) \in Elements /\ Tail(lists[key]) \in Seq(Elements)
          BY <3>1
        <4>2. Last(lists[key]) \in Elements /\ Front(lists[key]) \in Seq(Elements)
          BY <3>1, FrontFacts
        <4> HIDE DEF key
        <4> QED
          BY <2>1, <2>4, <4>1, <4>2 DEF key, PopStep
      <3>3. /\ lists' \in [Keys -> Seq(Elements)]
            /\ \A k \in Keys : lists[k] = <<>> => lists'[k] = <<>>
        BY <2>2, <3>1, <3>2 DEF Inv, TypeOK
      <3> QED
        BY <2>1, <3>2, <3>3, TakeHolds DEF PopStep
    <2> QED
      BY <2>3, <2>4
  <1>3. ASSUME ExecTrim(s) PROVE Inv'
    <2>1. PICK i \in DOMAIN sent[s] :
            /\ IsNext(s, i) /\ sent[s][i].op = "LTRIM"
            /\ sent' = [sent EXCEPT ![s] = Reply(@, i, None)]
            /\ lists' = [lists EXCEPT ![sent[s][i].key] = Trimmed(@, sent[s][i].range)]
            /\ UNCHANGED <<waiting, got, calls, faults>>
      BY <1>3 DEF ExecTrim
    <2> DEFINE key == sent[s][i].key
               rest == Trimmed(lists[key], sent[s][i].range)
    <2>2. key \in Keys /\ sent[s][i].range \in Int \X Int
      <3>1. sent[s][i].name \in Names /\ key = ProducerKey(sent[s][i].name)
        BY <2>1, NextFacts DEF CommandOK
      <3>2. sent[s][i] \in Command
        BY <2>1, NextFacts
      <3> QED
        BY <3>1, <3>2, KeyFacts DEF Command
    <2>3. lists[key] \in Seq(Elements)
      BY <2>2 DEF Inv, TypeOK
    <2>4. rest \in Seq(Elements) /\ (lists[key] = <<>> => rest = <<>>)
      BY <2>2, <2>3, TrimmedFacts
    <2>5. lists' = [lists EXCEPT ![key] = rest]
      BY <2>1
    <2> HIDE DEF rest
    <2>6. /\ lists' \in [Keys -> Seq(Elements)]
          /\ \A k \in Keys : lists[k] = <<>> => lists'[k] = <<>>
      BY <2>2, <2>4, <2>5 DEF Inv, TypeOK
    <2> QED
      BY <2>1, <2>6, TakeHolds
  <1>4. ASSUME ExecRead(s) PROVE Inv'
    <2>1. PICK i \in DOMAIN sent[s] :
            /\ IsNext(s, i)
            /\ sent' = [sent EXCEPT ![s] = Reply(@, i, None)]
            /\ UNCHANGED <<lists, waiting, got, calls, faults>>
      BY <1>4 DEF ExecRead
    <2>2. lists' \in [Keys -> Seq(Elements)]
      BY <2>1 DEF Inv, TypeOK
    <2> QED
      BY <2>1, <2>2, TakeHolds
  <1> QED
    BY <1>1, <1>2, <1>3, <1>4 DEF Exec

(* A service that gets nothing more: its pop is over, its queue is q.       *)
LEMMA LeaveHolds ==
  ASSUME Inv, NEW s \in Services, NEW q, QueueOK(s, q), \A key : ~ BlockedOn(q, key),
         sent' = [sent EXCEPT ![s] = q], StopWaiting(s),
         faults' \in 0..MaxFaults, UNCHANGED <<lists, got, calls>>
  PROVE  Inv'
  <1> USE DEF Inv
  <1>1. q \in Seq(Command)
    BY DEF QueueOK
  <1>2. /\ sent' \in [Services -> Seq(Command)]
        /\ \A t \in Services : sent'[t] = IF t = s THEN q ELSE sent[t]
    BY <1>1 DEF TypeOK
  <1>3. ASSUME NEW key \in Keys
        PROVE  /\ waiting'[key] \in Seq(Consumers) /\ Distinct(waiting'[key])
               /\ \A d : In(waiting'[key], d) <=> In(waiting[key], d) /\ d # s
               /\ waiting[key] = <<>> => waiting'[key] = <<>>
    <2>1. waiting[key] \in Seq(Consumers) /\ Distinct(waiting[key])
      BY DEF TypeOK, Waits
    <2>2. waiting'[key] = Without(waiting[key], s)
      BY DEF StopWaiting
    <2> QED
      BY <2>1, <2>2, WithoutFacts
  <1>4. waiting' \in [Keys -> Seq(Consumers)]
    <2>1. waiting' = [key \in Keys |-> waiting'[key]]
      BY DEF StopWaiting
    <2> QED
      BY <1>3, <2>1
  <1>5. TypeOK'
    BY <1>2, <1>4 DEF TypeOK
  <1>6. Queues'
    BY <1>2 DEF Queues
  <1>7. Waits'
    <2> SUFFICES ASSUME NEW key \in Keys, NEW c \in Consumers
                 PROVE  In(waiting'[key], c) <=> BlockedOn(sent'[c], key)
      BY <1>3 DEF Waits
    <2>1. In(waiting[key], c) <=> BlockedOn(sent[c], key)
      BY DEF Waits
    <2>2. sent'[c] = IF c = s THEN q ELSE sent[c]
      BY <1>2 DEF Services
    <2> QED
      BY <1>3, <2>1, <2>2
  <1>8. Served'
    BY <1>3 DEF Served
  <1> QED
    BY <1>5, <1>6, <1>7, <1>8

LEMMA ExpireHolds == \A s \in Services : Inv /\ Expire(s) => Inv'
  <1> SUFFICES ASSUME NEW s \in Services, Inv, Expire(s) PROVE Inv'
    OBVIOUS
  <1>1. PICK i \in DOMAIN sent[s] :
          /\ sent[s][i].state = "blocked"
          /\ sent' = [sent EXCEPT ![s] = Reply(@, i, None)]
          /\ StopWaiting(s) /\ UNCHANGED <<lists, got, calls, faults>>
    BY DEF Expire
  <1>2. QueueOK(s, sent[s])
    BY DEF Inv, Queues
  <1>3. Foremost(sent[s], i)
    BY <1>1, <1>2, BlockedIsForemost
  <1>4. QueueOK(s, Reply(sent[s], i, None)) /\ \A key : ~ BlockedOn(Reply(sent[s], i, None), key)
    BY <1>1, <1>2, <1>3, ReplyQueue
  <1>5. faults' \in 0..MaxFaults
    BY <1>1 DEF Inv, TypeOK
  <1> QED
    BY <1>1, <1>4, <1>5, LeaveHolds

LEMMA FaultHolds == \A s \in MayFail : Inv /\ (Crash(s) \/ Reconnect(s)) => Inv'
  <1> SUFFICES ASSUME NEW s \in MayFail, Inv, Crash(s) \/ Reconnect(s) PROVE Inv'
    OBVIOUS
  <1>1. s \in Services
    BY ConfigAssumption
  <1>2. /\ StopWaiting(s) /\ UNCHANGED <<lists, got, calls>>
        /\ faults' \in 0..MaxFaults
    <2>1. Fault(s)
      BY DEF Crash, Reconnect
    <2>2. /\ StopWaiting(s) /\ UNCHANGED <<lists, got, calls>>
          /\ faults < MaxFaults /\ faults' = faults + 1
      BY <2>1 DEF Fault
    <2>3. faults \in 0..MaxFaults /\ MaxFaults \in Nat
      BY ConfigAssumption DEF Inv, TypeOK
    <2>4. faults' \in 0..MaxFaults
      BY <2>2, <2>3
    <2> QED
      BY <2>2, <2>4
  <1>3. QueueOK(s, sent[s])
    BY <1>1 DEF Inv, Queues
  <1>4. CASE Crash(s)
    BY <1>1, <1>2, <1>4, EmptyQueue, LeaveHolds DEF Crash
  <1>5. CASE Reconnect(s)
    <2> DEFINE r == [i \in DOMAIN sent[s] |-> [sent[s][i] EXCEPT !.state = "new", !.value = None]]
    <2>1. sent' = [sent EXCEPT ![s] = r]
      BY <1>5 DEF Reconnect
    <2>2. QueueOK(s, r) /\ \A key : ~ BlockedOn(r, key)
      BY <1>3, ResetQueue
    <2> HIDE DEF r
    <2> QED
      BY <1>1, <1>2, <2>1, <2>2, LeaveHolds
  <1> QED
    BY <1>4, <1>5

Answers == [op : {"BLPOP", "BRPOP"}, name : Names, parse : BOOLEAN, value : Elements]

LEMMA AnswerHolds == \A s \in Services : Inv /\ Answer(s) => Inv'
  <1> SUFFICES ASSUME NEW s \in Services, Inv, Answer(s) PROVE Inv'
    OBVIOUS
  <1> USE DEF Inv
  <1> DEFINE x == Head(sent[s])
  <1>1. /\ sent[s] # <<>> /\ x.state = "done" /\ sent' = [sent EXCEPT ![s] = Tail(@)]
        /\ UNCHANGED <<lists, waiting, calls, faults>>
    BY DEF Answer
  <1>2. QueueOK(s, sent[s])
    BY DEF Queues
  <1>3. /\ QueueOK(s, Tail(sent[s])) /\ x \in Command /\ CommandOK(s, x)
        /\ \A key : BlockedOn(Tail(sent[s]), key) <=> BlockedOn(sent[s], key)
    BY <1>1, <1>2, TailQueue
  <1>4. Tail(sent[s]) \in Seq(Command)
    BY <1>3 DEF QueueOK
  <1>5. /\ sent' \in [Services -> Seq(Command)]
        /\ \A t \in Services : sent'[t] = IF t = s THEN Tail(sent[s]) ELSE sent[t]
    BY <1>1, <1>4 DEF TypeOK
  <1>6. /\ got' \in [Consumers -> Seq(Answers)]
        /\ \A c \in Consumers : \A i \in DOMAIN got'[c] :
             got'[c][i].parse => got'[c][i].value.json
    <2>1. CASE Deserialized(x) = None
      BY <2>1 DEF Answer, TypeOK, Answers
    <2>2. CASE Deserialized(x) # None
      <3> DEFINE e == [op |-> x.op, name |-> x.name, parse |-> x.parse, value |-> Deserialized(x)]
      <3>1. /\ Deserialized(x) = x.value /\ x.value # None
            /\ x.parse => x.value.json
        BY <2>2 DEF Deserialized
      <3>2. s \in Consumers /\ x.name \in Names /\ x.op \in {"BLPOP", "BRPOP"}
        BY <1>3, <3>1 DEF CommandOK, Pops
      <3>3. x.value \in Elements /\ x.parse \in BOOLEAN
        BY <1>3, <3>1 DEF Command
      <3>4. got' = [got EXCEPT ![s] = Append(@, e)]
        BY <2>2 DEF Answer
      <3>5. /\ e \in Answers
            /\ e.parse => e.value.json
        BY <3>1, <3>2, <3>3 DEF Answers
      <3> HIDE DEF e, x
      <3>6. got[s] \in Seq(Answers)
              /\ \A i \in DOMAIN got[s] : got[s][i].parse => got[s][i].value.json
        BY <3>2 DEF TypeOK, Answers
      <3>7. /\ Append(got[s], e) \in Seq(Answers)
            /\ \A i \in DOMAIN Append(got[s], e) :
                 Append(got[s], e)[i].parse => Append(got[s], e)[i].value.json
        <4>1. Len(got[s]) \in Nat /\ DOMAIN got[s] = 1..Len(got[s])
                /\ DOMAIN Append(got[s], e) = 1..(Len(got[s]) + 1)
                /\ Append(got[s], e)[Len(got[s]) + 1] = e
                /\ \A i \in DOMAIN got[s] : Append(got[s], e)[i] = got[s][i]
          BY <3>5, <3>6
        <4> QED
          BY <3>5, <3>6, <4>1
      <3> QED
        BY <3>2, <3>4, <3>7 DEF TypeOK, Answers
    <2> QED
      BY <2>1, <2>2
  <1> HIDE DEF x
  <1>7. TypeOK'
    BY <1>1, <1>5, <1>6 DEF TypeOK, Answers
  <1>8. Queues'
    BY <1>3, <1>5 DEF Queues
  <1>9. Waits'
    <2>1. \A c \in Consumers, key \in Keys : BlockedOn(sent'[c], key) <=> BlockedOn(sent[c], key)
      BY <1>3, <1>5 DEF Services
    <2> QED
      BY <1>1, <2>1 DEF Waits
  <1>10. Served'
    BY <1>1 DEF Served
  <1> QED
    BY <1>7, <1>8, <1>9, <1>10

LEMMA StutterHolds == Inv /\ UNCHANGED vars => Inv'
  BY DEF Inv, TypeOK, Queues, Waits, Served, vars

LEMMA NextHolds == Inv /\ [Next]_vars => Inv'
  <1> SUFFICES ASSUME Inv, [Next]_vars PROVE Inv'
    OBVIOUS
  <1>1. CASE Calls
    BY <1>1, CallsHold
  <1>2. ASSUME NEW s \in Services, Exec(s) \/ Expire(s) \/ Answer(s) PROVE Inv'
    BY <1>2, ExecHolds, ExpireHolds, AnswerHolds
  <1>3. ASSUME NEW s \in MayFail, Crash(s) \/ Reconnect(s) PROVE Inv'
    BY <1>3, FaultHolds
  <1>4. CASE Sleep \/ UNCHANGED vars
    BY <1>4, StutterHolds DEF Sleep
  <1> QED
    BY <1>1, <1>2, <1>3, <1>4 DEF Next

LEMMA Invariance == Spec => []Inv
  BY InitHolds, NextHolds, PTL DEF Spec

(* Whatever the services send and however often they fail: elements and     *)
(* commands keep their types, and a parsing call returns only what was JSON.*)
THEOREM TypeCorrect == Spec => []TypeOK
  BY Invariance, PTL DEF Inv

-----------------------------------------------------------------------------
(* No consumer waits beside a list that has elements. *)

LEMMA IdleFacts == QueuePrefix # Unset /\ Inv => NoIdleConsumer
  <1> SUFFICES ASSUME QueuePrefix # Unset, Inv, NEW c \in Consumers, NEW i \in DOMAIN sent[c],
                      sent[c][i].state = "blocked"
               PROVE  lists[ProducerKey(sent[c][i].name)] = <<>>
    BY DEF NoIdleConsumer
  <1> DEFINE key == sent[c][i].key
  <1>1. CommandOK(c, sent[c][i])
    BY DEF Inv, Queues, QueueOK, Services
  <1>2. sent[c][i].name \in Names /\ key = ConsumerKey(sent[c][i].name)
    BY <1>1 DEF CommandOK
  <1>3. ProducerKey(sent[c][i].name) = key
    BY <1>2 DEF ProducerKey, ConsumerKey, Prefix
  <1>4. key \in Keys
    BY <1>2, KeyFacts
  <1>5. BlockedOn(sent[c], key)
    BY DEF BlockedOn
  <1>6. In(waiting[key], c)
    BY <1>4, <1>5 DEF Inv, Waits
  <1>7. waiting[key] # <<>>
    BY <1>6 DEF In
  <1> QED
    BY <1>3, <1>4, <1>7 DEF Inv, Served

(* Once queueOptions.prefix is set, no interleaving of pushes, pops, trims, *)
(* timeouts and faults leaves a consumer waiting beside elements pushed     *)
(* under its key.                                                           *)
THEOREM NoIdleConsumerHolds ==
  ASSUME QueuePrefix # Unset
  PROVE  Spec => []NoIdleConsumer
  BY Invariance, IdleFacts, PTL

-----------------------------------------------------------------------------
(* The order in which one producer's elements reach each consumer. *)

(* One service pushes, which does not fail.                                 *)
Orderly == (\A s, t \in Producers : s = t) /\ Producers \cap MayFail = {}

(* An element makes its way from the producer's queue to a list, to a       *)
(* consumer's queue and to the application.  Those that cross one list in   *)
(* one direction are on one lane.                                           *)
Lanes == Keys \X BOOLEAN

Fills(x, e, lane) == e # None /\ Crossed(x.op, e) /\ lane = <<x.key, e.left>>

Carried(x, lane) == Fills(x, x.value, lane)

Brought(x, lane) == Crossed(x.op, x.value) /\ lane = <<ConsumerKey(x.name), x.value.left>>

ComingIn(q, n) ==
  \E i \in DOMAIN q : q[i].op \in Pushes /\ q[i].state # "done" /\ q[i].element.call = n

Listed(list, left, n) == \E i \in DOMAIN list : list[i].left = left /\ list[i].call = n

HeldIn(q, lane, n) == \E i \in DOMAIN q : Carried(q[i], lane) /\ q[i].value.call = n

GotIn(g, lane, n) == \E i \in DOMAIN g : Brought(g[i], lane) /\ g[i].value.call = n

Lying(lane, n) == Listed(lists[lane[1]], lane[2], n)

Coming(n) == \E s \in Services : ComingIn(sent[s], n)

(* In each place the elements are in order.                                 *)
Sorted(q) ==
  /\ \A i, j \in DOMAIN q :
       i < j /\ q[i].op \in Pushes /\ q[j].op \in Pushes
         => q[i].element.call < q[j].element.call
  /\ \A lane : \A i, j \in DOMAIN q :
       i < j /\ Carried(q[i], lane) /\ Carried(q[j], lane)
         => q[i].value.call < q[j].value.call

(* Right pushes lie in a list in their order, left ones in the reverse.     *)
ListSorted(list) ==
  \A i, j \in DOMAIN list :
    i < j /\ list[i].left = list[j].left
      => IF list[i].left THEN list[j].call < list[i].call ELSE list[i].call < list[j].call

GotSorted(g) ==
  \A lane : \A i, j \in DOMAIN g :
    i < j /\ Brought(g[i], lane) /\ Brought(g[j], lane)
      => g[i].value.call < g[j].value.call

Numbered(q, n) == \A i \in DOMAIN q : q[i].op \in Pushes => q[i].element.call <= n

InPlace ==
  /\ \A s \in Services : Sorted(sent[s]) /\ Numbered(sent[s], calls)
  /\ \A key \in Keys : ListSorted(lists[key])
  /\ \A c \in Consumers : GotSorted(got[c])

(* And what is further on its way was pushed earlier.                       *)
ListFirst ==
  \A lane \in Lanes : \A m, n \in Nat : Lying(lane, m) /\ Coming(n) => m < n

HeldFirst ==
  \A c \in Consumers, lane \in Lanes, m, n \in Nat :
    HeldIn(sent[c], lane, m) /\ (Lying(lane, n) \/ Coming(n)) => m < n

GotFirst ==
  \A c \in Consumers, lane \in Lanes, m, n \in Nat :
    GotIn(got[c], lane, m)
      /\ (HeldIn(sent[c], lane, n) \/ Lying(lane, n) \/ Coming(n)) => m < n

(* No element has a number yet to be given.                                 *)
Known ==
  \A n \in Nat, lane \in Lanes :
    /\ Lying(lane, n) => n <= calls
    /\ \A c \in Consumers : HeldIn(sent[c], lane, n) \/ GotIn(got[c], lane, n) => n <= calls

OrderInv == InPlace /\ ListFirst /\ HeldFirst /\ GotFirst /\ Known

LEMMA CallFacts == \A e \in Elements : e.call \in Nat
  BY ConfigAssumption DEF Elements

LEMMA SentFacts ==
  ASSUME NEW s, NEW q, QueueOK(s, q), NEW i \in DOMAIN q
  PROVE  /\ i \in Nat /\ DOMAIN q = 1..Len(q) /\ Len(q) \in Nat
         /\ q[i] \in Command /\ CommandOK(s, q[i])
         /\ q[i].op \in Pushes => q[i].element.call \in Nat
         /\ q[i].value # None =>
              q[i].value.call \in Nat /\ q[i].op \in Pops /\ q[i].state = "done"
  <1>1. i \in Nat /\ DOMAIN q = 1..Len(q) /\ Len(q) \in Nat /\ q[i] \in Command
    BY DEF QueueOK
  <1>2. CommandOK(s, q[i])
    BY DEF QueueOK
  <1>3. q[i].op \in Pushes => q[i].element \in Elements
    BY <1>2 DEF CommandOK
  <1>4. q[i].value # None => q[i].value \in Elements /\ q[i].op \in Pops /\ q[i].state = "done"
    BY <1>1, <1>2 DEF Command, CommandOK
  <1> QED
    BY <1>1, <1>2, <1>3, <1>4, CallFacts

LEMMA EmptySorted ==
  ASSUME NEW n
  PROVE  /\ Sorted(<<>>) /\ Numbered(<<>>, n)
         /\ \A lane, m : ~ HeldIn(<<>>, lane, m)
         /\ \A m : ~ ComingIn(<<>>, m)
  BY DEF Sorted, Numbered, HeldIn, ComingIn

(* A new command is the last in its queue.                                  *)
LEMMA AppendSorted ==
  ASSUME NEW s, NEW q, QueueOK(s, q), Sorted(q), NEW n \in Nat, Numbered(q, n),
         NEW x \in Command, CommandOK(s, x), x.state = "new",
         x.op \in Pushes => x.element.call = n + 1
  PROVE  /\ Sorted(Append(q, x)) /\ Numbered(Append(q, x), n + 1)
         /\ \A lane, m : HeldIn(Append(q, x), lane, m) => HeldIn(q, lane, m)
         /\ \A m : ComingIn(Append(q, x), m) => ComingIn(q, m) \/ m = n + 1
  <1> DEFINE r == Append(q, x)
  <1>1. /\ Len(q) \in Nat /\ DOMAIN q = 1..Len(q) /\ DOMAIN r = 1..(Len(q) + 1)
        /\ r[Len(q) + 1] = x /\ \A i \in DOMAIN q : r[i] = q[i]
    BY DEF QueueOK
  <1>2. x.value = None
    BY DEF CommandOK
  <1>3. \A i \in DOMAIN q : q[i].op \in Pushes => q[i].element.call \in Nat /\ q[i].element.call <= n
    BY SentFacts DEF Numbered
  <1> HIDE DEF r
  <1>5. ASSUME NEW i \in DOMAIN r, NEW j \in DOMAIN r, i < j, r[i].op \in Pushes, r[j].op \in Pushes
        PROVE  r[i].element.call < r[j].element.call
    <2>1. i \in DOMAIN q /\ r[i] = q[i]
      BY <1>1, <1>5
    <2>2. CASE j = Len(q) + 1
      <3>1. q[i].element.call \in Nat /\ q[i].element.call <= n
        BY <1>3, <1>5, <2>1
      <3>2. r[j].element.call = n + 1
        BY <1>1, <1>5, <2>2
      <3> QED
        BY <2>1, <3>1, <3>2
    <2>3. CASE j # Len(q) + 1
      <3>1. j \in DOMAIN q /\ r[j] = q[j]
        BY <1>1, <2>3
      <3> QED
        BY <1>5, <2>1, <3>1 DEF Sorted
    <2> QED
      BY <2>2, <2>3
  <1>6. ASSUME NEW lane, NEW i \in DOMAIN r, NEW j \in DOMAIN r, i < j,
               Carried(r[i], lane), Carried(r[j], lane)
        PROVE  r[i].value.call < r[j].value.call
    <2>1. i \in DOMAIN q /\ r[i] = q[i]
      BY <1>1, <1>6
    <2>2. j \in DOMAIN q /\ r[j] = q[j]
      BY <1>1, <1>2, <1>6 DEF Carried, Fills
    <2> QED
      BY <1>6, <2>1, <2>2 DEF Sorted
  <1>7. Numbered(r, n + 1)
    <2> SUFFICES ASSUME NEW i \in DOMAIN r, r[i].op \in Pushes PROVE r[i].element.call <= n + 1
      BY DEF Numbered
    <2> QED
      BY <1>1, <1>3
  <1>8. \A lane, m : HeldIn(r, lane, m) => HeldIn(q, lane, m)
    BY <1>1, <1>2 DEF HeldIn, Carried, Fills
  <1>9. \A m : ComingIn(r, m) => ComingIn(q, m) \/ m = n + 1
    BY <1>1 DEF ComingIn
  <1>10. Sorted(r)
    BY <1>5, <1>6 DEF Sorted
  <1> QED
    BY <1>7, <1>8, <1>9, <1>10 DEF r

(* An answer leaves its queue.                                              *)
LEMMA TailSorted ==
  ASSUME NEW s, NEW q, QueueOK(s, q), Sorted(q), NEW n, Numbered(q, n), q # <<>>
  PROVE  /\ Sorted(Tail(q)) /\ Numbered(Tail(q), n)
         /\ \A lane, m : HeldIn(Tail(q), lane, m) => HeldIn(q, lane, m)
         /\ \A m : ComingIn(Tail(q), m) => ComingIn(q, m)
         /\ \A lane : Carried(Head(q), lane) =>
              /\ HeldIn(q, lane, Head(q).value.call)
              /\ \A m : HeldIn(Tail(q), lane, m) => Head(q).value.call < m
  <1> DEFINE r == Tail(q)
  <1>1. /\ Len(q) \in Nat \ {0} /\ DOMAIN q = 1..Len(q) /\ DOMAIN r = 1..(Len(q) - 1)
        /\ Head(q) = q[1] /\ 1 \in DOMAIN q
        /\ \A i \in DOMAIN r : i \in Nat /\ r[i] = q[i + 1] /\ i + 1 \in DOMAIN q /\ 1 < i + 1
    BY DEF QueueOK
  <1> HIDE DEF r
  <1>2. \A i, j \in DOMAIN r : i < j => i + 1 < j + 1
    BY <1>1
  <1>4. \A i, j \in DOMAIN r :
          i < j /\ r[i].op \in Pushes /\ r[j].op \in Pushes
            => r[i].element.call < r[j].element.call
    BY <1>1, <1>2 DEF Sorted
  <1>5. \A lane : \A i, j \in DOMAIN r :
          i < j /\ Carried(r[i], lane) /\ Carried(r[j], lane)
            => r[i].value.call < r[j].value.call
    BY <1>1, <1>2 DEF Sorted
  <1>6. Numbered(r, n)
    BY <1>1 DEF Numbered
  <1>7. \A lane, m : HeldIn(r, lane, m) => HeldIn(q, lane, m)
    BY <1>1 DEF HeldIn
  <1>8. \A m : ComingIn(r, m) => ComingIn(q, m)
    BY <1>1 DEF ComingIn
  <1>9. ASSUME NEW lane, Carried(Head(q), lane)
        PROVE  /\ HeldIn(q, lane, Head(q).value.call)
               /\ \A m : HeldIn(r, lane, m) => Head(q).value.call < m
    <2>1. HeldIn(q, lane, Head(q).value.call)
      BY <1>1, <1>9 DEF HeldIn
    <2>2. ASSUME NEW m, HeldIn(r, lane, m) PROVE Head(q).value.call < m
      <3>1. PICK i \in DOMAIN r : Carried(r[i], lane) /\ r[i].value.call = m
        BY <2>2 DEF HeldIn
      <3> QED
        BY <1>1, <1>9, <3>1 DEF Sorted
    <2> QED
      BY <2>1, <2>2
  <1>10. Sorted(r)
    BY <1>4, <1>5 DEF Sorted
  <1> QED
    BY <1>6, <1>7, <1>8, <1>9, <1>10 DEF r

(* The foremost command blocks, or gets an answer later than those before.  *)
LEMMA ChangedSorted ==
  ASSUME NEW s, NEW q, QueueOK(s, q), Sorted(q), NEW n, Numbered(q, n),
         NEW i \in DOMAIN q, Foremost(q, i), q[i].state # "done",
         NEW state \in {"blocked", "done"}, NEW value \in Elements \cup {None},
         \A lane, m : Fills(q[i], value, lane) /\ HeldIn(q, lane, m) => m < value.call
  PROVE  LET r == Changed(q, i, state, value) IN
         /\ Sorted(r) /\ Numbered(r, n)
         /\ \A lane, m : HeldIn(r, lane, m) =>
              HeldIn(q, lane, m) \/ (Fills(q[i], value, lane) /\ m = value.call)
         /\ \A m : ComingIn(r, m) => ComingIn(q, m)
         /\ q[i].op \in Pushes /\ state = "done" =>
              \A m : ComingIn(r, m) => q[i].element.call < m
  <1> DEFINE r == Changed(q, i, state, value)
  <1>1. /\ DOMAIN r = DOMAIN q /\ DOMAIN q = 1..Len(q) /\ Len(q) \in Nat
        /\ r[i].state = state /\ r[i].value = value
        /\ \A j \in DOMAIN q :
             /\ r[j].op = q[j].op /\ r[j].key = q[j].key /\ r[j].element = q[j].element
             /\ j # i => r[j] = q[j]
    <2>1. q \in Seq(Command)
      BY DEF QueueOK
    <2>2. /\ DOMAIN r = DOMAIN q /\ DOMAIN q = 1..Len(q) /\ Len(q) \in Nat
          /\ r[i].state = state /\ r[i].value = value
          /\ r[i].op = q[i].op /\ r[i].key = q[i].key /\ r[i].element = q[i].element
          /\ \A j \in DOMAIN q : j # i => r[j] = q[j]
      BY <2>1, ChangedFacts
    <2> HIDE DEF r
    <2> QED
      BY <2>2
  <1> HIDE DEF r
  <1>2. \A j \in DOMAIN q : i < j => q[j].value = None
    <2> SUFFICES ASSUME NEW j \in DOMAIN q, i < j PROVE q[j].value = None
      OBVIOUS
    <2>1. q[j].state = "new"
      BY DEF QueueOK, InLine
    <2> QED
      BY <2>1, SentFacts
  <1>3. /\ \A lane : Carried(r[i], lane) <=> Fills(q[i], value, lane)
        /\ \A j \in DOMAIN q : i < j => \A lane : ~ Carried(r[j], lane)
    BY <1>1, <1>2 DEF Carried, Fills
  <1>4. \A j, k \in DOMAIN r :
          j < k /\ r[j].op \in Pushes /\ r[k].op \in Pushes
            => r[j].element.call < r[k].element.call
    BY <1>1 DEF Sorted
  <1>5. ASSUME NEW lane, NEW j \in DOMAIN r, NEW k \in DOMAIN r, j < k,
               Carried(r[j], lane), Carried(r[k], lane)
        PROVE  r[j].value.call < r[k].value.call
    <2>1. j # i /\ j \in DOMAIN q /\ r[j] = q[j]
      BY <1>1, <1>3, <1>5
    <2>2. CASE k = i
      <3>1. HeldIn(q, lane, r[j].value.call)
        BY <1>5, <2>1 DEF HeldIn
      <3>2. Fills(q[i], value, lane)
        BY <1>3, <1>5, <2>2
      <3> QED
        BY <1>1, <2>2, <3>1, <3>2
    <2>3. CASE k # i
      BY <1>1, <1>5, <2>1, <2>3 DEF Sorted
    <2> QED
      BY <2>2, <2>3
  <1>6. Numbered(r, n)
    BY <1>1 DEF Numbered
  <1>7. \A lane, m : HeldIn(r, lane, m) =>
          HeldIn(q, lane, m) \/ (Fills(q[i], value, lane) /\ m = value.call)
    BY <1>1, <1>3 DEF HeldIn
  <1>8. \A m : ComingIn(r, m) => ComingIn(q, m)
    BY <1>1 DEF ComingIn
  <1>9. ASSUME q[i].op \in Pushes, state = "done", NEW m, ComingIn(r, m) PROVE q[i].element.call < m
    <2>1. PICK j \in DOMAIN r : r[j].op \in Pushes /\ r[j].state # "done" /\ r[j].element.call = m
      BY <1>9 DEF ComingIn
    <2>2. j # i /\ r[j] = q[j]
      BY <1>1, <1>9, <2>1
    <2>3. ~ (j < i)
      BY <1>1, <2>1, <2>2 DEF Foremost
    <2>4. i < j
      BY <1>1, <2>2, <2>3
    <2> QED
      BY <1>1, <1>9, <2>1, <2>2, <2>4 DEF Sorted
  <1>10. Sorted(r)
    BY <1>4, <1>5 DEF Sorted
  <1> QED
    BY <1>6, <1>7, <1>8, <1>9, <1>10 DEF r

LEMMA NothingFills == \A x, lane : ~ Fills(x, None, lane)
  BY DEF Fills

LEMMA ReplySorted ==
  ASSUME NEW s, NEW q, QueueOK(s, q), Sorted(q), NEW n, Numbered(q, n),
         NEW i \in DOMAIN q, Foremost(q, i), q[i].state # "done",
         NEW value \in Elements \cup {None},
         \A lane, m : Fills(q[i], value, lane) /\ HeldIn(q, lane, m) => m < value.call
  PROVE  /\ Sorted(Reply(q, i, value)) /\ Numbered(Reply(q, i, value), n)
         /\ \A lane, m : HeldIn(Reply(q, i, value), lane, m) =>
              HeldIn(q, lane, m) \/ (Fills(q[i], value, lane) /\ m = value.call)
         /\ \A m : ComingIn(Reply(q, i, value), m) => ComingIn(q, m)
         /\ q[i].op \in Pushes =>
              \A m : ComingIn(Reply(q, i, value), m) => q[i].element.call < m
  <1>1. Reply(q, i, value) = Changed(q, i, "done", value)
    BY ReplyFacts DEF QueueOK
  <1> QED
    BY <1>1, ChangedSorted

(* What a consumer sends again holds nothing.                               *)
Again(q) == [i \in DOMAIN q |-> [q[i] EXCEPT !.state = "new", !.value = None]]

LEMMA AgainSorted ==
  ASSUME NEW s \in Consumers, NEW q, QueueOK(s, q), Sorted(q), NEW n, Numbered(q, n)
  PROVE  /\ Sorted(Again(q)) /\ Numbered(Again(q), n)
         /\ \A lane, m : ~ HeldIn(Again(q), lane, m)
         /\ \A m : ~ ComingIn(Again(q), m)
  <1>1. DOMAIN Again(q) = DOMAIN q
    BY DEF Again
  <1>2. ASSUME NEW i \in DOMAIN q
        PROVE  /\ Again(q)[i].value = None /\ Again(q)[i].op = q[i].op
               /\ Again(q)[i].key = q[i].key /\ Again(q)[i].op \notin Pushes
    <2>1. q[i] \in Command /\ CommandOK(s, q[i])
      BY SentFacts
    <2>2. q[i].op \notin Pushes
      BY <2>1, ConfigAssumption DEF CommandOK
    <2>3. PICK x \in Command : x = q[i]
      BY <2>1
    <2>4. Again(q)[i] = [x EXCEPT !.state = "new", !.value = None]
      BY <2>3 DEF Again
    <2>5. [x EXCEPT !.state = "new", !.value = None].value = None
            /\ [x EXCEPT !.state = "new", !.value = None].op = x.op
            /\ [x EXCEPT !.state = "new", !.value = None].key = x.key
      BY <2>3 DEF Command
    <2> QED
      BY <2>2, <2>3, <2>4, <2>5
  <1>3. \A lane : \A i \in DOMAIN Again(q) : ~ Carried(Again(q)[i], lane)
    BY <1>1, <1>2 DEF Carried, Fills
  <1>4. Sorted(Again(q))
    BY <1>1, <1>2, <1>3 DEF Sorted
  <1>5. Numbered(Again(q), n)
    BY <1>1, <1>2 DEF Numbered
  <1>6. \A lane, m : ~ HeldIn(Again(q), lane, m)
    BY <1>1, <1>3 DEF HeldIn
  <1>7. \A m : ~ ComingIn(Again(q), m)
    BY <1>1, <1>2 DEF ComingIn
  <1> QED
    BY <1>4, <1>5, <1>6, <1>7

(* Lists. *)

LEMMA ListFacts ==
  ASSUME NEW list \in Seq(Elements), NEW left, NEW n, Listed(list, left, n)
  PROVE  n \in Nat
  BY CallFacts DEF Listed

(* A push later than the others of its side.                                *)
LEMMA RightSorted ==
  ASSUME NEW list \in Seq(Elements), ListSorted(list), NEW e \in Elements, ~ e.left,
         \A m : Listed(list, e.left, m) => m < e.call
  PROVE  /\ ListSorted(Append(list, e))
         /\ \A left, m : Listed(Append(list, e), left, m) =>
              Listed(list, left, m) \/ (left = e.left /\ m = e.call)
  <1> DEFINE r == Append(list, e)
  <1>1. /\ Len(list) \in Nat /\ DOMAIN list = 1..Len(list) /\ DOMAIN r = 1..(Len(list) + 1)
        /\ r[Len(list) + 1] = e /\ \A i \in DOMAIN list : r[i] = list[i]
    OBVIOUS
  <1> HIDE DEF r
  <1>2. \A i \in DOMAIN list : list[i].left = e.left => list[i].call < e.call
    BY DEF Listed
  <1>3. ASSUME NEW i \in DOMAIN r, NEW j \in DOMAIN r, i < j, r[i].left = r[j].left
        PROVE  IF r[i].left THEN r[j].call < r[i].call ELSE r[i].call < r[j].call
    <2>1. i \in DOMAIN list /\ r[i] = list[i]
      BY <1>1, <1>3
    <2>2. CASE j = Len(list) + 1
      BY <1>1, <1>2, <1>3, <2>1, <2>2
    <2>3. CASE j # Len(list) + 1
      <3>1. j \in DOMAIN list /\ r[j] = list[j]
        BY <1>1, <2>3
      <3> QED
        BY <1>3, <2>1, <3>1 DEF ListSorted
    <2> QED
      BY <2>2, <2>3
  <1>4. ListSorted(r)
    BY <1>3 DEF ListSorted
  <1>5. \A left, m : Listed(r, left, m) => Listed(list, left, m) \/ (left = e.left /\ m = e.call)
    BY <1>1 DEF Listed
  <1> QED
    BY <1>4, <1>5 DEF r

LEMMA LeftSorted ==
  ASSUME NEW list \in Seq(Elements), ListSorted(list), NEW e \in Elements, e.left,
         \A m : Listed(list, e.left, m) => m < e.call
  PROVE  /\ ListSorted(<<e>> \o list)
         /\ \A left, m : Listed(<<e>> \o list, left, m) =>
              Listed(list, left, m) \/ (left = e.left /\ m = e.call)
  <1> DEFINE r == <<e>> \o list
  <1>1. /\ Len(list) \in Nat /\ DOMAIN list = 1..Len(list) /\ DOMAIN r = 1..(Len(list) + 1)
        /\ r[1] = e /\ \A i \in 2..(Len(list) + 1) : r[i] = list[i - 1]
    OBVIOUS
  <1> HIDE DEF r
  <1>2. \A i \in DOMAIN list : list[i].left = e.left => list[i].call < e.call
    BY DEF Listed
  <1>3. ASSUME NEW i \in DOMAIN r, NEW j \in DOMAIN r, i < j, r[i].left = r[j].left
        PROVE  IF r[i].left THEN r[j].call < r[i].call ELSE r[i].call < r[j].call
    <2>1. r[j] = list[j - 1] /\ j - 1 \in DOMAIN list
      BY <1>1, <1>3
    <2>2. CASE i = 1
      BY <1>1, <1>2, <1>3, <2>1, <2>2
    <2>3. CASE i # 1
      <3>1. r[i] = list[i - 1] /\ i - 1 \in DOMAIN list /\ i - 1 < j - 1
        BY <1>1, <1>3, <2>3
      <3> QED
        BY <1>3, <2>1, <3>1 DEF ListSorted
    <2> QED
      BY <2>2, <2>3
  <1>4. ListSorted(r)
    BY <1>3 DEF ListSorted
  <1>5. ASSUME NEW left, NEW m, Listed(r, left, m)
        PROVE  Listed(list, left, m) \/ (left = e.left /\ m = e.call)
    <2>1. PICK i \in DOMAIN r : r[i].left = left /\ r[i].call = m
      BY <1>5 DEF Listed
    <2>2. CASE i = 1
      BY <1>1, <2>1, <2>2
    <2>3. CASE i # 1
      <3>1. r[i] = list[i - 1] /\ i - 1 \in DOMAIN list
        BY <1>1, <2>3
      <3> QED
        BY <2>1, <3>1 DEF Listed
    <2> QED
      BY <2>2, <2>3
  <1> QED
    BY <1>4, <1>5 DEF r

(* Whatever keeps a stretch of a list keeps its order.                      *)
Stretch(r, list, k, n) ==
  DOMAIN r = 1..n /\ \A i \in 1..n : i + k \in DOMAIN list /\ r[i] = list[i + k]

LEMMA StretchSorted ==
  ASSUME NEW list \in Seq(Elements), ListSorted(list),
         NEW r, NEW k \in Nat, NEW n \in Nat, Stretch(r, list, k, n)
  PROVE  ListSorted(r) /\ \A left, m : Listed(r, left, m) => Listed(list, left, m)
  <1>1. \A i, j \in 1..n : i < j => i + k < j + k
    OBVIOUS
  <1>2. ListSorted(r)
    BY <1>1 DEF ListSorted, Stretch
  <1>3. \A left, m : Listed(r, left, m) => Listed(list, left, m)
    BY DEF Listed, Stretch
  <1> QED
    BY <1>2, <1>3

(* A pop takes an element and leaves the rest; of those it makes cross, it  *)
(* takes the one pushed first.                                              *)
Popped(list, e, rest) ==
  /\ ListSorted(rest) /\ Listed(list, e.left, e.call)
  /\ \A left, m : Listed(rest, left, m) => Listed(list, left, m)

LEMMA TailList ==
  ASSUME NEW list \in Seq(Elements), list # <<>>, ListSorted(list)
  PROVE  /\ Popped(list, Head(list), Tail(list))
         /\ ~ Head(list).left => \A m : Listed(Tail(list), Head(list).left, m) => Head(list).call < m
  <1> DEFINE r == Tail(list)
             n == Len(list) - 1
  <1>1. /\ n \in Nat /\ DOMAIN r = 1..n /\ DOMAIN list = 1..(n + 1) /\ Head(list) = list[1]
        /\ \A i \in 1..n : i + 1 \in DOMAIN list /\ r[i] = list[i + 1]
    OBVIOUS
  <1> HIDE DEF r, n
  <1>2. ListSorted(r) /\ \A left, m : Listed(r, left, m) => Listed(list, left, m)
    <2>1. Stretch(r, list, 1, n)
      BY <1>1 DEF Stretch
    <2> QED
      BY <1>1, <2>1, StretchSorted
  <1>3. 1 \in DOMAIN list /\ \A i \in 1..n : 1 < i + 1
    BY <1>1
  <1>4. ASSUME ~ Head(list).left, NEW m, Listed(r, Head(list).left, m) PROVE Head(list).call < m
    <2>1. PICK i \in 1..n : r[i].left = Head(list).left /\ r[i].call = m
      BY <1>1, <1>4 DEF Listed
    <2>2. i + 1 \in DOMAIN list /\ 1 < i + 1 /\ r[i] = list[i + 1]
      BY <1>1, <1>3
    <2> QED
      BY <1>1, <1>3, <1>4, <2>1, <2>2 DEF ListSorted
  <1>5. Listed(list, Head(list).left, Head(list).call)
    BY <1>1, <1>3 DEF Listed
  <1> QED
    BY <1>2, <1>4, <1>5 DEF r, Popped

LEMMA FrontList ==
  ASSUME NEW list \in Seq(Elements), list # <<>>, ListSorted(list)
  PROVE  /\ Popped(list, Last(list), Front(list))
         /\ Last(list).left => \A m : Listed(Front(list), Last(list).left, m) => Last(list).call < m
  <1> DEFINE r == Front(list)
             n == Len(list) - 1
  <1>1. /\ n \in Nat /\ DOMAIN r = 1..n /\ DOMAIN list = 1..(n + 1) /\ Last(list) = list[n + 1]
        /\ \A i \in 1..n : i \in DOMAIN list /\ r[i] = list[i] /\ i < n + 1
    <2>1. /\ r \in Seq(Elements) /\ Len(r) = n /\ Last(list) = list[n + 1]
          /\ \A i \in 1..n : r[i] = list[i]
      BY FrontFacts
    <2>2. n \in Nat /\ DOMAIN list = 1..(n + 1)
      OBVIOUS
    <2> HIDE DEF r, n
    <2> QED
      BY <2>1, <2>2
  <1> HIDE DEF r, n
  <1>2. \A i \in 1..n : i + 0 \in DOMAIN list /\ r[i] = list[i + 0]
    BY <1>1
  <1>3. ListSorted(r) /\ \A left, m : Listed(r, left, m) => Listed(list, left, m)
    <2>1. Stretch(r, list, 0, n)
      BY <1>1, <1>2 DEF Stretch
    <2> QED
      BY <1>1, <2>1, StretchSorted
  <1>4. n + 1 \in DOMAIN list
    BY <1>1
  <1>5. Last(list).left => \A m : Listed(r, Last(list).left, m) => Last(list).call < m
    BY <1>1, <1>4 DEF Listed, ListSorted
  <1>6. Listed(list, Last(list).left, Last(list).call)
    BY <1>1, <1>4 DEF Listed
  <1> QED
    BY <1>3, <1>5, <1>6 DEF r, Popped

LEMMA TrimmedStretch ==
  ASSUME NEW list \in Seq(Elements), NEW range \in Int \X Int
  PROVE  \E k, n \in Nat : Stretch(Trimmed(list, range), list, k, n)
  <1> DEFINE At(i) == IF i < 0 THEN Len(list) + i ELSE i
             from == IF At(range[1]) < 0 THEN 0 ELSE At(range[1])
             to == IF At(range[2]) < Len(list) THEN At(range[2]) + 1 ELSE Len(list)
             r == SubSeq(list, from + 1, to)
             n == IF from + 1 <= to THEN to - from ELSE 0
  <1>1. /\ Len(list) \in Nat /\ range[1] \in Int /\ range[2] \in Int /\ DOMAIN list = 1..Len(list)
        /\ \A i \in 1..Len(list) : list[i] \in Elements
    OBVIOUS
  <1>2. from \in Nat /\ to \in Int /\ to <= Len(list)
    BY <1>1
  <1>3. Trimmed(list, range) = r
    BY DEF Trimmed
  <1> HIDE DEF from, to
  <1>4. n \in Nat
    BY <1>2
  <1>5. \A i \in (from + 1)..to : list[i] \in Elements
    BY <1>1, <1>2
  <1>6. /\ r \in Seq(Elements)
        /\ Len(r) = IF from + 1 <= to THEN to - (from + 1) + 1 ELSE 0
        /\ \A i \in 1..(to - (from + 1) + 1) : r[i] = list[(from + 1) + i - 1]
    BY <1>2, <1>5, SubSeqProperties, SMTT(30)
  <1> HIDE DEF r
  <1>7. DOMAIN r = 1..n
    BY <1>2, <1>6
  <1>8. ASSUME NEW i \in 1..n PROVE i + from \in DOMAIN list /\ r[i] = list[i + from]
    <2>1. i \in 1..(to - (from + 1) + 1) /\ (from + 1) + i - 1 = i + from /\ i + from \in DOMAIN list
      BY <1>1, <1>2
    <2> QED
      BY <1>6, <2>1
  <1>9. Stretch(r, list, from, n)
    BY <1>7, <1>8 DEF Stretch
  <1> HIDE DEF n
  <1> QED
    BY <1>2, <1>3, <1>4, <1>9

LEMMA TrimmedList ==
  ASSUME NEW list \in Seq(Elements), NEW range \in Int \X Int, ListSorted(list)
  PROVE  /\ ListSorted(Trimmed(list, range))
         /\ \A left, m : Listed(Trimmed(list, range), left, m) => Listed(list, left, m)
  BY TrimmedStretch, StretchSorted

-----------------------------------------------------------------------------
(* How an element may move. *)

LEMMA ShrinkOrder ==
  ASSUME OrderInv, InPlace', UNCHANGED calls,
         \A c \in Consumers, lane \in Lanes, n \in Nat :
           /\ HeldIn(sent'[c], lane, n) => HeldIn(sent[c], lane, n)
           /\ GotIn(got'[c], lane, n) => GotIn(got[c], lane, n),
         \A lane \in Lanes, n \in Nat : Lying(lane, n)' => Lying(lane, n),
         \A n \in Nat : Coming(n)' => Coming(n)
  PROVE  OrderInv'
  <1> USE DEF OrderInv
  <1>1. ListFirst'
    BY DEF ListFirst
  <1>2. HeldFirst'
    BY DEF HeldFirst
  <1>3. GotFirst'
    BY DEF GotFirst
  <1>4. Known'
    BY DEF Known
  <1> QED
    BY <1>1, <1>2, <1>3, <1>4

(* From a list or from its producer to a consumer.                          *)
Taken(s, way, e) ==
  /\ \A c \in Consumers, lane \in Lanes, n \in Nat :
       HeldIn(sent'[c], lane, n) => HeldIn(sent[c], lane, n) \/ (c = s /\ lane = way /\ n = e)
  /\ \A lane \in Lanes, n \in Nat : Lying(lane, n)' => Lying(lane, n)
  /\ \A n \in Nat : Coming(n)' => Coming(n)
  /\ \A n \in Nat : Lying(way, n)' \/ Coming(n)' => e < n
  /\ \A m \in Nat : HeldIn(sent[s], way, m) \/ GotIn(got[s], way, m) => m < e

LEMMA TakeOrder ==
  ASSUME OrderInv, InPlace', UNCHANGED <<got, calls>>,
         NEW s \in Consumers, NEW way \in Lanes, NEW e \in Nat, e <= calls, Taken(s, way, e)
  PROVE  OrderInv'
  <1> USE DEF OrderInv, Taken
  <1>1. ListFirst'
    BY DEF ListFirst
  <1>2. HeldFirst'
    BY DEF HeldFirst
  <1>3. GotFirst'
    BY DEF GotFirst
  <1>4. Known'
    BY DEF Known
  <1> QED
    BY <1>1, <1>2, <1>3, <1>4

(* From the producer to a list.                                             *)
LEMMA ExtendOrder ==
  ASSUME OrderInv, InPlace', UNCHANGED <<got, calls>>,
         NEW way \in Lanes, NEW e \in Nat, e <= calls, Coming(e),
         \A c \in Consumers, lane \in Lanes, n \in Nat :
           HeldIn(sent'[c], lane, n) => HeldIn(sent[c], lane, n),
         \A lane \in Lanes, n \in Nat :
           Lying(lane, n)' => Lying(lane, n) \/ (lane = way /\ n = e),
         \A n \in Nat : Coming(n)' => Coming(n) /\ e < n
  PROVE  OrderInv'
  <1> USE DEF OrderInv
  <1>1. ListFirst'
    BY DEF ListFirst
  <1>2. HeldFirst'
    BY DEF HeldFirst
  <1>3. GotFirst'
    BY DEF GotFirst
  <1>4. Known'
    BY DEF Known
  <1> QED
    BY <1>1, <1>2, <1>3, <1>4

(* From a consumer to its application.                                      *)
LEMMA AnswerOrder ==
  ASSUME OrderInv, InPlace', UNCHANGED <<lists, calls>>,
         NEW s \in Consumers, NEW way \in Lanes, NEW e \in Nat, HeldIn(sent[s], way, e),
         \A c \in Consumers, lane \in Lanes, n \in Nat :
           /\ HeldIn(sent'[c], lane, n) => HeldIn(sent[c], lane, n)
           /\ GotIn(got'[c], lane, n) => GotIn(got[c], lane, n) \/ (c = s /\ lane = way /\ n = e),
         \A n \in Nat : Coming(n)' => Coming(n),
         \A n \in Nat : HeldIn(sent'[s], way, n) => e < n
  PROVE  OrderInv'
  <1> USE DEF OrderInv
  <1>1. ListFirst'
    BY DEF ListFirst, Lying
  <1>2. HeldFirst'
    BY DEF HeldFirst, Lying
  <1>3. GotFirst'
    BY DEF GotFirst, HeldFirst, Lying
  <1>4. Known'
    BY DEF Known, Lying
  <1> QED
    BY <1>1, <1>2, <1>3, <1>4

(* A new call.                                                              *)
LEMMA SendOrder ==
  ASSUME OrderInv, InPlace', UNCHANGED <<lists, got>>, calls \in Nat, calls' = calls + 1,
         \A c \in Consumers, lane \in Lanes, n \in Nat :
           HeldIn(sent'[c], lane, n) => HeldIn(sent[c], lane, n),
         \A n \in Nat : Coming(n)' => Coming(n) \/ n = calls + 1
  PROVE  OrderInv'
  <1> USE DEF OrderInv
  <1>1. ListFirst'
    BY DEF ListFirst, Known, Lying
  <1>2. HeldFirst'
    BY DEF HeldFirst, Known, Lying
  <1>3. GotFirst'
    BY DEF GotFirst, Known, Lying
  <1>4. Known'
    BY DEF Known, Lying
  <1> QED
    BY <1>1, <1>2, <1>3, <1>4

-----------------------------------------------------------------------------
(* The steps. *)

LEMMA ComingFrom ==
  ASSUME Inv, Orderly, NEW p \in Producers, NEW t \in Services, t # p, NEW n
  PROVE  ~ ComingIn(sent[t], n)
  <1> SUFFICES ASSUME ComingIn(sent[t], n) PROVE FALSE
    OBVIOUS
  <1>1. PICK i \in DOMAIN sent[t] : sent[t][i].op \in Pushes
    BY DEF ComingIn
  <1>2. CommandOK(t, sent[t][i])
    BY DEF Inv, Queues, QueueOK
  <1>3. t \in Producers
    BY <1>1, <1>2 DEF CommandOK
  <1> QED
    BY <1>3 DEF Orderly

LEMMA HeldFacts ==
  ASSUME NEW s, NEW q, QueueOK(s, q), NEW lane, NEW n, HeldIn(q, lane, n)
  PROVE  n \in Nat
  BY SentFacts DEF HeldIn, Carried, Fills

(* One queue changes.                                                       *)
LEMMA QueueStep ==
  ASSUME Inv, InPlace, NEW s \in Services, NEW r, sent' = [sent EXCEPT ![s] = r],
         calls' \in Nat, calls <= calls', Sorted(r), Numbered(r, calls')
  PROVE  /\ \A t \in Services : sent'[t] = IF t = s THEN r ELSE sent[t]
         /\ \A t \in Services : Sorted(sent'[t]) /\ Numbered(sent'[t], calls')
         /\ (\A m : ComingIn(r, m) => ComingIn(sent[s], m)) => \A n : Coming(n)' => Coming(n)
  <1>1. \A t \in Services : sent'[t] = IF t = s THEN r ELSE sent[t]
    BY DEF Inv, TypeOK
  <1>2. ASSUME NEW t \in Services PROVE Numbered(sent[t], calls')
    <2> SUFFICES ASSUME NEW i \in DOMAIN sent[t], sent[t][i].op \in Pushes
                 PROVE  sent[t][i].element.call <= calls'
      BY DEF Numbered
    <2>1. QueueOK(t, sent[t])
      BY DEF Inv, Queues
    <2>2. sent[t][i].element.call \in Nat /\ sent[t][i].element.call <= calls
      BY <2>1, SentFacts DEF InPlace, Numbered
    <2>3. calls \in Nat
      BY ConfigAssumption DEF Inv, TypeOK
    <2> QED
      BY <2>2, <2>3
  <1>3. \A t \in Services : Sorted(sent'[t]) /\ Numbered(sent'[t], calls')
    BY <1>1, <1>2 DEF InPlace
  <1>4. (\A m : ComingIn(r, m) => ComingIn(sent[s], m)) => \A n : Coming(n)' => Coming(n)
    BY <1>1 DEF Coming
  <1> QED
    BY <1>1, <1>3, <1>4

(* One list changes.                                                        *)
LEMMA ListStep ==
  ASSUME Inv, InPlace, NEW key \in Keys, NEW rest, lists' = [lists EXCEPT ![key] = rest],
         ListSorted(rest)
  PROVE  /\ \A k \in Keys : ListSorted(lists'[k])
         /\ \A left, n : Lying(<<key, left>>, n)' <=> Listed(rest, left, n)
         /\ \A lane \in Lanes : \A n : lane[1] # key => (Lying(lane, n)' <=> Lying(lane, n))
         /\ (\A left, n : Listed(rest, left, n) => Listed(lists[key], left, n))
              => \A lane \in Lanes, n \in Nat : Lying(lane, n)' => Lying(lane, n)
  <1>1. \A k \in Keys : lists'[k] = IF k = key THEN rest ELSE lists[k]
    BY DEF Inv, TypeOK
  <1>2. \A lane \in Lanes : lane[1] \in Keys
    BY DEF Lanes
  <1> QED
    BY <1>1, <1>2 DEF InPlace, Lying

LEMMA InitOrder == Init => OrderInv
  <1> SUFFICES ASSUME Init PROVE OrderInv
    OBVIOUS
  <1>1. \A s \in Services : sent[s] = <<>>
    BY DEF Init
  <1>2. \A key \in Keys : lists[key] = <<>>
    BY DEF Init
  <1>3. \A c \in Consumers : got[c] = <<>> /\ sent[c] = <<>>
    BY <1>1 DEF Init, Services
  <1>4. InPlace
    BY <1>1, <1>2, <1>3, EmptySorted DEF InPlace, ListSorted, GotSorted
  <1>5. \A lane \in Lanes : \A n : ~ Lying(lane, n)
    BY <1>2 DEF Lanes, Lying, Listed
  <1>6. ListFirst
    BY <1>5 DEF ListFirst
  <1>7. HeldFirst
    BY <1>3, EmptySorted DEF HeldFirst
  <1>8. GotFirst
    BY <1>3 DEF GotFirst, GotIn
  <1>9. Known
    BY <1>3, <1>5, EmptySorted DEF Known, GotIn
  <1> QED
    BY <1>4, <1>6, <1>7, <1>8, <1>9 DEF OrderInv

LEMMA SendOrdered ==
  ASSUME Inv, OrderInv, NEW s \in Services, NEW x \in Command, CommandOK(s, x), x.state = "new",
         x.op \in Pushes => x.element.call = calls + 1, Send(s, x)
  PROVE  OrderInv'
  <1> DEFINE r == Append(sent[s], x)
  <1>1. /\ calls \in Nat /\ calls' = calls + 1 /\ sent' = [sent EXCEPT ![s] = r]
        /\ UNCHANGED <<lists, got>>
    BY ConfigAssumption DEF Send, Inv, TypeOK
  <1>2. QueueOK(s, sent[s]) /\ Sorted(sent[s]) /\ Numbered(sent[s], calls)
    BY DEF Inv, Queues, OrderInv, InPlace
  <1>3. /\ Sorted(r) /\ Numbered(r, calls + 1)
        /\ \A lane, m : HeldIn(r, lane, m) => HeldIn(sent[s], lane, m)
        /\ \A m : ComingIn(r, m) => ComingIn(sent[s], m) \/ m = calls + 1
    BY <1>1, <1>2, AppendSorted
  <1> HIDE DEF r
  <1>4. /\ \A t \in Services : sent'[t] = IF t = s THEN r ELSE sent[t]
        /\ \A t \in Services : Sorted(sent'[t]) /\ Numbered(sent'[t], calls')
    <2>1. calls' \in Nat /\ calls <= calls' /\ Numbered(r, calls') /\ InPlace
      BY <1>1, <1>3 DEF OrderInv
    <2> QED
      BY <1>1, <1>3, <2>1, QueueStep
  <1>5. InPlace'
    BY <1>1, <1>4 DEF InPlace, OrderInv
  <1>6. \A c \in Consumers, lane \in Lanes, n \in Nat :
          HeldIn(sent'[c], lane, n) => HeldIn(sent[c], lane, n)
    BY <1>3, <1>4 DEF Services
  <1>7. \A n \in Nat : Coming(n)' => Coming(n) \/ n = calls + 1
    BY <1>3, <1>4 DEF Coming
  <1> QED
    BY <1>1, <1>5, <1>6, <1>7, SendOrder

(* A push that finds nobody waiting.                                        *)
LEMMA ExtendOrdered ==
  ASSUME Inv, Orderly, OrderInv, NEW p \in Services, NEW i \in DOMAIN sent[p], IsNext(p, i),
         sent[p][i].op \in Pushes,
         sent' = [sent EXCEPT ![p] = Reply(sent[p], i, None)],
         lists' = [lists EXCEPT ![sent[p][i].key] =
                     IF sent[p][i].op = "RPUSH" THEN Append(@, sent[p][i].element)
                     ELSE <<sent[p][i].element>> \o @],
         UNCHANGED <<waiting, got, calls, faults>>
  PROVE  OrderInv'
  <1> DEFINE key == sent[p][i].key
             e == sent[p][i].element
             r == Reply(sent[p], i, None)
             rest == IF sent[p][i].op = "RPUSH" THEN Append(lists[key], e) ELSE <<e>> \o lists[key]
  <1>1. /\ QueueOK(p, sent[p]) /\ Foremost(sent[p], i) /\ sent[p][i].state = "new"
        /\ p \in Producers /\ key \in Keys /\ e \in Elements
    <2>1. sent[p][i].name \in Names /\ key = ProducerKey(sent[p][i].name)
      BY NextFacts DEF CommandOK
    <2> QED
      BY <2>1, NextFacts, KeyFacts DEF CommandOK
  <1>2. /\ Sorted(sent[p]) /\ Numbered(sent[p], calls)
        /\ lists[key] \in Seq(Elements) /\ ListSorted(lists[key]) /\ <<key, e.left>> \in Lanes
        /\ calls \in Nat /\ e.call \in Nat
    <2>1. e.left \in BOOLEAN
      BY <1>1 DEF Elements
    <2>2. <<key, e.left>> \in Lanes
      BY <1>1, <2>1 DEF Lanes
    <2> QED
      BY <1>1, <2>2, CallFacts, ConfigAssumption DEF Inv, TypeOK, OrderInv, InPlace
  <1>3. Coming(e.call) /\ e.call <= calls
    BY <1>1, <1>2 DEF Coming, ComingIn, Numbered
  <1>4. /\ Sorted(r) /\ Numbered(r, calls)
        /\ \A lane, m : HeldIn(r, lane, m) => HeldIn(sent[p], lane, m)
        /\ \A m : ComingIn(r, m) => ComingIn(sent[p], m)
        /\ \A m : ComingIn(r, m) => e.call < m
    BY <1>1, <1>2, NothingFills, ReplySorted
  <1>5. \A m : Listed(lists[key], e.left, m) => m < e.call
    <2>1. \A m \in Nat : Lying(<<key, e.left>>, m) => m < e.call
      BY <1>2, <1>3 DEF OrderInv, ListFirst
    <2>2. \A m : Lying(<<key, e.left>>, m) <=> Listed(lists[key], e.left, m)
      BY DEF Lying
    <2> QED
      BY <1>2, <2>1, <2>2, ListFacts
  <1>6. /\ ListSorted(rest)
        /\ \A left, m : Listed(rest, left, m) => Listed(lists[key], left, m) \/ (left = e.left /\ m = e.call)
    <2>1. e.left = (sent[p][i].op = "LPUSH")
      BY <1>1, SentFacts DEF CommandOK
    <2>2. CASE sent[p][i].op = "RPUSH"
      <3>1. rest = Append(lists[key], e) /\ ~ e.left
        BY <2>1, <2>2
      <3> HIDE DEF rest, key, e
      <3> QED
        BY <1>1, <1>2, <1>5, <3>1, RightSorted
    <2>3. CASE sent[p][i].op = "LPUSH"
      <3>1. rest = <<e>> \o lists[key] /\ e.left
        BY <2>1, <2>3
      <3> HIDE DEF rest, key, e
      <3> QED
        BY <1>1, <1>2, <1>5, <3>1, LeftSorted
    <2> QED
      BY <2>2, <2>3 DEF Pushes
  <1>7. sent' = [sent EXCEPT ![p] = r] /\ lists' = [lists EXCEPT ![key] = rest]
    OBVIOUS
  <1> HIDE DEF r, rest, e, key
  <1>8. /\ \A t \in Services : sent'[t] = IF t = p THEN r ELSE sent[t]
        /\ \A t \in Services : Sorted(sent'[t]) /\ Numbered(sent'[t], calls')
    <2>1. calls' \in Nat /\ calls <= calls' /\ Numbered(r, calls') /\ InPlace
      BY <1>2, <1>4 DEF OrderInv
    <2> QED
      BY <1>4, <1>7, <2>1, QueueStep
  <1>9. PICK place, longer, new : place = key /\ longer = rest /\ new = e
    OBVIOUS
  <1>10. /\ \A k \in Keys : ListSorted(lists'[k])
         /\ \A left, n : Lying(<<place, left>>, n)' <=> Listed(longer, left, n)
         /\ \A lane \in Lanes : \A n : lane[1] # place => (Lying(lane, n)' <=> Lying(lane, n))
    <2>1. InPlace /\ place \in Keys /\ ListSorted(longer) /\ lists' = [lists EXCEPT ![place] = longer]
      BY <1>1, <1>6, <1>7, <1>9 DEF OrderInv
    <2> QED
      BY ONLY Inv, <2>1, ListStep
  <1>11. InPlace'
    BY <1>8, <1>10 DEF InPlace, OrderInv
  <1>12. \A c \in Consumers, lane \in Lanes, n \in Nat :
           HeldIn(sent'[c], lane, n) => HeldIn(sent[c], lane, n)
    BY <1>4, <1>8 DEF Services
  <1>13. \A lane \in Lanes, n \in Nat :
           Lying(lane, n)' => Lying(lane, n) \/ (lane = <<place, new.left>> /\ n = new.call)
    <2> SUFFICES ASSUME NEW lane \in Lanes, NEW n \in Nat, Lying(lane, n)', lane[1] = place
                 PROVE  Lying(lane, n) \/ (lane = <<place, new.left>> /\ n = new.call)
      BY <1>10
    <2>1. PICK left : lane = <<place, left>>
      BY DEF Lanes
    <2>2. Listed(longer, left, n)
      BY <1>10, <2>1
    <2>3. Listed(lists[place], left, n) => Lying(lane, n)
      BY <2>1 DEF Lying
    <2>4. Listed(lists[place], left, n) \/ (left = new.left /\ n = new.call)
      BY <1>6, <1>9, <2>2
    <2> QED
      BY <2>1, <2>3, <2>4
  <1>14. \A n \in Nat : Coming(n)' => Coming(n) /\ new.call < n
    <2> SUFFICES ASSUME NEW n \in Nat, NEW t \in Services, ComingIn(sent'[t], n)
                 PROVE  Coming(n) /\ new.call < n
      BY DEF Coming
    <2>1. t = p
      BY <1>1, <1>8, ComingFrom
    <2> QED
      BY <1>4, <1>8, <1>9, <2>1 DEF Coming
  <1>15. <<place, new.left>> \in Lanes /\ new.call \in Nat /\ new.call <= calls /\ Coming(new.call)
    BY <1>2, <1>3, <1>9
  <1> QED
    BY <1>12, <1>13, <1>14, <1>11, <1>15, ExtendOrder

(* A push that serves who waits.                                            *)
LEMMA ServeOrdered ==
  ASSUME Inv, Orderly, OrderInv, NEW p \in Services, NEW i \in DOMAIN sent[p], IsNext(p, i),
         sent[p][i].op \in Pushes,
         NEW key, key = sent[p][i].key, waiting[key] # <<>>,
         NEW c, First(waiting[key], c),
         ServeStep(p, i, key, c)
  PROVE  OrderInv'
  <1> DEFINE e == sent[p][i].element
             r == Reply(sent[p], i, None)
             q == Reply(sent[c], Blocked(c), e)
  <1>1. /\ QueueOK(p, sent[p]) /\ Foremost(sent[p], i) /\ sent[p][i].state = "new"
        /\ p \in Producers /\ key \in Keys /\ e \in Elements
    <2>1. sent[p][i].name \in Names /\ key = ProducerKey(sent[p][i].name)
      BY NextFacts DEF CommandOK
    <2> QED
      BY <2>1, NextFacts, KeyFacts DEF CommandOK
  <1>2. /\ c \in Consumers /\ c \in Services /\ Blocked(c) \in DOMAIN sent[c]
        /\ sent[c][Blocked(c)].state = "blocked" /\ sent[c][Blocked(c)].key = key
        /\ QueueOK(c, sent[c]) /\ Foremost(sent[c], Blocked(c))
    <2>1. key \in Keys
      BY <1>1
    <2> QED
      BY <2>1, BlockedFacts
  <1>3. p # c
    BY <1>1, <1>2, ServiceFacts
  <1>4. /\ Sorted(sent[p]) /\ Numbered(sent[p], calls) /\ Sorted(sent[c]) /\ Numbered(sent[c], calls)
        /\ e.call \in Nat /\ \A lane : Fills(sent[c][Blocked(c)], e, lane) => lane \in Lanes
    BY <1>1, <1>2, CallFacts DEF OrderInv, InPlace, Fills, Lanes, Elements
  <1>5. Coming(e.call) /\ e.call <= calls
    BY <1>1, <1>4 DEF Coming, ComingIn, Numbered
  <1>6. \A lane \in Lanes, m \in Nat : HeldIn(sent[c], lane, m) \/ GotIn(got[c], lane, m) => m < e.call
    BY <1>1, <1>2, <1>4, <1>5 DEF OrderInv, HeldFirst, GotFirst
  <1>7. \A lane, m : Fills(sent[c][Blocked(c)], e, lane) /\ HeldIn(sent[c], lane, m) => m < e.call
    <2> SUFFICES ASSUME NEW lane, NEW m, Fills(sent[c][Blocked(c)], e, lane), HeldIn(sent[c], lane, m)
                 PROVE  m < e.call
      OBVIOUS
    <2>1. lane \in Lanes /\ m \in Nat
      BY <1>2, <1>4, HeldFacts
    <2> QED
      BY <1>6, <2>1
  <1>8. /\ Sorted(r) /\ Numbered(r, calls)
        /\ \A m : ComingIn(r, m) => ComingIn(sent[p], m)
        /\ \A m : ComingIn(r, m) => e.call < m
    BY <1>1, <1>4, NothingFills, ReplySorted
  <1>9. e \in Elements \cup {None} /\ sent[c][Blocked(c)].state # "done"
    BY <1>1, <1>2
  <1>10. /\ Sorted(q) /\ Numbered(q, calls)
         /\ \A lane, m : HeldIn(q, lane, m) =>
              HeldIn(sent[c], lane, m) \/ (Fills(sent[c][Blocked(c)], e, lane) /\ m = e.call)
    <2> HIDE DEF e
    <2>1. PICK j \in DOMAIN sent[c] : j = Blocked(c)
      BY <1>2
    <2>2. /\ sent[c][j].key = key /\ Foremost(sent[c], j) /\ sent[c][j].state # "done"
          /\ \A lane, m : Fills(sent[c][j], e, lane) /\ HeldIn(sent[c], lane, m) => m < e.call
      BY <1>2, <1>7, <1>9, <2>1
    <2>3. PICK old : old = sent[c]
      OBVIOUS
    <2>4. /\ QueueOK(c, old) /\ Sorted(old) /\ Numbered(old, calls) /\ j \in DOMAIN old
          /\ old[j].key = key /\ Foremost(old, j) /\ old[j].state # "done"
          /\ \A lane, m : Fills(old[j], e, lane) /\ HeldIn(old, lane, m) => m < e.call
      BY <1>2, <1>4, <2>2, <2>3
    <2>5. /\ Sorted(Reply(old, j, e)) /\ Numbered(Reply(old, j, e), calls)
          /\ \A lane, m : HeldIn(Reply(old, j, e), lane, m) =>
               HeldIn(old, lane, m) \/ (Fills(old[j], e, lane) /\ m = e.call)
      BY ONLY <1>9, <2>4, ReplySorted
    <2>6. q = Reply(old, j, e)
      BY <2>1, <2>3
    <2> HIDE DEF q
    <2> QED
      BY <2>1, <2>3, <2>5, <2>6
  <1> HIDE DEF r, q
  <1>11. sent' = [[sent EXCEPT ![p] = r] EXCEPT ![c] = q] /\ UNCHANGED <<lists, got, calls>>
    BY <1>3 DEF Inv, TypeOK, ServeStep, r, q
  <1>12. \A t \in Services : sent'[t] = IF t = c THEN q ELSE IF t = p THEN r ELSE sent[t]
    BY <1>2, <1>3, <1>11 DEF Inv, TypeOK
  <1>13. InPlace'
    <2>1. \A t \in Services : Sorted(sent[t]) /\ Numbered(sent[t], calls)
      BY DEF OrderInv, InPlace
    <2>2. \A t \in Services : Sorted(sent'[t]) /\ Numbered(sent'[t], calls)
      BY <1>8, <1>10, <1>12, <2>1
    <2> QED
      BY <1>11, <2>2 DEF InPlace, OrderInv
  <1>14. \A d \in Consumers, lane \in Lanes, n \in Nat :
           HeldIn(sent'[d], lane, n) =>
             HeldIn(sent[d], lane, n) \/ (d = c /\ Fills(sent[c][Blocked(c)], e, lane) /\ n = e.call)
    <2>1. \A d \in Consumers : d \in Services /\ d # p
      BY <1>1, ServiceFacts
    <2> QED
      BY <1>2, <1>10, <1>12, <2>1
  <1>15. \A n \in Nat : Coming(n)' => Coming(n) /\ e.call < n
    <2> SUFFICES ASSUME NEW n \in Nat, NEW t \in Services, ComingIn(sent'[t], n)
                 PROVE  Coming(n) /\ e.call < n
      BY DEF Coming
    <2>1. t # c
      <3> SUFFICES ASSUME t = c PROVE FALSE
        OBVIOUS
      <3>1. PICK j \in DOMAIN q : q[j].op \in Pushes
        BY <1>12 DEF ComingIn
      <3>2. q = Changed(sent[c], Blocked(c), "done", e)
        BY <1>2, ReplyFacts DEF q, QueueOK
      <3>3. j \in DOMAIN sent[c] /\ sent[c][j].op \in Pushes
        <4>1. sent[c] \in Seq(Command)
          BY <1>2 DEF QueueOK
        <4>2. PICK k \in DOMAIN sent[c] : k = Blocked(c)
          BY <1>2
        <4>3. /\ DOMAIN q = DOMAIN sent[c] /\ q[k].op = sent[c][k].op
              /\ \A l \in DOMAIN sent[c] : l # k => q[l] = sent[c][l]
          <5>1. PICK old : old = sent[c]
            OBVIOUS
          <5> HIDE DEF e
          <5>2. old \in Seq(Command) /\ k \in DOMAIN old /\ e \in Elements \cup {None}
            BY <1>9, <4>1, <4>2, <5>1
          <5>3. LET r0 == Changed(old, k, "done", e)
                IN  /\ DOMAIN r0 = DOMAIN old /\ r0[k].op = old[k].op
                    /\ \A l \in DOMAIN old : l # k => r0[l] = old[l]
            BY ONLY <5>2, ChangedFacts
          <5>4. q = Changed(old, k, "done", e)
            BY <3>2, <4>2, <5>1
          <5> QED
            BY <5>1, <5>3, <5>4
        <4> QED
          BY <3>1, <4>3
      <3>4. c \in Producers
        BY <1>2, <3>3 DEF QueueOK, CommandOK
      <3> QED
        BY <1>2, <3>4, ServiceFacts
    <2>2. t = p
      BY <1>1, <1>12, <2>1, ComingFrom
    <2> QED
      BY <1>8, <1>12, <2>1, <2>2 DEF Coming
  <1>16. \A lane \in Lanes, n \in Nat : Lying(lane, n)' => Lying(lane, n)
    BY <1>11 DEF Lying
  <1>17. \A n \in Nat : Coming(n)' => Coming(n)
    BY <1>15
  <1>18. ASSUME NEW lane, Fills(sent[c][Blocked(c)], e, lane) PROVE Taken(c, lane, e.call) /\ lane \in Lanes
    <2>1. lane \in Lanes /\ lane[1] = key
      BY <1>2, <1>4, <1>18 DEF Fills
    <2>2. \A d \in Consumers, way \in Lanes, n \in Nat :
            HeldIn(sent'[d], way, n) => HeldIn(sent[d], way, n) \/ (d = c /\ way = lane /\ n = e.call)
      BY <1>14, <1>18 DEF Fills
    <2>3. \A n \in Nat : ~ Lying(lane, n)'
      <3>1. lists[key] = <<>>
        BY <1>1 DEF Inv, Served
      <3> QED
        BY <1>11, <2>1, <3>1 DEF Lying, Listed
    <2> HIDE DEF e
    <2> QED
      BY <1>6, <1>15, <1>16, <1>17, <2>1, <2>2, <2>3 DEF Taken
  <1> HIDE DEF e
  <1>19. CASE \E lane : Fills(sent[c][Blocked(c)], e, lane)
    BY <1>1, <1>2, <1>4, <1>5, <1>11, <1>13, <1>18, <1>19, TakeOrder
  <1>20. CASE \A lane : ~ Fills(sent[c][Blocked(c)], e, lane)
    <2>1. \A d \in Consumers, lane \in Lanes, n \in Nat :
            /\ HeldIn(sent'[d], lane, n) => HeldIn(sent[d], lane, n)
            /\ GotIn(got'[d], lane, n) => GotIn(got[d], lane, n)
      BY <1>11, <1>14, <1>20
    <2> QED
      BY <1>11, <1>13, <1>16, <1>17, <2>1, ShrinkOrder
  <1> QED
    BY <1>19, <1>20

(* A pop that finds elements.                                               *)
LEMMA TakeOrdered ==
  ASSUME Inv, Orderly, OrderInv, NEW s \in Services, NEW i \in DOMAIN sent[s], IsNext(s, i),
         sent[s][i].op \in Pops, NEW key, key = sent[s][i].key,
         NEW value \in Elements, NEW rest, Popped(lists[key], value, rest),
         Crossed(sent[s][i].op, value) =>
           \A m : Listed(rest, value.left, m) => value.call < m,
         sent' = [sent EXCEPT ![s] = Reply(sent[s], i, value)],
         lists' = [lists EXCEPT ![key] = rest],
         UNCHANGED <<waiting, got, calls, faults>>
  PROVE  OrderInv'
  <1> DEFINE r == Reply(sent[s], i, value)
  <1>1. /\ QueueOK(s, sent[s]) /\ Foremost(sent[s], i) /\ sent[s][i].state = "new"
        /\ s \in Consumers /\ key \in Keys
    <2>1. sent[s][i].name \in Names /\ key = ConsumerKey(sent[s][i].name)
      BY NextFacts DEF CommandOK
    <2> QED
      BY <2>1, NextFacts, KeyFacts DEF CommandOK
  <1>2. /\ Sorted(sent[s]) /\ Numbered(sent[s], calls) /\ value.call \in Nat
        /\ calls \in Nat /\ InPlace /\ <<key, value.left>> \in Lanes /\ value # None
    BY <1>1, CallFacts, ConfigAssumption DEF Inv, TypeOK, OrderInv, InPlace, Lanes, Elements
  <1>3. PICK way \in Lanes : way = <<key, value.left>>
    BY <1>2
  <1>4. \A lane : Fills(sent[s][i], value, lane) <=> Crossed(sent[s][i].op, value) /\ lane = way
    BY <1>2, <1>3 DEF Fills
  <1>5. /\ \A m \in Nat : HeldIn(sent[s], way, m) \/ GotIn(got[s], way, m) => m < value.call
        /\ \A n \in Nat : Coming(n) => value.call < n
        /\ value.call <= calls
    <2>1. Lying(way, value.call)
      BY <1>3 DEF Lying, Popped
    <2> QED
      BY <1>1, <1>2, <1>3, <2>1 DEF OrderInv, HeldFirst, GotFirst, ListFirst, Known
  <1>6. \A lane, m : Fills(sent[s][i], value, lane) /\ HeldIn(sent[s], lane, m) => m < value.call
    BY <1>1, <1>4, <1>5, HeldFacts
  <1>7. value \in Elements \cup {None} /\ sent[s][i].state # "done"
    BY <1>1
  <1>8. /\ Sorted(r) /\ Numbered(r, calls)
        /\ \A lane, m : HeldIn(r, lane, m) =>
             HeldIn(sent[s], lane, m) \/ (Fills(sent[s][i], value, lane) /\ m = value.call)
        /\ \A m : ComingIn(r, m) => ComingIn(sent[s], m)
    BY <1>1, <1>2, <1>6, <1>7, ReplySorted
  <1>9. sent' = [sent EXCEPT ![s] = r] /\ calls' = calls /\ got' = got
    OBVIOUS
  <1> HIDE DEF r
  <1>10. calls' \in Nat /\ calls <= calls' /\ Numbered(r, calls')
    BY <1>2, <1>8, <1>9
  <1>11. /\ \A t \in Services : sent'[t] = IF t = s THEN r ELSE sent[t]
         /\ \A t \in Services : Sorted(sent'[t]) /\ Numbered(sent'[t], calls')
         /\ \A n : Coming(n)' => Coming(n)
    BY <1>2, <1>8, <1>9, <1>10, QueueStep
  <1>12. /\ \A k \in Keys : ListSorted(lists'[k])
         /\ \A left, n : Lying(<<key, left>>, n)' <=> Listed(rest, left, n)
         /\ \A lane \in Lanes, n \in Nat : Lying(lane, n)' => Lying(lane, n)
    <2>1. InPlace /\ key \in Keys /\ ListSorted(rest)
      BY <1>1, <1>2 DEF Popped
    <2>2. lists' = [lists EXCEPT ![key] = rest]
      OBVIOUS
    <2>3. \A left, n : Listed(rest, left, n) => Listed(lists[key], left, n)
      BY DEF Popped
    <2> QED
      BY ONLY Inv, <2>1, <2>2, <2>3, ListStep
  <1>13. InPlace'
    BY <1>2, <1>9, <1>11, <1>12 DEF InPlace
  <1>14. \A c \in Consumers, lane \in Lanes, n \in Nat :
           HeldIn(sent'[c], lane, n) =>
             HeldIn(sent[c], lane, n) \/ (c = s /\ Fills(sent[s][i], value, lane) /\ n = value.call)
    BY <1>8, <1>11 DEF Services
  <1>15. CASE Crossed(sent[s][i].op, value)
    <2>1. \A n \in Nat : Lying(way, n)' \/ Coming(n)' => value.call < n
      BY <1>3, <1>5, <1>11, <1>12, <1>15
    <2>2. Taken(s, way, value.call)
      BY <1>4, <1>5, <1>11, <1>12, <1>14, <2>1 DEF Taken
    <2> QED
      BY <1>1, <1>2, <1>5, <1>9, <1>13, <2>2, TakeOrder
  <1>16. CASE ~ Crossed(sent[s][i].op, value)
    <2>1. \A c \in Consumers, lane \in Lanes, n \in Nat :
            /\ HeldIn(sent'[c], lane, n) => HeldIn(sent[c], lane, n)
            /\ GotIn(got'[c], lane, n) => GotIn(got[c], lane, n)
      BY <1>4, <1>9, <1>14, <1>16
    <2>2. \A n \in Nat : Coming(n)' => Coming(n)
      BY <1>11
    <2> QED
      BY <1>9, <1>12, <1>13, <2>1, <2>2, ShrinkOrder
  <1> QED
    BY <1>15, <1>16

(* A command after which nothing is anywhere it was not before.             *)
LEMMA QuietOrdered ==
  ASSUME Inv, OrderInv, NEW s \in Services, NEW r, sent' = [sent EXCEPT ![s] = r],
         Sorted(r), Numbered(r, calls),
         \A lane, m : HeldIn(r, lane, m) => HeldIn(sent[s], lane, m),
         \A m : ComingIn(r, m) => ComingIn(sent[s], m),
         \A k \in Keys : ListSorted(lists'[k]),
         \A lane \in Lanes, n \in Nat : Lying(lane, n)' => Lying(lane, n),
         UNCHANGED <<got, calls>>
  PROVE  OrderInv'
  <1>1. InPlace /\ calls' \in Nat /\ calls <= calls' /\ Numbered(r, calls')
    BY ConfigAssumption DEF Inv, TypeOK, OrderInv
  <1>2. /\ \A t \in Services : sent'[t] = IF t = s THEN r ELSE sent[t]
        /\ \A t \in Services : Sorted(sent'[t]) /\ Numbered(sent'[t], calls')
        /\ \A n : Coming(n)' => Coming(n)
    BY <1>1, QueueStep
  <1>3. InPlace'
    BY <1>1, <1>2 DEF InPlace
  <1>4. \A c \in Consumers, lane \in Lanes, n \in Nat :
          HeldIn(sent'[c], lane, n) => HeldIn(sent[c], lane, n)
    BY <1>2 DEF Services
  <1>5. \A c \in Consumers, lane \in Lanes, n \in Nat : GotIn(got'[c], lane, n) => GotIn(got[c], lane, n)
    OBVIOUS
  <1>6. \A n \in Nat : Coming(n)' => Coming(n)
    BY <1>2
  <1> QED
    BY <1>3, <1>4, <1>5, <1>6, ShrinkOrder

LEMMA ExecOrdered == \A s \in Services : Inv /\ Orderly /\ OrderInv /\ Exec(s) => OrderInv'
  <1> SUFFICES ASSUME NEW s \in Services, Inv, Orderly, OrderInv, Exec(s) PROVE OrderInv'
    OBVIOUS
  <1>1. ASSUME ExecPush(s) PROVE OrderInv'
    <2>1. PICK i \in DOMAIN sent[s] : PushStep(s, i)
      BY <1>1, PushSteps
    <2>2. CASE waiting[sent[s][i].key] # <<>>
      BY <2>1, <2>2, ServeOrdered DEF PushStep
    <2>3. CASE waiting[sent[s][i].key] = <<>>
      BY <2>1, <2>3, ExtendOrdered DEF PushStep
    <2> QED
      BY <2>2, <2>3
  <1>2. \A k \in Keys : lists[k] \in Seq(Elements) /\ ListSorted(lists[k])
    BY DEF Inv, TypeOK, OrderInv, InPlace
  <1>3. ASSUME ExecPop(s) PROVE OrderInv'
    <2>1. PICK i \in DOMAIN sent[s] : PopStep(s, i)
      BY <1>3, PopSteps
    <2>2. PICK key \in Keys : key = sent[s][i].key
      <3>1. sent[s][i].name \in Names /\ sent[s][i].key = ConsumerKey(sent[s][i].name)
        BY <2>1, NextFacts DEF CommandOK, PopStep
      <3> QED
        BY <3>1, KeyFacts, SMTT(30)
    <2>3. /\ QueueOK(s, sent[s]) /\ Foremost(sent[s], i) /\ sent[s][i].state = "new"
          /\ sent[s][i] \in Command /\ CommandOK(s, sent[s][i])
          /\ Sorted(sent[s]) /\ Numbered(sent[s], calls)
      BY <2>1, NextFacts DEF OrderInv, InPlace, PopStep
    <2>5. CASE lists[key] = <<>>
      <3> DEFINE r == Changed(sent[s], i, "blocked", None)
      <3>1. sent' = [sent EXCEPT ![s] = [sent[s] EXCEPT ![i].state = "blocked"]] /\ UNCHANGED lists
        BY <2>1, <2>2, <2>5 DEF PopStep
      <3>2. [sent[s] EXCEPT ![i].state = "blocked"] = r
        <4>1. PICK x \in Command : x = sent[s][i] /\ x.value = None
          BY <2>3 DEF CommandOK
        <4>2. /\ [sent[s] EXCEPT ![i].state = "blocked"] = [sent[s] EXCEPT ![i] = [x EXCEPT !.state = "blocked"]]
              /\ r = [sent[s] EXCEPT ![i] = [x EXCEPT !.state = "blocked", !.value = None]]
          BY <4>1 DEF Changed
        <4> HIDE DEF r
        <4>3. [x EXCEPT !.state = "blocked"] = [x EXCEPT !.state = "blocked", !.value = None]
          BY <4>1 DEF Command
        <4> QED
          BY <4>2, <4>3
      <3>3. /\ Sorted(r) /\ Numbered(r, calls)
            /\ \A lane, m : HeldIn(r, lane, m) => HeldIn(sent[s], lane, m)
            /\ \A m : ComingIn(r, m) => ComingIn(sent[s], m)
        BY <2>3, NothingFills, ChangedSorted
      <3> HIDE DEF r
      <3>4. \A k \in Keys : ListSorted(lists'[k])
        BY <1>2, <3>1
      <3>5. \A lane \in Lanes, n \in Nat : Lying(lane, n)' => Lying(lane, n)
        BY <3>1 DEF Lying
      <3> QED
        BY <2>1, <3>1, <3>2, <3>3, <3>4, <3>5, QuietOrdered DEF PopStep
    <2>6. CASE lists[key] # <<>> /\ sent[s][i].op = "BLPOP"
      <3>2. PICK value \in Elements, rest \in Seq(Elements) :
              value = Head(lists[key]) /\ rest = Tail(lists[key])
        <4>1. lists[key] \in Seq(Elements) /\ lists[key] # <<>>
          BY <1>2, <2>6
        <4>2. Head(lists[key]) \in Elements /\ Tail(lists[key]) \in Seq(Elements)
          BY ONLY <4>1
        <4> QED
          BY ONLY <4>2
      <3>3. /\ Popped(lists[key], value, rest)
            /\ Crossed(sent[s][i].op, value) => \A m : Listed(rest, value.left, m) => value.call < m
        <4>1. Crossed(sent[s][i].op, value) <=> ~ value.left
          BY <2>6 DEF Crossed
        <4> QED
          BY <1>2, <2>6, <3>2, <4>1, TailList
      <3>4. /\ sent' = [sent EXCEPT ![s] = Reply(sent[s], i, value)]
            /\ lists' = [lists EXCEPT ![key] = rest] /\ UNCHANGED waiting
        BY <2>1, <2>2, <2>6, <3>2 DEF PopStep
      <3>5. IsNext(s, i) /\ sent[s][i].op \in Pops /\ UNCHANGED <<waiting, got, calls, faults>>
        BY <2>1, <3>4 DEF PopStep
      <3> QED
        BY ONLY Inv, Orderly, OrderInv, <2>2, <3>2, <3>3, <3>4, <3>5, TakeOrdered, Zenon
    <2>7. CASE lists[key] # <<>> /\ sent[s][i].op = "BRPOP"
      <3>2. PICK value \in Elements, rest \in Seq(Elements) :
              value = Last(lists[key]) /\ rest = Front(lists[key])
        BY <1>2, <2>7, FrontFacts
      <3>3. /\ Popped(lists[key], value, rest)
            /\ Crossed(sent[s][i].op, value) => \A m : Listed(rest, value.left, m) => value.call < m
        <4>1. Crossed(sent[s][i].op, value) <=> value.left
          BY <2>7 DEF Crossed
        <4> QED
          BY <1>2, <2>7, <3>2, <4>1, FrontList
      <3>4. /\ sent' = [sent EXCEPT ![s] = Reply(sent[s], i, value)]
            /\ lists' = [lists EXCEPT ![key] = rest] /\ UNCHANGED waiting
        BY <2>1, <2>2, <2>7, <3>2 DEF PopStep
      <3>5. IsNext(s, i) /\ sent[s][i].op \in Pops /\ UNCHANGED <<waiting, got, calls, faults>>
        BY <2>1, <3>4 DEF PopStep
      <3> QED
        BY ONLY Inv, Orderly, OrderInv, <2>2, <3>2, <3>3, <3>4, <3>5, TakeOrdered, Zenon
    <2> QED
      BY <2>1, <2>5, <2>6, <2>7 DEF Pops, PopStep
  <1>4. ASSUME NEW i \in DOMAIN sent[s], IsNext(s, i),
               sent' = [sent EXCEPT ![s] = Reply(sent[s], i, None)],
               \A k \in Keys : ListSorted(lists'[k]),
               \A lane \in Lanes, n \in Nat : Lying(lane, n)' => Lying(lane, n),
               UNCHANGED <<got, calls>>
        PROVE  OrderInv'
    <2> DEFINE r == Reply(sent[s], i, None)
    <2>1. /\ QueueOK(s, sent[s]) /\ Foremost(sent[s], i) /\ sent[s][i].state = "new"
          /\ Sorted(sent[s]) /\ Numbered(sent[s], calls)
      BY <1>4, NextFacts DEF OrderInv, InPlace
    <2>2. /\ Sorted(r) /\ Numbered(r, calls)
          /\ \A lane, m : HeldIn(r, lane, m) => HeldIn(sent[s], lane, m)
          /\ \A m : ComingIn(r, m) => ComingIn(sent[s], m)
      BY <2>1, NothingFills, ReplySorted
    <2>3. sent' = [sent EXCEPT ![s] = r]
      BY <1>4
    <2> HIDE DEF r
    <2> QED
      BY <1>4, <2>2, <2>3, QuietOrdered
  <1>5. ASSUME ExecTrim(s) PROVE OrderInv'
    <2>1. PICK i \in DOMAIN sent[s] :
            /\ IsNext(s, i) /\ sent[s][i].op = "LTRIM"
            /\ sent' = [sent EXCEPT ![s] = Reply(@, i, None)]
            /\ lists' = [lists EXCEPT ![sent[s][i].key] = Trimmed(@, sent[s][i].range)]
            /\ UNCHANGED <<waiting, got, calls, faults>>
      BY <1>5 DEF ExecTrim
    <2>2. PICK key \in Keys, range \in Int \X Int :
            key = sent[s][i].key /\ range = sent[s][i].range
      <3>1. sent[s][i].name \in Names /\ sent[s][i].key = ProducerKey(sent[s][i].name)
        BY <2>1, NextFacts DEF CommandOK
      <3>2. sent[s][i] \in Command
        BY <2>1, NextFacts
      <3> QED
        BY <3>1, <3>2, KeyFacts DEF Command
    <2>3. PICK rest : rest = Trimmed(lists[key], range)
      OBVIOUS
    <2>4. ListSorted(rest) /\ \A left, m : Listed(rest, left, m) => Listed(lists[key], left, m)
      BY <1>2, <2>2, <2>3, TrimmedList
    <2>5. lists' = [lists EXCEPT ![key] = rest]
      BY <2>1, <2>2, <2>3
    <2>6. /\ \A k \in Keys : ListSorted(lists'[k])
          /\ \A lane \in Lanes, n \in Nat : Lying(lane, n)' => Lying(lane, n)
      BY <2>4, <2>5, ListStep DEF OrderInv
    <2> QED
      BY <1>4, <2>1, <2>6
  <1>6. ASSUME ExecRead(s) PROVE OrderInv'
    <2>1. PICK i \in DOMAIN sent[s] :
            /\ IsNext(s, i)
            /\ sent' = [sent EXCEPT ![s] = Reply(@, i, None)]
            /\ UNCHANGED <<lists, waiting, got, calls, faults>>
      BY <1>6 DEF ExecRead
    <2>2. \A k \in Keys : ListSorted(lists'[k])
      BY <1>2, <2>1
    <2>3. \A lane \in Lanes, n \in Nat : Lying(lane, n)' => Lying(lane, n)
      BY <2>1 DEF Lying
    <2> QED
      BY <1>4, <2>1, <2>2, <2>3
  <1> QED
    BY <1>1, <1>3, <1>5, <1>6 DEF Exec

LEMMA ExpireOrdered == \A s \in Services : Inv /\ OrderInv /\ Expire(s) => OrderInv'
  <1> SUFFICES ASSUME NEW s \in Services, Inv, OrderInv, Expire(s) PROVE OrderInv'
    OBVIOUS
  <1>1. PICK i \in DOMAIN sent[s] :
          /\ sent[s][i].state = "blocked"
          /\ sent' = [sent EXCEPT ![s] = Reply(@, i, None)]
          /\ UNCHANGED <<lists, got, calls, faults>>
    BY DEF Expire
  <1>2. QueueOK(s, sent[s]) /\ Sorted(sent[s]) /\ Numbered(sent[s], calls)
    BY DEF Inv, Queues, OrderInv, InPlace
  <1>3. Foremost(sent[s], i)
    BY <1>1, <1>2, BlockedIsForemost
  <1> DEFINE r == Reply(sent[s], i, None)
  <1>4. /\ Sorted(r) /\ Numbered(r, calls)
        /\ \A lane, m : HeldIn(r, lane, m) => HeldIn(sent[s], lane, m)
        /\ \A m : ComingIn(r, m) => ComingIn(sent[s], m)
    BY <1>1, <1>2, <1>3, NothingFills, ReplySorted
  <1>5. sent' = [sent EXCEPT ![s] = r]
    BY <1>1
  <1> HIDE DEF r
  <1>6. \A k \in Keys : ListSorted(lists'[k])
    BY <1>1 DEF OrderInv, InPlace
  <1>7. \A lane \in Lanes, n \in Nat : Lying(lane, n)' => Lying(lane, n)
    BY <1>1 DEF Lying
  <1> QED
    BY <1>1, <1>4, <1>5, <1>6, <1>7, QuietOrdered

LEMMA FaultOrdered ==
  \A s \in MayFail : Inv /\ Orderly /\ OrderInv /\ (Crash(s) \/ Reconnect(s)) => OrderInv'
  <1> SUFFICES ASSUME NEW s \in MayFail, Inv, Orderly, OrderInv, Crash(s) \/ Reconnect(s)
               PROVE  OrderInv'
    OBVIOUS
  <1>1. s \in Consumers /\ s \in Services
    BY ConfigAssumption DEF Orderly, Services
  <1>2. UNCHANGED <<lists, got, calls>>
    BY DEF Crash, Reconnect, Fault
  <1>3. QueueOK(s, sent[s]) /\ Sorted(sent[s]) /\ Numbered(sent[s], calls)
    BY <1>1 DEF Inv, Queues, OrderInv, InPlace
  <1>4. \A k \in Keys : ListSorted(lists'[k])
    BY <1>2 DEF OrderInv, InPlace
  <1>5. \A lane \in Lanes, n \in Nat : Lying(lane, n)' => Lying(lane, n)
    BY <1>2 DEF Lying
  <1>6. PICK r : /\ sent' = [sent EXCEPT ![s] = r]
                 /\ Sorted(r) /\ Numbered(r, calls)
                 /\ \A lane, m : ~ HeldIn(r, lane, m)
                 /\ \A m : ~ ComingIn(r, m)
    <2>1. CASE Crash(s)
      BY <2>1, EmptySorted DEF Crash
    <2>2. CASE Reconnect(s)
      <3>1. sent' = [sent EXCEPT ![s] = Again(sent[s])]
        BY <2>2 DEF Reconnect, Again
      <3> QED
        BY <1>1, <1>3, <3>1, AgainSorted
    <2> QED
      BY <2>1, <2>2
  <1> QED
    BY <1>1, <1>2, <1>4, <1>5, <1>6, QuietOrdered

LEMMA AnswerOrdered == \A s \in Services : Inv /\ OrderInv /\ Answer(s) => OrderInv'
  <1> SUFFICES ASSUME NEW s \in Services, Inv, OrderInv, Answer(s) PROVE OrderInv'
    OBVIOUS
  <1>1. PICK q, x, r : q = sent[s] /\ x = Head(q) /\ r = Tail(q)
    OBVIOUS
  <1>2. /\ q # <<>> /\ x.state = "done" /\ sent' = [sent EXCEPT ![s] = r]
        /\ UNCHANGED <<lists, waiting, calls, faults>>
    BY <1>1 DEF Answer
  <1>3. QueueOK(s, q) /\ Sorted(q) /\ Numbered(q, calls)
    BY <1>1 DEF Inv, Queues, OrderInv, InPlace
  <1>4. /\ Sorted(r) /\ Numbered(r, calls)
        /\ \A lane, m : HeldIn(r, lane, m) => HeldIn(q, lane, m)
        /\ \A m : ComingIn(r, m) => ComingIn(q, m)
        /\ \A lane : Carried(x, lane) =>
             /\ HeldIn(q, lane, x.value.call)
             /\ \A m : HeldIn(r, lane, m) => x.value.call < m
    BY <1>1, <1>2, <1>3, TailSorted
  <1>5. \A k \in Keys : ListSorted(lists'[k])
    BY <1>2 DEF OrderInv, InPlace
  <1>6. \A lane \in Lanes, n \in Nat : Lying(lane, n)' => Lying(lane, n)
    BY <1>2 DEF Lying
  <1>7. CASE Deserialized(x) = None
    <2>1. UNCHANGED <<got, calls>>
      BY <1>1, <1>2, <1>7 DEF Answer
    <2> QED
      BY <1>1, <1>2, <1>4, <1>5, <1>6, <2>1, QuietOrdered
  <1>8. CASE Deserialized(x) # None
    <2>1. Deserialized(x) = x.value /\ x.value # None
      BY <1>8 DEF Deserialized
    <2>2. x \in Command /\ CommandOK(s, x)
      BY <1>1, <1>2, <1>3, TailQueue
    <2>3. s \in Consumers /\ x.name \in Names /\ x.key = ConsumerKey(x.name) /\ x.op \in {"BLPOP", "BRPOP"}
      BY <2>1, <2>2 DEF CommandOK, Pops
    <2>4. PICK key \in Keys, e \in Elements : key = x.key /\ e = x.value
      BY <2>1, <2>2, <2>3, KeyFacts DEF Command
    <2>5. e.call \in Nat /\ calls \in Nat
      BY CallFacts, ConfigAssumption DEF Inv, TypeOK
    <2>6. PICK item : item = [op |-> x.op, name |-> x.name, parse |-> x.parse, value |-> e]
      OBVIOUS
    <2>7. item.value = e /\ \A lane : Brought(item, lane) <=> Carried(x, lane)
      BY <2>1, <2>3, <2>4, <2>6 DEF Brought, Carried, Fills
    <2>8. got' = [got EXCEPT ![s] = Append(@, item)]
      BY <1>1, <1>8, <2>1, <2>4, <2>6 DEF Answer
    <2>9. \A c \in Consumers : got'[c] = IF c = s THEN Append(got[s], item) ELSE got[c]
      BY <2>3, <2>8 DEF Inv, TypeOK
    <2>10. PICK old, new : old = got[s] /\ new = Append(got[s], item)
      OBVIOUS
    <2>11. /\ Len(old) \in Nat /\ DOMAIN old = 1..Len(old) /\ DOMAIN new = 1..(Len(old) + 1)
           /\ new[Len(old) + 1] = item /\ \A i \in DOMAIN old : new[i] = old[i]
      <3>1. got[s] \in Seq(Answers)
        BY <2>3 DEF Inv, TypeOK, Answers
      <3>2. item \in Answers
        BY <2>2, <2>3, <2>6 DEF Command, Answers
      <3> QED
        BY ONLY <2>10, <3>1, <3>2
    <2>12. ASSUME NEW lane, NEW i \in DOMAIN old, Brought(old[i], lane), Brought(item, lane)
           PROVE  old[i].value.call < e.call
      <3>1. old[i].value \in Elements
        <4>1. old \in Seq(Answers)
          BY <2>3, <2>10 DEF Inv, TypeOK, Answers
        <4>2. old[i] \in Answers
          BY ONLY <2>12, <4>1
        <4> QED
          BY <4>2 DEF Answers
      <3>2. old[i].value.call \in Nat
        BY <3>1, CallFacts
      <3>3. GotIn(got[s], lane, old[i].value.call)
        BY <2>10, <2>12 DEF GotIn
      <3>4. HeldIn(sent[s], lane, e.call) /\ lane \in Lanes
        BY <1>1, <1>4, <2>4, <2>7, <2>12 DEF Lanes, Carried, Fills, Elements
      <3> QED
        BY <2>3, <2>5, <3>2, <3>3, <3>4 DEF OrderInv, GotFirst
    <2>13. GotSorted(new)
      <3>1. GotSorted(old)
        BY <2>3, <2>10 DEF OrderInv, InPlace
      <3> SUFFICES ASSUME NEW lane, NEW i \in DOMAIN new, NEW j \in DOMAIN new, i < j,
                          Brought(new[i], lane), Brought(new[j], lane)
                   PROVE  new[i].value.call < new[j].value.call
        BY DEF GotSorted
      <3>2. i \in DOMAIN old /\ new[i] = old[i]
        BY <2>11
      <3>3. CASE j = Len(old) + 1
        BY <2>7, <2>11, <2>12, <3>2, <3>3
      <3>4. CASE j # Len(old) + 1
        <4>1. j \in DOMAIN old /\ new[j] = old[j]
          BY <2>11, <3>4
        <4> QED
          BY <3>1, <3>2, <4>1 DEF GotSorted
      <3> QED
        BY <3>3, <3>4
    <2>14. \A lane, n : GotIn(new, lane, n) => GotIn(old, lane, n) \/ (Carried(x, lane) /\ n = e.call)
      BY <2>7, <2>11 DEF GotIn
    <2>15. InPlace /\ calls' \in Nat /\ calls <= calls' /\ Numbered(r, calls')
      BY <1>2, <1>4, <2>5 DEF OrderInv
    <2>16. /\ \A t \in Services : sent'[t] = IF t = s THEN r ELSE sent[t]
           /\ \A t \in Services : Sorted(sent'[t]) /\ Numbered(sent'[t], calls')
           /\ \A n : Coming(n)' => Coming(n)
      <3>1. /\ sent' = [sent EXCEPT ![s] = r] /\ Sorted(r)
            /\ \A m : ComingIn(r, m) => ComingIn(sent[s], m)
        BY <1>1, <1>2, <1>4
      <3> QED
        BY ONLY Inv, <2>15, <3>1, QueueStep
    <2>17. InPlace'
      BY <1>5, <2>9, <2>10, <2>13, <2>15, <2>16 DEF InPlace
    <2>18. \A c \in Consumers, lane \in Lanes, n \in Nat :
             /\ HeldIn(sent'[c], lane, n) => HeldIn(sent[c], lane, n)
             /\ GotIn(got'[c], lane, n) =>
                  GotIn(got[c], lane, n) \/ (c = s /\ Carried(x, lane) /\ n = e.call)
      BY <1>1, <1>4, <2>9, <2>10, <2>14, <2>16 DEF Services
    <2>19. \A n \in Nat : Coming(n)' => Coming(n)
      BY <2>16
    <2>20. ASSUME NEW way, Carried(x, way) PROVE OrderInv'
      <3>1. /\ way \in Lanes /\ HeldIn(sent[s], way, e.call)
            /\ \A n \in Nat : HeldIn(sent'[s], way, n) => e.call < n
        BY <1>1, <1>4, <2>4, <2>16, <2>20 DEF Lanes, Carried, Fills, Elements
      <3>2. \A lane : Carried(x, lane) <=> lane = way
        BY <2>20 DEF Carried, Fills
      <3>3. \A c \in Consumers, lane \in Lanes, n \in Nat :
              /\ HeldIn(sent'[c], lane, n) => HeldIn(sent[c], lane, n)
              /\ GotIn(got'[c], lane, n) => GotIn(got[c], lane, n) \/ (c = s /\ lane = way /\ n = e.call)
        BY <2>18, <3>2
      <3> QED
        BY <1>2, <2>3, <2>5, <2>17, <2>19, <3>1, <3>3, AnswerOrder
    <2>21. CASE \A way : ~ Carried(x, way)
      <3>1. \A c \in Consumers, lane \in Lanes, n \in Nat :
              /\ HeldIn(sent'[c], lane, n) => HeldIn(sent[c], lane, n)
              /\ GotIn(got'[c], lane, n) => GotIn(got[c], lane, n)
        BY <2>18, <2>21
      <3> QED
        BY <1>2, <1>6, <2>17, <2>19, <3>1, ShrinkOrder
    <2> QED
      BY <2>20, <2>21
  <1> QED
    BY <1>7, <1>8

LEMMA CallsOrdered == Inv /\ Orderly /\ OrderInv /\ Calls => OrderInv'
  <1> SUFFICES ASSUME Inv, Orderly, OrderInv, Calls PROVE OrderInv'
    OBVIOUS
  <1>1. PICK s \in Services, x \in Command :
          CommandOK(s, x) /\ x.state = "new" /\ Send(s, x) /\ Made(x)
    BY CallsSend DEF ACall
  <1>2. x.op \in Pushes => x.element.call = calls + 1
    BY <1>1 DEF Made
  <1> QED
    BY <1>1, <1>2, SendOrdered

LEMMA QuietHolds == OrderInv /\ UNCHANGED vars => OrderInv'
  BY DEF OrderInv, InPlace, ListFirst, HeldFirst, GotFirst, Known, Coming, Lying, vars

LEMMA NextOrdered == Inv /\ Orderly /\ OrderInv /\ [Next]_vars => OrderInv'
  <1> SUFFICES ASSUME Inv, Orderly, OrderInv, [Next]_vars PROVE OrderInv'
    OBVIOUS
  <1>1. CASE Calls
    BY <1>1, CallsOrdered
  <1>2. ASSUME NEW s \in Services, Exec(s) \/ Expire(s) \/ Answer(s) PROVE OrderInv'
    BY <1>2, ExecOrdered, ExpireOrdered, AnswerOrdered
  <1>3. ASSUME NEW s \in MayFail, Crash(s) \/ Reconnect(s) PROVE OrderInv'
    BY <1>3, FaultOrdered
  <1>4. CASE Sleep \/ UNCHANGED vars
    BY <1>4, QuietHolds DEF Sleep
  <1> QED
    BY <1>1, <1>2, <1>3, <1>4 DEF Next

(* Elements that cross one list in the same direction come on one lane.     *)
LEMMA OrderFacts == Inv /\ OrderInv => InOrder
  <1> SUFFICES ASSUME Inv, OrderInv, NEW c \in Consumers, NEW i \in DOMAIN got[c], NEW j \in DOMAIN got[c],
                      i < j, ConsumerKey(got[c][i].name) = ConsumerKey(got[c][j].name),
                      got[c][i].op = got[c][j].op,
                      Crossed(got[c][i].op, got[c][i].value), Crossed(got[c][j].op, got[c][j].value)
               PROVE  got[c][i].value.call < got[c][j].value.call
    BY DEF InOrder
  <1>1. got[c][i].value.left \in BOOLEAN /\ got[c][j].value.left \in BOOLEAN
    <2>1. got[c] \in Seq(Answers)
      BY DEF Inv, TypeOK, Answers
    <2>2. got[c][i] \in Answers /\ got[c][j] \in Answers
      BY <2>1
    <2> QED
      BY <2>2 DEF Answers, Elements
  <1>2. got[c][i].value.left = got[c][j].value.left
    BY <1>1 DEF Crossed
  <1>3. PICK lane : Brought(got[c][i], lane) /\ Brought(got[c][j], lane)
    BY <1>2 DEF Brought
  <1> QED
    BY <1>3 DEF OrderInv, InPlace, GotSorted

(* With one producer that does not fail, every application receives the     *)
(* elements that cross a list in one direction in the order of their pushes,*)
(* on whatever sides the list is pushed and popped meanwhile, and however   *)
(* many consumers wait, time out, crash and reconnect.                      *)
THEOREM InOrderHolds ==
  ASSUME Orderly
  PROVE  Spec => []InOrder
  <1>1. Orderly /\ Inv /\ OrderInv /\ [Next]_vars /\ Inv' => OrderInv'
    BY NextOrdered
  <1> QED
    BY Invariance, InitOrder, OrderFacts, <1>1, PTL DEF Spec

=============================================================================
