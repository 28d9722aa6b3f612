--------------------------- MODULE DeliveryQueue ---------------------------
(***************************************************************************)
(* What LogQueue promises of its lists: each is a double-ended queue; an   *)
(* element enters it at the end where it was pushed, and is given to one   *)
(* call of one consumer when it is the outermost at that call's end; the   *)
(* calls of a consumer return in the order in which it made them.          *)
(* Elements are lost by trimming, when a consumer fails, and when a call   *)
(* cannot use what it was given.                                           *)
(***************************************************************************)
EXTENDS Naturals, Sequences, SequencesExt

CONSTANTS
  Keys, Consumers, Elements,
  LeftElements,  \* the elements that enter at the left end
  Nowhere,       \* the key of a call that takes no element
  None           \* what a call was given before it is given an element

VARIABLES
  queue,    \* the elements of each key, from left to right
  open,     \* the calls each consumer has made and that have not returned
  received  \* what calls have returned to each consumer

vars == <<queue, open, received>>

Init ==
  /\ queue = [key \in Keys |-> <<>>]
  /\ open = [c \in Consumers |-> <<>>]
  /\ received = [c \in Consumers |-> <<>>]

(* An element that is nowhere: it is new, or it was lost.                   *)
Queued(e)   == \E key \in Keys : \E i \in DOMAIN queue[key] : queue[key][i] = e
Given(e)    == \E c \in Consumers : \E i \in DOMAIN open[c] : open[c][i].value = e
Returned(e) == \E c \in Consumers : \E i \in DOMAIN received[c] : received[c][i].value = e
Absent(e)   == ~ Queued(e) /\ ~ Given(e) /\ ~ Returned(e)

-----------------------------------------------------------------------------
Call(c, key, left) ==
  /\ open' = [open EXCEPT ![c] = Append(@, [key |-> key, left |-> left, value |-> None])]
  /\ UNCHANGED <<queue, received>>

(* Call i of the consumer is the next to be given an element of key: it has *)
(* none, and no later call has one.                                         *)
Turn(c, i, key) ==
  /\ open[c][i].key = key
  /\ \A j \in DOMAIN open[c] : i <= j => open[c][j].value = None

Give(c, i, e) == open' = [open EXCEPT ![c][i].value = e]

Put(key, e) ==
  /\ Absent(e)
  /\ queue' = [queue EXCEPT ![key] = IF e \in LeftElements THEN <<e>> \o @ ELSE Append(@, e)]
  /\ UNCHANGED <<open, received>>

Take(key, c, i) ==
  /\ queue[key] # <<>>
  /\ Turn(c, i, key)
  /\ \/ /\ open[c][i].left
        /\ Give(c, i, Head(queue[key]))
        /\ queue' = [queue EXCEPT ![key] = Tail(@)]
     \/ /\ ~ open[c][i].left
        /\ Give(c, i, Last(queue[key]))
        /\ queue' = [queue EXCEPT ![key] = Front(@)]
  /\ UNCHANGED received

(* An element that finds a call waiting does not stop in the queue.         *)
Pass(key, e, c, i) ==
  /\ queue[key] = <<>>
  /\ Absent(e)
  /\ Turn(c, i, key)
  /\ Give(c, i, e)
  /\ UNCHANGED <<queue, received>>

Trim(key, from, to) ==
  /\ queue' = [queue EXCEPT ![key] = SubSeq(@, from, to)]
  /\ UNCHANGED <<open, received>>

(* A call returns the element it was given, or nothing.                     *)
Return(c) ==
  /\ open[c] # <<>>
  /\ open' = [open EXCEPT ![c] = Tail(@)]
  /\ \/ UNCHANGED received
     \/ /\ Head(open[c]).value # None
        /\ received' = [received EXCEPT ![c] = Append(@, Head(open[c]))]
  /\ UNCHANGED queue

(* What its calls were given is lost: the consumer dies, or calls again.    *)
Fail(c) ==
  /\ \/ open' = [open EXCEPT ![c] = <<>>]
     \/ open' = [open EXCEPT ![c] = [i \in DOMAIN @ |-> [@[i] EXCEPT !.value = None]]]
  /\ UNCHANGED <<queue, received>>

-----------------------------------------------------------------------------
Next ==
  \/ \E c \in Consumers :
       \/ \E key \in Keys \cup {Nowhere}, left \in BOOLEAN : Call(c, key, left)
       \/ Return(c)
       \/ Fail(c)
  \/ \E key \in Keys :
       \/ \E e \in Elements : Put(key, e)
       \/ \E c \in Consumers : \E i \in DOMAIN open[c] :
            \/ Take(key, c, i)
            \/ \E e \in Elements : Pass(key, e, c, i)
       \/ \E from \in 1..Len(queue[key]), to \in 0..Len(queue[key]) : Trim(key, from, to)

Spec == Init /\ [][Next]_vars

-----------------------------------------------------------------------------
Slots == [key : Keys \cup {Nowhere}, left : BOOLEAN, value : Elements \cup {None}]

TypeOK ==
  /\ queue \in [Keys -> Seq(Elements)]
  /\ open \in [Consumers -> Seq(Slots)]
  /\ received \in [Consumers -> Seq([key : Keys \cup {Nowhere}, left : BOOLEAN, value : Elements])]

(* An element is in one place at most, and so returned once at most.        *)
QueuedOnce ==
  \A j, k \in Keys : \A m \in DOMAIN queue[j], n \in DOMAIN queue[k] :
    queue[j][m] = queue[k][n] => j = k /\ m = n

GivenOnce ==
  \A c, d \in Consumers : \A m \in DOMAIN open[c], n \in DOMAIN open[d] :
    open[c][m].value = open[d][n].value /\ open[c][m].value # None => c = d /\ m = n

ReturnedOnce ==
  \A c, d \in Consumers : \A m \in DOMAIN received[c], n \in DOMAIN received[d] :
    received[c][m].value = received[d][n].value => c = d /\ m = n

OnePlace ==
  /\ QueuedOnce /\ GivenOnce /\ ReturnedOnce
  /\ \A e \in Elements :
       /\ Queued(e) => ~ Given(e) /\ ~ Returned(e)
       /\ Given(e) => ~ Returned(e)

=============================================================================
