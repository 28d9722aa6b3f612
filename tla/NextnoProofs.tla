---------------------------- MODULE NextnoProofs ----------------------------
(* Theorems about NextnoCache, for every value of its constants. *)
EXTENDS NextnoCache, SequenceTheorems, FiniteSetTheorems, TLAPS

-----------------------------------------------------------------------------
(* What the list operations do. *)

LEMMA LenFacts ==
  ASSUME NEW s \in Seq(Nat)
  PROVE  /\ Len(s) \in Nat
         /\ DOMAIN s = 1..Len(s)
         /\ \A i \in DOMAIN s : s[i] \in Nat
         /\ s = <<>> <=> Len(s) = 0
  OBVIOUS

LEMMA TailFacts ==
  ASSUME NEW s \in Seq(Nat), s # <<>>
  PROVE  /\ Head(s) \in Nat /\ Head(s) = s[1]
         /\ Tail(s) \in Seq(Nat)
         /\ Len(Tail(s)) = Len(s) - 1
         /\ \A i \in 1..(Len(s) - 1) : Tail(s)[i] = s[i + 1]
  OBVIOUS

LEMMA FrontFacts ==
  ASSUME NEW s \in Seq(Nat), s # <<>>
  PROVE  /\ Last(s) \in Nat /\ Last(s) = s[Len(s)]
         /\ Front(s) \in Seq(Nat)
         /\ Len(Front(s)) = Len(s) - 1
         /\ \A i \in 1..(Len(s) - 1) : Front(s)[i] = s[i]
  <1>1. Len(s) \in Nat \ {0} /\ s[Len(s)] \in Nat
    BY LenFacts
  <1>2. 1 \in Int /\ Len(s) - 1 \in Int /\ \A i \in 1..(Len(s) - 1) : s[i] \in Nat
    BY <1>1, LenFacts
  <1>3. /\ SubSeq(s, 1, Len(s) - 1) \in Seq(Nat)
        /\ Len(SubSeq(s, 1, Len(s) - 1)) = IF 1 <= Len(s) - 1 THEN Len(s) - 1 - 1 + 1 ELSE 0
        /\ \A i \in 1..(Len(s) - 1 - 1 + 1) : SubSeq(s, 1, Len(s) - 1)[i] = s[1 + i - 1]
    BY <1>2, SubSeqProperties
  <1>4. Len(s) - 1 - 1 + 1 = Len(s) - 1 /\ \A i \in 1..(Len(s) - 1) : 1 + i - 1 = i
    BY <1>1
  <1> QED
    BY <1>1, <1>3, <1>4 DEF Last, Front

LEMMA AppendFacts ==
  ASSUME NEW s \in Seq(Nat), NEW x \in Nat
  PROVE  /\ Append(s, x) \in Seq(Nat)
         /\ Append(s, x) # <<>>
         /\ Len(Append(s, x)) = Len(s) + 1
         /\ \A i \in 1..Len(s) : Append(s, x)[i] = s[i]
         /\ Append(s, x)[Len(s) + 1] = x
  OBVIOUS

LEMMA ConcatFacts ==
  ASSUME NEW s \in Seq(Nat), NEW t \in Seq(Nat)
  PROVE  /\ s \o t \in Seq(Nat)
         /\ Len(s \o t) = Len(s) + Len(t)
         /\ \A i \in 1..Len(s) : (s \o t)[i] = s[i]
         /\ \A i \in 1..Len(t) : (s \o t)[Len(s) + i] = t[i]
  OBVIOUS

LEMMA RunFacts ==
  ASSUME NEW first \in Nat, NEW n \in Nat
  PROVE  /\ Run(first, n) \in Seq(Nat)
         /\ Len(Run(first, n)) = n
         /\ \A i \in 1..n : Run(first, n)[i] = first + i - 1
         /\ Counts(Run(first, n))
  BY DEF Run, Counts

-----------------------------------------------------------------------------
(* A counting list still counts after LPOP, RPOP and a refill. *)

LEMMA CountsFacts ==
  ASSUME NEW s \in Seq(Nat)
  PROVE  Counts(s) <=> \A i \in 1..Len(s) : s[i] = s[1] + i - 1
  BY LenFacts DEF Counts

LEMMA FirstFacts ==
  ASSUME NEW s \in Seq(Nat), s # <<>>
  PROVE  s[1] \in Nat /\ Head(s) = s[1] /\ Len(s) \in Nat \ {0}
  BY LenFacts

LEMMA TailCounts ==
  ASSUME NEW s \in Seq(Nat), s # <<>>, Counts(s)
  PROVE  /\ Counts(Tail(s))
         /\ Tail(s) # <<>> => Head(Tail(s)) = Head(s) + 1
  <1>1. /\ Tail(s) \in Seq(Nat) /\ Len(Tail(s)) = Len(s) - 1
        /\ \A i \in 1..(Len(s) - 1) : Tail(s)[i] = s[i + 1]
    BY TailFacts
  <1>2. s[1] \in Nat /\ Head(s) = s[1] /\ Len(s) \in Nat \ {0}
    BY FirstFacts
  <1>3. \A i \in 1..Len(s) : s[i] = s[1] + i - 1
    BY CountsFacts
  <1>4. \A i \in 1..(Len(s) - 1) : Tail(s)[i] = s[1] + i
    BY <1>1, <1>2, <1>3
  <1>5. \A i \in 1..Len(Tail(s)) : Tail(s)[i] = Tail(s)[1] + i - 1
    <2> SUFFICES ASSUME NEW i \in 1..Len(Tail(s))
                 PROVE  Tail(s)[i] = Tail(s)[1] + i - 1
      OBVIOUS
    <2>1. i \in 1..(Len(s) - 1) /\ 1 \in 1..(Len(s) - 1)
      BY <1>1, <1>2
    <2>2. Tail(s)[i] = s[1] + i /\ Tail(s)[1] = s[1] + 1
      BY <1>4, <2>1
    <2> QED
      BY <1>2, <2>1, <2>2
  <1>6. Tail(s) # <<>> => Head(Tail(s)) = Tail(s)[1] /\ 1 \in 1..(Len(s) - 1)
    BY <1>1, FirstFacts
  <1> QED
    BY <1>1, <1>2, <1>4, <1>5, <1>6, CountsFacts

LEMMA FrontCounts ==
  ASSUME NEW s \in Seq(Nat), s # <<>>, Counts(s)
  PROVE  /\ Counts(Front(s))
         /\ Front(s) # <<>> => Head(Front(s)) = Head(s)
         /\ Last(s) = s[1] + Len(s) - 1
  <1>1. /\ Front(s) \in Seq(Nat) /\ Len(Front(s)) = Len(s) - 1
        /\ \A i \in 1..(Len(s) - 1) : Front(s)[i] = s[i]
        /\ Last(s) = s[Len(s)]
    BY FrontFacts
  <1>2. s[1] \in Nat /\ Head(s) = s[1] /\ Len(s) \in Nat \ {0}
    BY FirstFacts
  <1>3. \A i \in 1..Len(s) : s[i] = s[1] + i - 1
    BY CountsFacts
  <1>4. \A i \in 1..Len(Front(s)) : Front(s)[i] = Front(s)[1] + i - 1
    <2> SUFFICES ASSUME NEW i \in 1..Len(Front(s))
                 PROVE  Front(s)[i] = Front(s)[1] + i - 1
      OBVIOUS
    <2>1. i \in 1..(Len(s) - 1) /\ 1 \in 1..(Len(s) - 1) /\ i \in 1..Len(s)
      BY <1>1, <1>2
    <2>2. Front(s)[i] = s[i] /\ Front(s)[1] = s[1]
      BY <1>1, <2>1
    <2> QED
      BY <1>3, <2>1, <2>2
  <1>5. Front(s) # <<>> => Head(Front(s)) = Front(s)[1] /\ 1 \in 1..(Len(s) - 1)
    BY <1>1, FirstFacts
  <1>6. Last(s) = s[1] + Len(s) - 1
    BY <1>1, <1>2, <1>3
  <1> QED
    BY <1>1, <1>2, <1>4, <1>5, <1>6, CountsFacts

LEMMA AppendCounts ==
  ASSUME NEW s \in Seq(Nat), NEW x \in Nat, Counts(s), s # <<>> => x = Last(s) + 1
  PROVE  Counts(Append(s, x)) /\ Last(Append(s, x)) = x
  <1>1. /\ Append(s, x) \in Seq(Nat) /\ Len(Append(s, x)) = Len(s) + 1
        /\ \A i \in 1..Len(s) : Append(s, x)[i] = s[i]
        /\ Append(s, x)[Len(s) + 1] = x
        /\ Len(s) \in Nat
    BY AppendFacts, LenFacts
  <1>2. \A i \in 1..Len(s) : s[i] = s[1] + i - 1
    BY CountsFacts
  <1>3. Append(s, x)[Len(s) + 1] = Append(s, x)[1] + Len(s)
    <2>1. CASE s = <<>>
      BY <1>1, <2>1, LenFacts
    <2>2. CASE s # <<>>
      BY <1>1, <2>2, FirstFacts, FrontCounts
    <2> QED
      BY <2>1, <2>2
  <1>4. \A i \in 1..Len(Append(s, x)) : Append(s, x)[i] = Append(s, x)[1] + i - 1
    BY <1>1, <1>2, <1>3
  <1> QED
    BY <1>1, <1>4, CountsFacts DEF Last

LEMMA RefillCounts ==
  ASSUME NEW s \in Seq(Nat), s # <<>>, Counts(s), NEW n \in Nat
  PROVE  /\ Counts(Front(s) \o Run(Last(s), n + 1))
         /\ Front(s) \o Run(Last(s), n + 1) # <<>>
         /\ Head(Front(s) \o Run(Last(s), n + 1)) = Head(s)
  <1> DEFINE f == Front(s)
             r == Run(Last(s), n + 1)
             l == Len(s) - 1
  <1>0. s[1] \in Nat /\ Head(s) = s[1] /\ Len(s) \in Nat \ {0} /\ l \in Nat
    BY FirstFacts
  <1>1. /\ f \in Seq(Nat) /\ Len(f) = l
        /\ \A i \in 1..l : f[i] = s[i]
    BY FrontFacts
  <1>2. \A i \in 1..Len(s) : s[i] = s[1] + i - 1
    BY CountsFacts
  <1>3. Last(s) \in Nat /\ Last(s) = s[1] + l
    BY <1>0, FrontFacts, FrontCounts
  <1>4. /\ r \in Seq(Nat) /\ Len(r) = n + 1
        /\ \A i \in 1..(n + 1) : r[i] = Last(s) + i - 1
    <2>1. n + 1 \in Nat
      OBVIOUS
    <2> QED
      BY <1>3, <2>1, RunFacts
  <1>5. \A i \in 1..l : f[i] = s[1] + i - 1
    BY <1>0, <1>1, <1>2
  <1> HIDE DEF f, r, l
  <1>6. /\ f \o r \in Seq(Nat)
        /\ Len(f \o r) = l + n + 1
        /\ \A i \in 1..l : (f \o r)[i] = f[i]
        /\ \A i \in 1..(n + 1) : (f \o r)[l + i] = r[i]
    <2>1. /\ f \o r \in Seq(Nat)
          /\ Len(f \o r) = Len(f) + Len(r)
          /\ \A i \in 1..Len(f) : (f \o r)[i] = f[i]
          /\ \A i \in 1..Len(r) : (f \o r)[Len(f) + i] = r[i]
      BY <1>1, <1>4, ConcatFacts
    <2>2. l + (n + 1) = l + n + 1
      BY <1>0
    <2> QED
      BY <1>1, <1>4, <2>1, <2>2
  <1> DEFINE t == f \o r
  <1> HIDE DEF t
  <1>7. \A i \in 1..(l + n + 1) : t[i] = s[1] + i - 1
    <2> SUFFICES ASSUME NEW i \in 1..(l + n + 1)
                 PROVE  t[i] = s[1] + i - 1
      OBVIOUS
    <2>1. CASE i <= l
      <3>1. i \in 1..l
        BY <1>0, <2>1
      <3> QED
        BY <3>1, <1>5, <1>6 DEF t
    <2>2. CASE i > l
      <3>1. i - l \in 1..(n + 1) /\ l + (i - l) = i
        BY <1>0, <2>2
      <3>2. t[i] = r[i - l]
        BY <3>1, <1>6 DEF t
      <3>3. r[i - l] = Last(s) + (i - l) - 1
        BY <3>1, <1>4
      <3> QED
        BY <1>0, <1>3, <3>1, <3>2, <3>3
    <2> QED
      BY <1>0, <2>1, <2>2
  <1>8. t \in Seq(Nat) /\ Len(t) = l + n + 1
    BY <1>6 DEF t
  <1>9. t # <<>> /\ t[1] = s[1]
    BY <1>0, <1>7, <1>8, LenFacts
  <1>10. Counts(t)
    BY <1>7, <1>8, <1>9, CountsFacts
  <1> QED
    BY <1>0, <1>8, <1>9, <1>10, FirstFacts DEF t, f, r

-----------------------------------------------------------------------------
(* Type correctness. *)

LEMMA TypeStep == TypeOK /\ [Next]_vars => TypeOK'
  <1> SUFFICES ASSUME TypeOK, [Next]_vars PROVE TypeOK'
    OBVIOUS
  <1> USE ConfigAssumption
  <1>1. ASSUME NEW c \in Callers, Bootstrap(c) PROVE TypeOK'
    BY <1>1 DEF TypeOK, Bootstrap, local, count
  <1>2. ASSUME NEW c \in Callers, GetNextno(c) PROVE TypeOK'
    BY <1>2 DEF TypeOK, GetNextno, Called, Goto, Commands
  <1>3. ASSUME NEW c \in Callers, Precheck(c) PROVE TypeOK'
    BY <1>3 DEF TypeOK, Precheck, Called, Goto, Commands
  <1>4. ASSUME NEW c \in Callers, NEW n \in Batches, IncreaseUnos(c, n) PROVE TypeOK'
    BY <1>4 DEF TypeOK, IncreaseUnos, Called, Goto, Commands
  <1>5. ASSUME NEW v \in Hashes, SetHash(v) PROVE TypeOK'
    BY <1>5 DEF TypeOK, SetHash, local, count
  <1>6. ASSUME NEW c \in Callers, ExecPrecheck(c) PROVE TypeOK'
    BY <1>6 DEF TypeOK, ExecPrecheck, Runs, Return, Goto, Commands, count
  <1>7. ASSUME NEW c \in Callers, ExecLlen(c) PROVE TypeOK'
    BY <1>7 DEF TypeOK, ExecLlen, Runs, Return, Goto, Commands, count
  <1>8. ASSUME NEW c \in Callers, NEW first \in Nat, NEW n \in Nat, Fills(c, first, n)
        PROVE  /\ pc' \in [Callers -> Commands \cup {"idle"}]
               /\ start' \in [Callers -> Nat] /\ len' \in [Callers -> Nat]
               /\ wants' = wants /\ served' = served
    BY <1>8 DEF TypeOK, Fills, Goto, Commands
  <1>9. ASSUME NEW c \in Callers, ExecRpop(c) PROVE TypeOK'
    <2>1. WithoutLast \in Seq(Nat)
      BY FrontFacts DEF TypeOK, WithoutLast
    <2>2. PICK first \in Nat, n \in Nat : Fills(c, first, n)
      <3>1. len[c] \in Nat /\ len[c] + 1 \in Nat
        BY DEF TypeOK
      <3>2. nos # <<>> => Last(nos) \in Nat
        BY FrontFacts DEF TypeOK
      <3> QED
        BY <1>9, <3>1, <3>2 DEF ExecRpop, FillsFromLast
    <2> QED
      BY <1>8, <1>9, <2>1, <2>2 DEF TypeOK, ExecRpop, Runs, count
  <1>10. ASSUME NEW c \in Callers, ExecHexists(c) PROVE TypeOK'
    <2>1. CASE Fills(c, 0, len[c])
      BY <1>8, <1>10, <2>1 DEF TypeOK, ExecHexists, Runs, count
    <2>2. CASE Goto(c, "hget") /\ UNCHANGED <<wants, start, len, served>>
      BY <1>10, <2>2 DEF TypeOK, ExecHexists, Runs, count, Goto, Commands
    <2> QED
      BY <1>10, <2>1, <2>2 DEF ExecHexists
  <1>11. ASSUME NEW c \in Callers, ExecHget(c) PROVE TypeOK'
    <2>1. PICK first \in Nat, n \in Nat : Fills(c, first, n)
      BY <1>11 DEF TypeOK, ExecHget
    <2> QED
      BY <1>8, <1>11, <2>1 DEF TypeOK, ExecHget, Runs, count
  <1>12. ASSUME NEW c \in Callers PROVE Pushed(c) \in Seq(Nat)
    BY RunFacts, ConcatFacts DEF TypeOK, Pushed
  <1>13. ASSUME NEW c \in Callers, ExecRpush(c) PROVE TypeOK'
    BY <1>12, <1>13 DEF TypeOK, ExecRpush, Runs, Return, Goto, Commands, count
  <1>14. WithoutFirst \in Seq(Nat) /\ Answer(nos) \in Nat
    BY TailFacts DEF TypeOK, WithoutFirst, Answer
  <1>15. ASSUME NEW c \in Callers, ExecLpop(c) PROVE TypeOK'
    <2>1. served' \in Seq(Nat)
      BY <1>14, <1>15, AppendFacts DEF TypeOK, ExecLpop
    <2> QED
      BY <1>14, <1>15, <2>1 DEF TypeOK, ExecLpop, Runs, Goto, Commands, count
  <1>16. ASSUME NEW c \in Callers, Crash(c) PROVE TypeOK'
    BY <1>16 DEF TypeOK, Crash, Goto, Commands
  <1>17. ASSUME NEW c \in Callers, Resend(c) PROVE TypeOK'
    <2>1. WithoutLast \in Seq(Nat)
      BY FrontFacts DEF TypeOK, WithoutLast
    <2> QED
      BY <1>12, <1>14, <1>17, <2>1 DEF TypeOK, Resend, local
  <1>18. CASE UNCHANGED vars
    BY <1>18 DEF TypeOK, vars, local, count
  <1> QED
    BY <1>1, <1>2, <1>3, <1>4, <1>5, <1>6, <1>7, <1>9, <1>10, <1>11, <1>13, <1>15,
       <1>16, <1>17, <1>18 DEF Next, Application, Command, Sleep

(* Every reachable state is well typed; in particular each answer of        *)
(* getNextno is a number, also after an LPOP of an empty list.              *)
THEOREM TypeCorrect == Spec => []TypeOK
  <1>1. Init => TypeOK
    BY ConfigAssumption DEF Init, TypeOK, Commands
  <1> QED
    BY <1>1, TypeStep, PTL DEF Spec

-----------------------------------------------------------------------------
(* A single caller gets consecutive numbers. *)

(* One flow of calls, fewer crashes than numbers kept in reserve, and marks *)
(* that a refill clears; 20, 50 and 1000 of the code satisfy the last two.  *)
OneCaller(c) ==
  /\ Callers = {c}
  /\ MaxCrashes + 2 <= LowMark
  /\ LowMark <= Batch
  /\ LowMark <= AutoExtends + 1

Inv(c) == TypeOK /\ crashes <= MaxCrashes /\ Series(c) /\ Reserve(c) /\ Course(c)

LEMMA PcFacts ==
  ASSUME TypeOK, NEW c \in Callers, NEW command, Goto(c, command)
  PROVE  pc'[c] = command
  BY DEF TypeOK, Goto

(* Between two changes of the list the series stays what it is.             *)
LEMMA QuietStep ==
  ASSUME NEW c, Series(c), Reserve(c), pc[c] # "rpush", pc'[c] # "rpush",
         nos' = nos, served' = served, crashes' = crashes
  PROVE  Series(c)' /\ Reserve(c)'
  BY DEF Series, Reserve, Ahead, Follows

(* A refill that starts a list, before any number was served.               *)
LEMMA FirstFill ==
  ASSUME NEW c \in Callers, TypeOK, Inv(c), nos' = <<>>, served = <<>>,
         crashes' = crashes, NEW first \in Nat, NEW n \in Nat, Fills(c, first, n)
  PROVE  Series(c)' /\ Reserve(c)'
  <1>1. /\ pc'[c] = "rpush" /\ start'[c] = first /\ len'[c] = n
        /\ served' = <<>>
    BY DEF TypeOK, Fills, Goto
  <1>2. Ahead(c)' = <<>> \o Run(first, n)
    BY <1>1 DEF Ahead, Pushed, Run
  <1>3. <<>> \o Run(first, n) = Run(first, n) /\ Counts(Run(first, n))
    BY RunFacts
  <1>4. Counts(<<>>)
    BY DEF Counts
  <1> QED
    BY <1>1, <1>2, <1>3, <1>4 DEF Series, Reserve, Follows

LEMMA SerialStep ==
  ASSUME NEW c, OneCaller(c)
  PROVE  Inv(c) /\ [Next]_vars /\ resends' = 0 => Inv(c)'
  <1> SUFFICES ASSUME Inv(c), [Next]_vars, resends' = 0 PROVE Inv(c)'
    OBVIOUS
  <1> USE ConfigAssumption
  <1>0. /\ c \in Callers /\ \A d \in Callers : d = c
        /\ TypeOK /\ TypeOK'
        /\ Series(c) /\ Reserve(c) /\ Course(c)
        /\ crashes \in Nat /\ crashes <= MaxCrashes
    BY TypeStep DEF OneCaller, Inv, TypeOK
  <1>1. nos \in Seq(Nat) /\ served \in Seq(Nat) /\ len[c] \in Nat /\ start[c] \in Nat
    BY <1>0 DEF TypeOK
  <1>2. ASSUME Bootstrap(c) PROVE Inv(c)'
    BY <1>0, <1>2 DEF Inv, Bootstrap, local, count, Series, Reserve, Course, Ahead, Pushed, Follows
  <1>3. ASSUME NEW v \in Hashes, SetHash(v) PROVE Inv(c)'
    BY <1>0, <1>3 DEF Inv, SetHash, local, count, Series, Reserve, Course, Ahead, Pushed, Follows
  <1>4. ASSUME GetNextno(c) PROVE Inv(c)'
    <2>1. pc[c] = "idle" /\ pc'[c] = "precheck"
      BY <1>0, <1>4, PcFacts DEF GetNextno, Called
    <2>2. nos' = nos /\ served' = served /\ crashes' = crashes
      BY <1>4 DEF GetNextno
    <2>3. Series(c)' /\ Reserve(c)'
      BY <1>0, <2>1, <2>2, QuietStep
    <2> QED
      BY <1>0, <2>1, <2>2, <2>3 DEF Inv, Course
  <1>5. ASSUME Precheck(c) PROVE Inv(c)'
    <2>1. pc[c] = "idle" /\ pc'[c] = "precheck"
      BY <1>0, <1>5, PcFacts DEF Precheck, Called
    <2>2. nos' = nos /\ served' = served /\ crashes' = crashes
      BY <1>5 DEF Precheck
    <2>3. Series(c)' /\ Reserve(c)'
      BY <1>0, <2>1, <2>2, QuietStep
    <2> QED
      BY <1>0, <2>1, <2>2, <2>3 DEF Inv, Course
  <1>6. ASSUME NEW n \in Batches, IncreaseUnos(c, n) PROVE Inv(c)'
    <2>1. pc[c] = "idle" /\ pc'[c] = "llen"
      BY <1>0, <1>6, PcFacts DEF IncreaseUnos, Called
    <2>2. nos' = nos /\ served' = served /\ crashes' = crashes /\ wants' = wants
      BY <1>6 DEF IncreaseUnos
    <2>3. Series(c)' /\ Reserve(c)'
      BY <1>0, <2>1, <2>2, QuietStep
    <2>4. len'[c] = n /\ n > 0
      BY <1>0, <1>6 DEF IncreaseUnos, TypeOK
    <2>5. c \notin wants'
      BY <1>0, <2>1, <2>2 DEF Course
    <2> QED
      BY <1>0, <2>1, <2>2, <2>3, <2>4, <2>5 DEF Inv, Course
  <1>7. ASSUME ExecPrecheck(c) PROVE Inv(c)'
    <2>1. /\ pc[c] = "precheck" /\ nos' = nos /\ served' = served /\ crashes' = crashes
          /\ wants' = wants
      BY <1>7 DEF ExecPrecheck, Runs, count
    <2>2. CASE Low /\ Goto(c, "llen") /\ len' = [len EXCEPT ![c] = Batch]
      <3>1. pc'[c] = "llen" /\ len'[c] = Batch
        BY <1>0, <2>2, PcFacts DEF TypeOK
      <3>2. Series(c)' /\ Reserve(c)'
        BY <1>0, <2>1, <3>1, QuietStep
      <3>3. Course(c)'
        BY <3>1 DEF Course
      <3> QED
        BY <1>0, <2>1, <3>2, <3>3 DEF Inv
    <2>3. CASE ~ Low /\ Return(c)
      <3>1. pc'[c] = IF c \in wants THEN "lpop" ELSE "idle"
        BY <1>0, <2>3, PcFacts DEF Return
      <3>2. Series(c)' /\ Reserve(c)'
        BY <1>0, <2>1, <3>1, QuietStep
      <3>3. Len(nos) >= LowMark
        BY <1>1, <2>3, LenFacts DEF Low
      <3>4. Course(c)'
        BY <2>1, <3>1, <3>3 DEF Course
      <3> QED
        BY <1>0, <2>1, <3>2, <3>4 DEF Inv
    <2> QED
      BY <1>7, <2>2, <2>3 DEF ExecPrecheck
  <1>8. ASSUME ExecLlen(c) PROVE Inv(c)'
    <2>1. /\ pc[c] = "llen" /\ nos' = nos /\ served' = served /\ crashes' = crashes
          /\ wants' = wants /\ len' = len
      BY <1>8 DEF ExecLlen, Runs, count
    <2>2. len[c] > 0 /\ (c \in wants => len[c] >= Batch)
      BY <1>0, <2>1 DEF Course
    <2>3. CASE Full /\ Return(c)
      <3>1. pc'[c] = IF c \in wants THEN "lpop" ELSE "idle"
        BY <1>0, <2>3, PcFacts DEF Return
      <3>2. Len(nos) >= LowMark
        BY <1>1, <2>3, LenFacts DEF Full, OneCaller
      <3>3. Course(c)'
        BY <2>1, <3>1, <3>2 DEF Course
      <3> QED
        BY <1>0, <2>1, <3>1, <3>3, QuietStep DEF Inv
    <2>4. CASE ~ Full /\ nos # <<>> /\ Goto(c, "rpop")
      <3>1. pc'[c] = "rpop"
        BY <1>0, <2>4, PcFacts
      <3>2. Course(c)'
        BY <2>1, <2>2, <2>4, <3>1 DEF Course
      <3> QED
        BY <1>0, <2>1, <3>1, <3>2, QuietStep DEF Inv
    <2>5. CASE ~ Full /\ nos = <<>> /\ Goto(c, "hexists")
      <3>1. pc'[c] = "hexists"
        BY <1>0, <2>5, PcFacts
      <3>2. Course(c)'
        BY <2>1, <2>2, <2>5, <3>1 DEF Course
      <3> QED
        BY <1>0, <2>1, <3>1, <3>2, QuietStep DEF Inv
    <2> QED
      BY <1>8, <2>3, <2>4, <2>5 DEF ExecLlen
  <1>9. ASSUME nos = <<>>, pc[c] # "rpush" PROVE served = <<>>
    BY <1>0, <1>9, LenFacts DEF Reserve, OneCaller
  <1>10. ASSUME pc[c] \in {"hexists", "hget"}, nos' = nos, crashes' = crashes,
                NEW first \in Nat, Fills(c, first, len[c])
         PROVE  Inv(c)'
    <2>1. nos = <<>> /\ served = <<>> /\ len[c] > 0 /\ (c \in wants => len[c] >= Batch)
      BY <1>0, <1>9, <1>10 DEF Course
    <2>2. Series(c)' /\ Reserve(c)'
      BY <1>0, <1>1, <1>10, <2>1, FirstFill DEF Inv
    <2>3. pc'[c] = "rpush" /\ len'[c] = len[c] /\ wants' = wants
      BY <1>0, <1>10 DEF TypeOK, Fills, Goto
    <2>4. Course(c)'
      BY <2>1, <2>3 DEF Course
    <2> QED
      BY <1>0, <1>10, <2>2, <2>4 DEF Inv
  <1>11. ASSUME ExecHexists(c) PROVE Inv(c)'
    <2>1. pc[c] = "hexists" /\ nos' = nos /\ crashes' = crashes
      BY <1>11 DEF ExecHexists, Runs, count
    <2>2. CASE Fills(c, 0, len[c])
      BY <1>10, <2>1, <2>2
    <2>3. CASE Goto(c, "hget") /\ UNCHANGED <<wants, start, len, served>>
      <3>1. pc'[c] = "hget"
        BY <1>0, <2>3, PcFacts
      <3>2. Course(c)'
        BY <1>0, <2>1, <2>3, <3>1 DEF Course
      <3> QED
        BY <1>0, <2>1, <2>3, <3>1, <3>2, QuietStep DEF Inv
    <2> QED
      BY <1>11, <2>2, <2>3 DEF ExecHexists
  <1>12. ASSUME ExecHget(c) PROVE Inv(c)'
    <2>1. pc[c] = "hget" /\ nos' = nos /\ crashes' = crashes
      BY <1>12 DEF ExecHget, Runs, count
    <2>2. PICK first \in Nat : Fills(c, first, len[c])
      BY <1>0, <1>12 DEF ExecHget, TypeOK
    <2> QED
      BY <1>10, <2>1, <2>2
  <1>13. ASSUME ExecRpop(c) PROVE Inv(c)'
    <2>1. /\ pc[c] = "rpop" /\ nos # <<>> /\ nos' = Front(nos)
          /\ crashes' = crashes /\ served' = served /\ wants' = wants
          /\ pc'[c] = "rpush"
      BY <1>0, <1>13 DEF ExecRpop, Runs, count, FillsFromLast, Fills, WithoutLast, Course,
                        Goto, TypeOK
    <2>2. /\ Counts(nos) /\ Counts(served)
          /\ Last(nos) \in Nat /\ Front(nos) \in Seq(Nat) /\ Len(Front(nos)) = Len(nos) - 1
          /\ Len(nos) \in Nat
      BY <1>0, <1>1, <2>1, FrontFacts, LenFacts DEF Series
    <2>3. len[c] > 0 /\ (c \in wants => len[c] >= Batch)
      BY <1>0, <2>1 DEF Course
    <2>4. CASE Last(nos) > 0
      <3>1. start'[c] = Last(nos) /\ len'[c] = len[c] + 1
        BY <1>0, <1>13, <2>1, <2>4 DEF ExecRpop, FillsFromLast, Fills, TypeOK
      <3>2. Ahead(c)' = Front(nos) \o Run(Last(nos), len[c] + 1)
        BY <2>1, <3>1 DEF Ahead, Pushed, Run
      <3>3. /\ Counts(Ahead(c)') /\ Head(Ahead(c)') = Head(nos)
            /\ Counts(Front(nos)) /\ (Front(nos) # <<>> => Head(Front(nos)) = Head(nos))
        BY <1>1, <2>1, <2>2, <3>2, RefillCounts, FrontCounts
      <3>4. Series(c)'
        BY <1>0, <2>1, <2>2, <3>3 DEF Series, Follows
      <3>5. Reserve(c)'
        BY <1>0, <2>1, <2>2 DEF Reserve, OneCaller
      <3>6. Course(c)'
        BY <1>0, <1>1, <2>1, <2>3, <3>1 DEF Course, OneCaller
      <3> QED
        BY <1>0, <2>1, <3>4, <3>5, <3>6 DEF Inv
    <2>5. CASE ~ Last(nos) > 0
      <3>1. Fills(c, 0, len[c])
        BY <1>13, <2>5 DEF ExecRpop, FillsFromLast
      <3>2. nos[1] \in Nat /\ Head(nos) = nos[1] /\ Last(nos) = nos[1] + Len(nos) - 1
        BY <1>1, <2>1, <2>2, FirstFacts, FrontCounts
      <3>3. nos[1] = 0 /\ Len(nos) = 1
        <4>1. Len(nos) \in Nat \ {0}
          BY <1>1, <2>1, FirstFacts
        <4>2. Last(nos) = 0
          BY <2>2, <2>5
        <4> QED
          <5>1. \A a \in Nat, b \in Nat \ {0} : 0 = a + b - 1 => a = 0 /\ b = 1
            OBVIOUS
          <5> QED
            BY <3>2, <4>1, <4>2, <5>1
      <3>4. served = <<>>
        <4>1. served # <<>> => Last(served) \in Nat
          BY <1>1, FrontFacts
        <4> QED
          BY <1>0, <2>1, <3>2, <3>3, <4>1 DEF Series, Follows
      <3>5. nos' = <<>>
        BY <2>1, <2>2, <3>3, LenFacts
      <3>6. Series(c)' /\ Reserve(c)'
        BY <1>0, <1>1, <2>1, <3>1, <3>4, <3>5, FirstFill DEF Inv
      <3>7. len'[c] = len[c]
        BY <1>0, <3>1 DEF Fills, TypeOK
      <3>8. Course(c)'
        BY <2>1, <2>3, <3>7 DEF Course
      <3> QED
        BY <1>0, <2>1, <3>6, <3>8 DEF Inv
    <2> QED
      BY <2>4, <2>5
  <1>14. ASSUME ExecRpush(c) PROVE Inv(c)'
    <2>1. /\ pc[c] = "rpush" /\ nos' = Ahead(c) /\ served' = served /\ crashes' = crashes
          /\ wants' = wants /\ Ahead(c) = nos \o Run(start[c], len[c])
      BY <1>14 DEF ExecRpush, Runs, count, Ahead, Pushed
    <2>2. pc'[c] = IF c \in wants THEN "lpop" ELSE "idle"
      BY <1>0, <1>14, PcFacts DEF ExecRpush, Return
    <2>3. len[c] > 0 /\ (c \in wants => len[c] >= Batch)
      BY <1>0, <2>1 DEF Course
    <2>4. Len(nos') = Len(nos) + len[c] /\ Len(nos) \in Nat
      <3>1. Run(start[c], len[c]) \in Seq(Nat) /\ Len(Run(start[c], len[c])) = len[c]
        BY <1>1, RunFacts
      <3>2. Len(nos \o Run(start[c], len[c])) = Len(nos) + Len(Run(start[c], len[c]))
        BY <1>1, <3>1, ConcatFacts
      <3> QED
        BY <1>1, <2>1, <3>1, <3>2, LenFacts
    <2>5. Ahead(c)' = nos'
      BY <2>2 DEF Ahead
    <2>6. Series(c)'
      BY <1>0, <2>1, <2>5 DEF Series, Follows
    <2>7. Reserve(c)'
      BY <1>0, <1>1, <2>1, <2>2, <2>3, <2>4 DEF Reserve, OneCaller
    <2>8. c \in wants => Len(nos') >= LowMark
      BY <1>1, <2>3, <2>4 DEF OneCaller
    <2>9. Course(c)'
      BY <2>1, <2>2, <2>8 DEF Course
    <2> QED
      BY <1>0, <2>1, <2>6, <2>7, <2>9 DEF Inv
  <1>15. ASSUME ExecLpop(c) PROVE Inv(c)'
    <2>1. pc[c] = "lpop" /\ Len(nos) >= LowMark /\ crashes' = crashes /\ wants' = wants \ {c}
      BY <1>0, <1>15 DEF ExecLpop, Runs, count, Course
    <2>2. nos # <<>> /\ Len(nos) \in Nat
      BY <1>0, <1>1, <2>1, LenFacts DEF OneCaller
    <2>3. nos' = Tail(nos) /\ served' = Append(served, Head(nos)) /\ pc'[c] = "idle"
      BY <1>0, <1>15, <2>2, PcFacts DEF ExecLpop, Answer, WithoutFirst
    <2>4. Head(nos) \in Nat /\ Len(Tail(nos)) = Len(nos) - 1
      BY <1>1, <2>2, TailFacts
    <2>5. Counts(nos) /\ Counts(served) /\ (served # <<>> => Head(nos) = Last(served) + 1)
      BY <1>0, <2>2 DEF Series, Follows
    <2>6. Counts(served') /\ Last(served') = Head(nos)
      BY <1>1, <2>3, <2>4, <2>5, AppendCounts
    <2>7. Counts(nos') /\ (nos' # <<>> => Head(nos') = Last(served') + 1)
      BY <1>1, <2>2, <2>3, <2>5, <2>6, TailCounts
    <2>8. Ahead(c)' = nos'
      BY <2>3 DEF Ahead
    <2>9. Series(c)'
      BY <2>6, <2>7, <2>8 DEF Series, Follows
    <2>10. Reserve(c)'
      BY <1>0, <2>1, <2>2, <2>3, <2>4 DEF Reserve, OneCaller
    <2>11. Course(c)'
      BY <2>1, <2>3 DEF Course
    <2> QED
      BY <1>0, <2>1, <2>9, <2>10, <2>11 DEF Inv
  <1>16. ASSUME Crash(c) PROVE Inv(c)'
    <2>1. /\ pc'[c] = "idle" /\ nos' = nos /\ served' = served /\ wants' = wants \ {c}
          /\ crashes' = crashes + 1 /\ crashes < MaxCrashes
      BY <1>0, <1>16, PcFacts DEF Crash
    <2>2. Ahead(c)' = nos'
      BY <2>1 DEF Ahead
    <2>3. Series(c)'
      BY <1>0, <2>1, <2>2 DEF Series, Follows
    <2>4. Len(nos) \in Nat
      BY <1>1, LenFacts
    <2>5. Reserve(c)'
      BY <1>0, <2>1, <2>4 DEF Reserve, OneCaller
    <2>6. Course(c)'
      BY <2>1 DEF Course
    <2> QED
      BY <1>0, <2>1, <2>3, <2>5, <2>6 DEF Inv
  <1>17. ASSUME Resend(c) PROVE FALSE
    BY <1>0, <1>17 DEF Resend, TypeOK
  <1>18. CASE UNCHANGED vars
    BY <1>0, <1>18 DEF Inv, vars, local, count, Series, Reserve, Course, Ahead, Pushed, Follows
  <1> QED
    BY <1>0, <1>2, <1>3, <1>4, <1>5, <1>6, <1>7, <1>8, <1>11, <1>12, <1>13, <1>14,
       <1>15, <1>16, <1>17, <1>18 DEF Next, Application, Command, Sleep

LEMMA CountsUp ==
  ASSUME TypeOK, [Next]_vars, crashes <= MaxCrashes
  PROVE  crashes' <= MaxCrashes /\ (resends' = 0 => resends = 0)
  BY ConfigAssumption
  DEF TypeOK, Next, Application, Command, Sleep, vars, count, Called, Runs, Bootstrap,
      GetNextno, Precheck, IncreaseUnos, SetHash, ExecPrecheck, ExecLlen, ExecRpop,
      ExecHexists, ExecHget, ExecRpush, ExecLpop, Crash, Resend

(* SerialInv is the inductive invariant that Consecutive needs: a crash     *)
(* between RPOP and RPUSH loses the last number of the list, and only the   *)
(* numbers left in the list tell the next refill where to go on.            *)
THEOREM SerialInvariant ==
  ASSUME NEW c, OneCaller(c)
  PROVE  Spec => []SerialInv
  <1>1. SerialInv <=> TypeOK /\ crashes <= MaxCrashes /\ (resends = 0 => Inv(c))
    BY DEF OneCaller, SerialInv, Inv
  <1>2. Init => SerialInv
    <2> SUFFICES ASSUME Init PROVE SerialInv
      OBVIOUS
    <2>1. nos = <<>> /\ served = <<>> /\ crashes = 0 /\ pc[c] = "idle" /\ wants = {}
      BY DEF Init, OneCaller
    <2>2. Counts(<<>>)
      BY DEF Counts
    <2>3. Series(c) /\ Reserve(c) /\ Course(c)
      BY <2>1, <2>2 DEF Series, Ahead, Follows, Reserve, Course
    <2>4. TypeOK
      BY ConfigAssumption DEF Init, TypeOK, Commands
    <2>5. crashes <= MaxCrashes
      BY <2>1, ConfigAssumption
    <2> QED
      BY <1>1, <2>3, <2>4, <2>5 DEF Inv
  <1>3. SerialInv /\ [Next]_vars => SerialInv'
    <2> SUFFICES ASSUME SerialInv, [Next]_vars PROVE SerialInv'
      OBVIOUS
    <2>1. TypeOK /\ crashes <= MaxCrashes /\ (resends = 0 => Inv(c))
      BY <1>1
    <2>2. TypeOK' /\ crashes' <= MaxCrashes /\ (resends' = 0 => resends = 0)
      BY <2>1, TypeStep, CountsUp
    <2>3. resends' = 0 => Inv(c)'
      BY <2>1, <2>2, SerialStep
    <2>4. Inv(c)' => (\A d \in Callers : Series(d) /\ Reserve(d) /\ Course(d))'
      BY DEF Inv, OneCaller
    <2> QED
      BY <2>2, <2>3, <2>4 DEF SerialInv
  <1> QED
    BY <1>2, <1>3, PTL DEF Spec

(* One caller gets consecutive numbers, whatever setHash writes and however *)
(* its process dies, for every choice of the marks and the batch size that  *)
(* keeps more in the list than crashes can lose.                            *)
THEOREM ConsecutiveHolds ==
  ASSUME NEW c, OneCaller(c)
  PROVE  Spec => []Consecutive
  <1>1. SerialInv => Consecutive
    BY DEF OneCaller, SerialInv, Series, Consecutive
  <1> QED
    BY <1>1, SerialInvariant, PTL

-----------------------------------------------------------------------------
(* Any number of callers: how much a refill pushes. *)

Sizes == Batches \cup {Batch}

(* A refill pushes a batch, and before it the number it popped.             *)
SizedAt(c) ==
  /\ pc[c] \in {"llen", "rpop", "hexists", "hget"} => len[c] \in Sizes
  /\ pc[c] = "rpush" => len[c] \in Sizes \/ len[c] - 1 \in Sizes

Sized == \A c \in Callers : SizedAt(c)

LEMMA SizesFacts == Sizes \subseteq Nat \ {0}
  BY ConfigAssumption DEF Sizes

LEMMA FillFacts ==
  ASSUME TypeOK, NEW c \in Callers, NEW first, NEW n, Fills(c, first, n)
  PROVE  /\ pc'[c] = "rpush" /\ start'[c] = first /\ len'[c] = n
         /\ \A d \in Callers : d # c => pc'[d] = pc[d] /\ start'[d] = start[d] /\ len'[d] = len[d]
         /\ wants' = wants /\ served' = served
  BY DEF TypeOK, Fills, Goto

(* What a refill does after RPOP.                                           *)
LEMMA RpopFacts ==
  ASSUME TypeOK, NEW c \in Callers, ExecRpop(c)
  PROVE  /\ pc[c] = "rpop" /\ UNCHANGED <<hash, count>>
         /\ \/ /\ nos # <<>> /\ Last(nos) > 0 /\ nos' = Front(nos)
               /\ Fills(c, Last(nos), len[c] + 1)
            \/ /\ nos = <<>> /\ nos' = nos /\ Fills(c, 0, len[c])
            \/ /\ nos # <<>> /\ Last(nos) = 0 /\ nos' = Front(nos)
               /\ Fills(c, 0, len[c])
  <1>1. nos # <<>> => Last(nos) \in Nat
    BY FrontFacts DEF TypeOK
  <1> QED
    BY <1>1 DEF ExecRpop, Runs, FillsFromLast, WithoutLast, TypeOK

(* The callers that a step leaves alone.                                    *)
LEMMA OneMoves ==
  ASSUME TypeOK, NEW c \in Callers,
         Application(c) \/ Command(c) \/ Crash(c) \/ Resend(c),
         NEW d \in Callers, d # c
  PROVE  pc'[d] = pc[d] /\ start'[d] = start[d] /\ len'[d] = len[d]
  <1>1. ASSUME NEW first, NEW n, Fills(c, first, n)
        PROVE  pc'[d] = pc[d] /\ start'[d] = start[d] /\ len'[d] = len[d]
    BY <1>1, FillFacts
  <1>2. CASE ExecRpop(c) \/ ExecHexists(c) \/ ExecHget(c)
    BY <1>1, <1>2 DEF TypeOK, ExecRpop, FillsFromLast, ExecHexists, ExecHget, Goto
  <1>3. CASE Application(c) \/ Crash(c) \/ Resend(c)
    BY <1>3 DEF TypeOK, Application, Bootstrap, GetNextno, Precheck, IncreaseUnos, Called, Goto,
                Crash, Resend, local
  <1>4. CASE ExecPrecheck(c) \/ ExecLlen(c) \/ ExecRpush(c) \/ ExecLpop(c)
    BY <1>4 DEF TypeOK, ExecPrecheck, ExecLlen, ExecRpush, ExecLpop, Return, Goto
  <1> QED
    BY <1>2, <1>3, <1>4 DEF Command

LEMMA SizedStep == TypeOK /\ Sized /\ [Next]_vars => Sized'
  <1> SUFFICES ASSUME TypeOK, Sized, [Next]_vars PROVE Sized'
    OBVIOUS
  <1>1. ASSUME NEW c \in Callers, Application(c) \/ Command(c) \/ Crash(c) \/ Resend(c)
        PROVE  SizedAt(c)'
    <2>1. SizedAt(c)
      BY DEF Sized
    <2>2. ASSUME NEW first, Fills(c, first, len[c]),
                 pc[c] \in {"rpop", "hexists", "hget"}
          PROVE  SizedAt(c)'
      BY <2>1, <2>2, FillFacts DEF SizedAt
    <2>3. CASE ExecRpop(c)
      <3>1. ASSUME NEW first, Fills(c, first, len[c] + 1) PROVE SizedAt(c)'
        <4>1. len[c] \in Sizes /\ len'[c] = len[c] + 1 /\ pc'[c] = "rpush"
          BY <2>1, <2>3, <3>1, RpopFacts, FillFacts DEF SizedAt
        <4>2. len'[c] - 1 = len[c]
          <5>1. PICK n \in Nat : n = len[c]
            BY DEF TypeOK
          <5>2. len'[c] = n + 1
            BY <4>1, <5>1
          <5> QED
            BY <5>1, <5>2
        <4> QED
          BY <4>1, <4>2 DEF SizedAt
      <3> QED
        BY <2>2, <2>3, <3>1, RpopFacts
    <2>4. CASE ExecHexists(c) \/ ExecHget(c)
      <3>1. pc[c] \in {"rpop", "hexists", "hget"}
        BY <2>4 DEF ExecHexists, ExecHget, Runs
      <3>2. CASE UNCHANGED <<wants, start, len, served>> /\ Goto(c, "hget")
        BY <2>1, <3>1, <3>2 DEF SizedAt, TypeOK, Goto
      <3> QED
        BY <2>2, <2>4, <3>1, <3>2 DEF ExecHexists, ExecHget
    <2>5. CASE ExecPrecheck(c) \/ ExecLlen(c) \/ ExecRpush(c) \/ ExecLpop(c)
      BY <2>1, <2>5 DEF SizedAt, Sizes, TypeOK, ExecPrecheck, ExecLlen, ExecRpush, ExecLpop,
                        Runs, Return, Goto
    <2>6. CASE Application(c) \/ Crash(c) \/ Resend(c)
      BY <2>1, <2>6 DEF SizedAt, Sizes, TypeOK, Application, Bootstrap, GetNextno, Precheck,
                        IncreaseUnos, Called, Goto, Crash, Resend, local
    <2> QED
      BY <1>1, <2>3, <2>4, <2>5, <2>6 DEF Command
  <1>2. ASSUME NEW c \in Callers, Application(c) \/ Command(c) \/ Crash(c) \/ Resend(c)
        PROVE  Sized'
    <2>1. ASSUME NEW d \in Callers PROVE SizedAt(d)'
      BY <1>1, <1>2, <2>1, OneMoves DEF Sized, SizedAt
    <2> QED
      BY <2>1 DEF Sized
  <1>3. CASE UNCHANGED vars \/ \E v \in Hashes : SetHash(v)
    BY <1>3 DEF Sized, SizedAt, vars, local, SetHash
  <1> QED
    BY <1>2, <1>3 DEF Next, Sleep

-----------------------------------------------------------------------------
(* No number is skipped. *)

Has(s, y) == \E i \in 1..Len(s) : y = s[i]

LEMMA InSet ==
  ASSUME NEW s \in Seq(Nat)
  PROVE  ToSet(s) = {y \in Nat : Has(s, y)}
  <1>1. DOMAIN s = 1..Len(s) /\ \A i \in DOMAIN s : s[i] \in Nat
    BY LenFacts
  <1> QED
    BY <1>1 DEF ToSet, Has

LEMMA HasTail ==
  ASSUME NEW s \in Seq(Nat), s # <<>>, NEW y \in Nat
  PROVE  Has(s, y) <=> Has(Tail(s), y) \/ y = Head(s)
  <1> DEFINE t == Tail(s)
  <1>1. /\ Len(s) \in Nat \ {0} /\ Len(t) = Len(s) - 1 /\ t \in Seq(Nat)
        /\ Head(s) = s[1] /\ \A i \in 1..(Len(s) - 1) : t[i] = s[i + 1]
    BY TailFacts, LenFacts
  <1> HIDE DEF t
  <1>2. ASSUME NEW i \in 1..Len(s), y = s[i], y # s[1] PROVE Has(t, y)
    <2>1. i - 1 \in 1..Len(t) /\ (i - 1) + 1 = i
      BY <1>1, <1>2
    <2> QED
      BY <1>1, <1>2, <2>1 DEF Has
  <1>3. ASSUME NEW i \in 1..Len(t), y = t[i] PROVE Has(s, y)
    <2>1. i + 1 \in 1..Len(s) /\ i \in 1..(Len(s) - 1)
      BY <1>1, <1>3
    <2> QED
      BY <1>1, <1>3, <2>1 DEF Has
  <1>4. 1 \in 1..Len(s)
    BY <1>1
  <1>5. Has(s, y) <=> Has(t, y) \/ y = Head(s)
    BY <1>1, <1>2, <1>3, <1>4 DEF Has
  <1> QED
    BY <1>5 DEF t

LEMMA HasAppend ==
  ASSUME NEW s \in Seq(Nat), NEW x \in Nat, NEW y \in Nat
  PROVE  Has(Append(s, x), y) <=> Has(s, y) \/ y = x
  <1> DEFINE t == Append(s, x)
  <1>1. /\ Len(s) \in Nat /\ Len(t) = Len(s) + 1 /\ t \in Seq(Nat)
        /\ t[Len(s) + 1] = x /\ \A i \in 1..Len(s) : t[i] = s[i]
    BY AppendFacts, LenFacts
  <1> HIDE DEF t
  <1>2. \A i : i \in 1..Len(t) <=> i = Len(s) + 1 \/ i \in 1..Len(s)
    BY <1>1
  <1>3. Has(t, y) <=> Has(s, y) \/ y = x
    BY <1>1, <1>2 DEF Has
  <1> QED
    BY <1>3 DEF t

LEMMA HasFront ==
  ASSUME NEW s \in Seq(Nat), s # <<>>, NEW y \in Nat
  PROVE  Has(s, y) <=> Has(Front(s), y) \/ y = Last(s)
  <1> DEFINE t == Front(s)
  <1>1. /\ Len(s) \in Nat \ {0} /\ Len(t) = Len(s) - 1 /\ t \in Seq(Nat)
        /\ Last(s) = s[Len(s)] /\ \A i \in 1..(Len(s) - 1) : t[i] = s[i]
    BY FrontFacts, LenFacts
  <1> HIDE DEF t
  <1>2. \A i : i \in 1..Len(s) <=> i = Len(s) \/ i \in 1..Len(t)
    BY <1>1
  <1>3. \A i \in 1..Len(t) : t[i] = s[i]
    BY <1>1
  <1>4. Has(s, y) <=> Has(t, y) \/ y = Last(s)
    BY <1>1, <1>2, <1>3 DEF Has
  <1> QED
    BY <1>4 DEF t

LEMMA HasConcat ==
  ASSUME NEW s \in Seq(Nat), NEW t \in Seq(Nat), NEW y \in Nat
  PROVE  Has(s \o t, y) <=> Has(s, y) \/ Has(t, y)
  <1> DEFINE r == s \o t
  <1>1. /\ Len(s) \in Nat /\ Len(t) \in Nat /\ Len(r) = Len(s) + Len(t)
        /\ r \in Seq(Nat) /\ \A i \in 1..Len(s) : r[i] = s[i]
        /\ \A i \in 1..Len(t) : r[Len(s) + i] = t[i]
    BY ConcatFacts, LenFacts
  <1> HIDE DEF r
  <1>2. ASSUME NEW i \in 1..Len(r), y = r[i]
        PROVE  Has(s, y) \/ Has(t, y)
    <2>1. i \notin 1..Len(s) => i - Len(s) \in 1..Len(t) /\ Len(s) + (i - Len(s)) = i
      BY <1>1
    <2> QED
      BY <1>1, <1>2, <2>1 DEF Has
  <1>3. ASSUME NEW i \in 1..Len(t), y = t[i] PROVE Has(r, y)
    <2>1. Len(s) + i \in 1..Len(r)
      BY <1>1
    <2> QED
      BY <1>1, <1>3, <2>1 DEF Has
  <1>4. ASSUME NEW i \in 1..Len(s), y = s[i] PROVE Has(r, y)
    <2>1. i \in 1..Len(r)
      BY <1>1
    <2> QED
      BY <1>1, <1>4, <2>1 DEF Has
  <1>5. Has(r, y) <=> Has(s, y) \/ Has(t, y)
    BY <1>2, <1>3, <1>4 DEF Has
  <1> QED
    BY <1>5 DEF r

LEMMA HasRun ==
  ASSUME NEW first \in Nat, NEW n \in Nat, NEW y \in Nat
  PROVE  Has(Run(first, n), y) <=> first <= y /\ y < first + n
  <1>1. /\ Run(first, n) \in Seq(Nat) /\ Len(Run(first, n)) = n
        /\ \A i \in 1..n : Run(first, n)[i] = first + i - 1
    BY RunFacts
  <1>2. ASSUME first <= y, y < first + n PROVE Has(Run(first, n), y)
    <2>1. y - first + 1 \in 1..n /\ y = first + (y - first + 1) - 1
      BY <1>2
    <2> QED
      BY <1>1, <2>1 DEF Has
  <1>3. ASSUME Has(Run(first, n), y) PROVE first <= y /\ y < first + n
    BY <1>1, <1>3 DEF Has
  <1> QED
    BY <1>2, <1>3

(* Numbers in the hands of a refill, and those handed out, in the list or   *)
(* in a refill.                                                             *)
HandOf(c, y) == pc[c] = "rpush" /\ start[c] = y
OthersHand(c, y) == \E d \in Callers : d # c /\ HandOf(d, y)
InPool(y) == Has(served, y) \/ Has(nos, y) \/ \E c \in Callers : HandOf(c, y)

Gapless == \A y \in Nat : InPool(y) => \A m \in 0..y : InPool(m)

Undisturbed == crashes = 0 /\ resends = 0 /\ hash = None

GaplessInv == TypeOK /\ Sized /\ (Undisturbed => Gapless)

LEMMA PoolIs == TypeOK => Pool = {y \in Nat : InPool(y)}
  <1> SUFFICES ASSUME TypeOK PROVE Pool = {y \in Nat : InPool(y)}
    OBVIOUS
  <1>1. ToSet(served) = {y \in Nat : Has(served, y)} /\ ToSet(nos) = {y \in Nat : Has(nos, y)}
    BY InSet DEF TypeOK
  <1>2. InHand = {y \in Nat : \E c \in Callers : HandOf(c, y)}
    BY DEF TypeOK, InHand, HandOf
  <1> QED
    BY <1>1, <1>2 DEF Pool, InPool

LEMMA HandStep ==
  ASSUME TypeOK, NEW c \in Callers,
         Application(c) \/ Command(c) \/ Crash(c) \/ Resend(c), NEW y
  PROVE  /\ (\E d \in Callers : HandOf(d, y)) <=> OthersHand(c, y) \/ HandOf(c, y)
         /\ (\E d \in Callers : HandOf(d, y)') <=> OthersHand(c, y) \/ HandOf(c, y)'
  <1>1. \A d \in Callers : d # c => (HandOf(d, y)' <=> HandOf(d, y))
    BY OneMoves DEF HandOf
  <1> QED
    BY <1>1 DEF OthersHand

(* A step that puts the numbers from first on into the pool.                *)
LEMMA GaplessGrows ==
  ASSUME Gapless, NEW first \in Nat, InPool(first) \/ first = 0, NEW n \in Nat,
         \A y \in Nat : InPool(y)' <=> InPool(y) \/ (first <= y /\ y < first + n)
  PROVE  Gapless'
  <1>1. ASSUME NEW y \in Nat, first <= y, y < first + n, NEW m \in 0..y PROVE InPool(m)'
    <2>1. CASE first <= m
      BY <1>1, <2>1
    <2>2. CASE m < first
      <3>1. first # 0 /\ m \in 0..first
        BY <2>2
      <3> QED
        BY <3>1 DEF Gapless
    <2> QED
      BY <2>1, <2>2
  <1>2. ASSUME NEW y \in Nat, InPool(y), NEW m \in 0..y PROVE InPool(m)'
    BY <1>2 DEF Gapless
  <1> QED
    BY <1>1, <1>2 DEF Gapless

LEMMA GaplessStays ==
  ASSUME Gapless, \A y \in Nat : InPool(y)' <=> InPool(y)
  PROVE  Gapless'
  BY DEF Gapless

LEMMA GaplessZero ==
  ASSUME Gapless, \A y \in Nat : InPool(y)' <=> InPool(y) \/ y = 0
  PROVE  Gapless'
  <1>1. \A y \in Nat : InPool(y)' <=> InPool(y) \/ (0 <= y /\ y < 0 + 1)
    OBVIOUS
  <1> QED
    BY <1>1, GaplessGrows

LEMMA GaplessCommand ==
  ASSUME TypeOK, Sized, Undisturbed, Gapless, NEW c \in Callers, Command(c)
  PROVE  Gapless'
  <1> USE DEF InPool
  <1>1. /\ served \in Seq(Nat) /\ nos \in Seq(Nat) /\ start[c] \in Nat /\ len[c] \in Nat
    BY DEF TypeOK
  <1>2. \A y : /\ (\E d \in Callers : HandOf(d, y)) <=> OthersHand(c, y) \/ HandOf(c, y)
               /\ (\E d \in Callers : HandOf(d, y)') <=> OthersHand(c, y) \/ HandOf(c, y)'
    BY HandStep
  <1>3. ASSUME NEW first, NEW n, Fills(c, first, n), pc[c] # "rpush"
        PROVE  /\ served' = served
               /\ \A y : (HandOf(c, y)' <=> y = first) /\ ~ HandOf(c, y)
    BY <1>3, FillFacts DEF HandOf
  <1>4. CASE ExecPrecheck(c) \/ ExecLlen(c)
    <2>1. nos' = nos /\ served' = served /\ \A y : ~ HandOf(c, y) /\ ~ HandOf(c, y)'
      BY <1>4 DEF TypeOK, ExecPrecheck, ExecLlen, Runs, Return, Goto, HandOf
    <2>2. \A y \in Nat : InPool(y)' <=> InPool(y)
      BY <1>2, <2>1
    <2> QED
      BY <2>2, GaplessStays
  <1>5. CASE ExecRpop(c)
    <2>1. pc[c] = "rpop"
      BY <1>5, RpopFacts
    <2>2. CASE nos # <<>> /\ nos' = Front(nos) /\ Fills(c, Last(nos), len[c] + 1)
      <3>1. \A y \in Nat : Has(nos, y) <=> Has(nos', y) \/ y = Last(nos)
        BY <1>1, <2>2, HasFront
      <3>2. \A y \in Nat : InPool(y)' <=> InPool(y)
        BY <1>2, <1>3, <2>1, <2>2, <3>1
      <3> QED
        BY <3>2, GaplessStays
    <2>3. CASE nos' = nos /\ Fills(c, 0, len[c])
      <3>1. \A y \in Nat : InPool(y)' <=> InPool(y) \/ y = 0
        BY <1>2, <1>3, <2>1, <2>3
      <3> QED
        BY <3>1, GaplessZero
    <2>4. CASE nos # <<>> /\ Last(nos) = 0 /\ nos' = Front(nos) /\ Fills(c, 0, len[c])
      <3>1. \A y \in Nat : Has(nos, y) <=> Has(nos', y) \/ y = 0
        BY <1>1, <2>4, HasFront
      <3>2. \A y \in Nat : InPool(y)' <=> InPool(y)
        BY <1>2, <1>3, <2>1, <2>4, <3>1
      <3> QED
        BY <3>2, GaplessStays
    <2> QED
      BY <1>5, <2>2, <2>3, <2>4, RpopFacts
  <1>6. CASE ExecHexists(c) \/ ExecHget(c)
    <2>1. pc[c] # "rpush" /\ nos' = nos
      BY <1>6 DEF ExecHexists, ExecHget, Runs
    <2>2. CASE Fills(c, 0, len[c])
      <3>1. \A y \in Nat : InPool(y)' <=> InPool(y) \/ y = 0
        BY <1>2, <1>3, <2>1, <2>2
      <3> QED
        BY <3>1, GaplessZero
    <2> QED
      BY <1>6, <2>2 DEF ExecHexists, ExecHget, Undisturbed
  <1>7. CASE ExecRpush(c)
    <2>1. /\ pc[c] = "rpush" /\ served' = served /\ nos' = nos \o Run(start[c], len[c])
          /\ \A y : ~ HandOf(c, y)'
      BY <1>7 DEF TypeOK, ExecRpush, Runs, Pushed, Return, Goto, HandOf
    <2>2. \A y : HandOf(c, y) <=> y = start[c]
      BY <2>1 DEF HandOf
    <2>3. len[c] > 0
      BY <1>1, <2>1, SizesFacts DEF Sized, SizedAt
    <2>4. \A y \in Nat : Has(nos', y) <=> Has(nos, y) \/ (start[c] <= y /\ y < start[c] + len[c])
      <3>1. Run(start[c], len[c]) \in Seq(Nat)
        BY <1>1, RunFacts
      <3> QED
        BY <1>1, <2>1, <3>1, HasConcat, HasRun
    <2>5. start[c] <= start[c] /\ start[c] < start[c] + len[c]
      BY <1>1, <2>3
    <2>6. \A y \in Nat : InPool(y)' <=> InPool(y) \/ (start[c] <= y /\ y < start[c] + len[c])
      BY <1>2, <2>1, <2>2, <2>4, <2>5
    <2>7. InPool(start[c])
      BY <2>2
    <2> QED
      BY <1>1, <2>6, <2>7, GaplessGrows
  <1>8. CASE ExecLpop(c)
    <2>1. /\ nos' = WithoutFirst /\ served' = Append(served, Answer(nos))
          /\ \A y : ~ HandOf(c, y) /\ ~ HandOf(c, y)'
      BY <1>8 DEF TypeOK, ExecLpop, Runs, Goto, HandOf
    <2>2. CASE nos = <<>>
      <3>1. nos' = nos /\ \A y \in Nat : Has(served', y) <=> Has(served, y) \/ y = 0
        BY <1>1, <2>1, <2>2, HasAppend DEF WithoutFirst, Answer
      <3>2. \A y \in Nat : InPool(y)' <=> InPool(y) \/ y = 0
        BY <1>2, <2>1, <3>1
      <3> QED
        BY <3>2, GaplessZero
    <2>3. CASE nos # <<>>
      <3>1. /\ Head(nos) \in Nat /\ nos' = Tail(nos) /\ served' = Append(served, Head(nos))
        BY <1>1, <2>1, <2>3, TailFacts DEF WithoutFirst, Answer
      <3>2. \A y \in Nat : /\ Has(nos, y) <=> Has(nos', y) \/ y = Head(nos)
                           /\ Has(served', y) <=> Has(served, y) \/ y = Head(nos)
        BY <1>1, <2>3, <3>1, HasTail, HasAppend
      <3>3. \A y \in Nat : InPool(y)' <=> InPool(y)
        BY <1>2, <2>1, <3>2
      <3> QED
        BY <3>3, GaplessStays
    <2> QED
      BY <2>2, <2>3
  <1> QED
    BY <1>4, <1>5, <1>6, <1>7, <1>8 DEF Command

LEMMA GaplessStep == GaplessInv /\ [Next]_vars => GaplessInv'
  <1> SUFFICES ASSUME GaplessInv, [Next]_vars PROVE GaplessInv'
    OBVIOUS
  <1>1. TypeOK' /\ Sized'
    BY TypeStep, SizedStep DEF GaplessInv
  <1>2. ASSUME NEW c \in Callers, Application(c) PROVE Undisturbed' => Gapless'
    <2>1. /\ nos' = nos /\ served' = served /\ UNCHANGED <<hash, crashes, resends>>
          /\ \A y : HandOf(c, y)' <=> HandOf(c, y)
      BY <1>2 DEF GaplessInv, TypeOK, Application, Bootstrap, GetNextno, Precheck, IncreaseUnos,
                  Called, Goto, HandOf, local, count
    <2>2. \A y \in Nat : InPool(y)' <=> InPool(y)
      BY <1>2, <2>1, HandStep DEF InPool, GaplessInv
    <2> QED
      BY <2>1, <2>2, GaplessStays DEF GaplessInv, Undisturbed
  <1>3. ASSUME NEW c \in Callers, Command(c) PROVE Undisturbed' => Gapless'
    <2>1. Undisturbed' => Undisturbed
      <3>1. UNCHANGED <<hash, count>>
        BY <1>3 DEF Command, ExecPrecheck, ExecLlen, ExecRpop, ExecHexists, ExecHget, ExecRpush,
                    ExecLpop, Runs
      <3> QED
        BY <3>1 DEF Undisturbed, count
    <2> QED
      BY <1>3, <2>1, GaplessCommand DEF GaplessInv
  <1>4. ASSUME NEW c \in Callers, Crash(c) \/ Resend(c) PROVE ~ Undisturbed'
    BY <1>4 DEF GaplessInv, TypeOK, Crash, Resend, Undisturbed
  <1>5. ASSUME NEW v \in Hashes, SetHash(v) PROVE ~ Undisturbed'
    BY <1>5, ConfigAssumption DEF SetHash, Undisturbed
  <1>6. CASE UNCHANGED vars
    <2>1. /\ nos' = nos /\ served' = served /\ pc' = pc /\ start' = start
          /\ Undisturbed' <=> Undisturbed
      BY <1>6 DEF Undisturbed, vars, local, count
    <2>2. \A y \in Nat : InPool(y)' <=> InPool(y)
      BY <2>1 DEF InPool, HandOf
    <2> QED
      BY <1>1, <2>1, <2>2, GaplessStays DEF GaplessInv
  <1> QED
    BY <1>1, <1>2, <1>3, <1>4, <1>5, <1>6 DEF Next, Sleep, GaplessInv

(* However the refills of any number of callers interleave, all numbers     *)
(* below one that was handed out, or will be, are handed out too.           *)
THEOREM NothingSkippedHolds == Spec => []NothingSkipped
  <1>1. Init => GaplessInv
    <2>1. ASSUME Init PROVE TypeOK /\ Sized
      BY <2>1, ConfigAssumption DEF Init, TypeOK, Commands, Sized, SizedAt
    <2>2. ASSUME Init PROVE \A y \in Nat : ~ InPool(y)
      BY <2>2 DEF Init, InPool, Has, HandOf
    <2> QED
      BY <2>1, <2>2 DEF GaplessInv, Gapless
  <1>2. GaplessInv => NothingSkipped
    <2> SUFFICES ASSUME GaplessInv, Undisturbed, NEW n \in Pool, NEW m \in 0..n
                 PROVE  m \in Pool
      BY DEF NothingSkipped, Undisturbed
    <2>1. n \in Nat /\ InPool(n)
      BY PoolIs DEF GaplessInv
    <2>2. m \in Nat /\ InPool(m)
      BY <2>1 DEF GaplessInv, Gapless
    <2> QED
      BY <2>2, PoolIs DEF GaplessInv
  <1> QED
    BY <1>1, <1>2, GaplessStep, PTL DEF Spec

-----------------------------------------------------------------------------
(* The length of the list. *)

(* Refills that passed the test of the list's length and have not pushed.   *)
Refilling == {c \in Callers : pc[c] \in {"rpop", "hexists", "hget", "rpush"}}

(* Each of them can still push a batch and the number it popped.            *)
Room(waiting) ==
  Len(nos) + waiting * (Largest + 1)
    <= AutoExtends + (Cardinality(Callers) + resends) * (Largest + 1)

LengthInv == TypeOK /\ Sized /\ Room(Cardinality(Refilling))

(* Callers are finitely many, and one of the batch sizes is the largest.    *)
Bounded(top) ==
  /\ IsFiniteSet(Callers)
  /\ top \in Batches \cup {Batch}
  /\ \A n \in Batches \cup {Batch} : n <= top

LEMMA LargestIs ==
  ASSUME NEW top, Bounded(top)
  PROVE  Largest = top /\ top \in Nat
  <1>1. \A n \in Batches \cup {Batch} : n \in Nat
    BY ConfigAssumption
  <1>2. top \in Batches \cup {Batch} /\ \A n \in Batches \cup {Batch} : top >= n
    BY <1>1 DEF Bounded
  <1>3. ASSUME NEW x \in Batches \cup {Batch}, \A n \in Batches \cup {Batch} : x >= n
        PROVE  x = top
    BY <1>1, <1>2, <1>3
  <1> QED
    BY <1>1, <1>2, <1>3 DEF Largest, Max

LEMMA Times ==
  ASSUME NEW a \in Nat, NEW b \in Nat, NEW u \in Nat, a <= b
  PROVE  a * u <= b * u /\ (a + 1) * u = a * u + u /\ a * u \in Nat
  OBVIOUS

LEMMA Plus ==
  ASSUME NEW a \in Nat, NEW b \in Nat, NEW d \in Nat, b <= d
  PROVE  a + b \in Nat /\ a + d \in Nat /\ a + b <= a + d
  OBVIOUS

LEMMA RefillingFacts ==
  ASSUME NEW top, Bounded(top)
  PROVE  /\ IsFiniteSet(Refilling) /\ Cardinality(Refilling) \in Nat
         /\ Cardinality(Callers) \in Nat /\ Cardinality(Refilling) <= Cardinality(Callers)
         /\ Cardinality(Refilling') \in Nat /\ Cardinality(Refilling') <= Cardinality(Callers)
  <1>1. Refilling \in SUBSET Callers /\ Refilling' \in SUBSET Callers
    BY DEF Refilling
  <1> QED
    BY <1>1, FS_Subset, FS_CardinalityType DEF Bounded

(* The list gets no longer, and no refill is added to those under way.      *)
LEMMA RoomStays ==
  ASSUME NEW top, Bounded(top), LengthInv, TypeOK', Refilling' \subseteq Refilling,
         Len(nos') <= Len(nos), resends' >= resends
  PROVE  Room(Cardinality(Refilling))'
  <1> DEFINE w == Cardinality(Refilling)
             v == Cardinality(Refilling')
             N == Cardinality(Callers)
             u == top + 1
  <1>1. w \in Nat /\ v \in Nat /\ N \in Nat /\ v <= w /\ u \in Nat
    <2>1. Cardinality(Refilling') <= Cardinality(Refilling)
      <3>1. PICK S, T : S = Refilling /\ T = Refilling' /\ T \in SUBSET S /\ IsFiniteSet(S)
        BY RefillingFacts
      <3>2. Cardinality(T) <= Cardinality(S)
        BY <3>1, FS_Subset
      <3> QED
        BY <3>1, <3>2
    <2> QED
      BY <2>1, RefillingFacts, LargestIs
  <1>2. Len(nos) \in Nat /\ Len(nos') \in Nat /\ resends \in Nat /\ resends' \in Nat
        /\ AutoExtends \in Nat
    BY LenFacts, ConfigAssumption DEF LengthInv, TypeOK
  <1>3. Len(nos) + w * u <= AutoExtends + (N + resends) * u
    BY LargestIs DEF LengthInv, Room
  <1> HIDE DEF w, v, N, u
  <1>4. v * u <= w * u /\ v * u \in Nat /\ w * u \in Nat
    BY <1>1, Times
  <1>5. /\ (N + resends) * u <= (N + resends') * u
        /\ (N + resends) * u \in Nat /\ (N + resends') * u \in Nat
    <2>1. PICK r \in Nat, q \in Nat : r = resends /\ q = resends' /\ r <= q
      BY <1>2
    <2>2. N + r \in Nat /\ N + q \in Nat /\ N + r <= N + q
      BY <1>1, <2>1, Plus
    <2>3. (N + r) * u <= (N + q) * u /\ (N + r) * u \in Nat /\ (N + q) * u \in Nat
      BY <1>1, <2>2, Times
    <2> QED
      BY <2>1, <2>3
  <1>6. Len(nos') + v * u <= AutoExtends + (N + resends') * u
    BY <1>2, <1>3, <1>4, <1>5
  <1> QED
    BY <1>6, LargestIs DEF Room, w, v, N, u

(* A refill passes the test of the list's length.                           *)
LEMMA RoomLlen ==
  ASSUME NEW top, Bounded(top), LengthInv, Len(nos) <= AutoExtends,
         nos' = nos, resends' = resends
  PROVE  Room(Cardinality(Refilling))'
  <1> DEFINE v == Cardinality(Refilling')
             N == Cardinality(Callers)
             u == top + 1
  <1>1. v \in Nat /\ N \in Nat /\ v <= N /\ u \in Nat
    BY RefillingFacts, LargestIs
  <1>2. Len(nos) \in Nat /\ resends \in Nat /\ AutoExtends \in Nat
    BY LenFacts, ConfigAssumption DEF LengthInv, TypeOK
  <1> HIDE DEF v, N, u
  <1>3. v * u <= (N + resends) * u /\ v * u \in Nat /\ (N + resends) * u \in Nat
    <2>1. N + resends \in Nat /\ v <= N + resends
      BY <1>1, <1>2
    <2> QED
      BY <1>1, <2>1, Times
  <1>4. Len(nos) + v * u <= AutoExtends + (N + resends) * u
    BY <1>2, <1>3
  <1> QED
    BY <1>4, LargestIs DEF Room, v, N, u

(* What a refill pushes.                                                    *)
LEMMA PushedFacts ==
  ASSUME NEW top, Bounded(top), LengthInv, NEW c \in Callers, pc[c] = "rpush"
  PROVE  /\ Len(Pushed(c)) = Len(nos) + len[c] /\ Len(nos) \in Nat
         /\ len[c] \in Nat /\ len[c] <= top + 1
  <1>1. nos \in Seq(Nat) /\ start[c] \in Nat /\ len[c] \in Nat
    BY DEF LengthInv, TypeOK
  <1>2. len[c] \in Sizes \/ len[c] - 1 \in Sizes
    BY DEF LengthInv, Sized, SizedAt
  <1>3. len[c] <= top + 1
    <2>1. PICK n \in Sizes : len[c] = n \/ len[c] - 1 = n
      BY <1>2
    <2>2. n \in Nat /\ n <= top /\ top \in Nat
      BY ConfigAssumption, LargestIs DEF Bounded, Sizes
    <2> QED
      BY <1>1, <2>1, <2>2
  <1>4. PICK r \in Seq(Nat) : r = Run(start[c], len[c]) /\ Len(r) = len[c]
    BY <1>1, RunFacts
  <1>5. Len(nos \o r) = Len(nos) + Len(r) /\ Len(nos) \in Nat
    BY <1>1, ConcatFacts, LenFacts
  <1>6. Pushed(c) = nos \o r
    BY <1>4 DEF Pushed
  <1> QED
    BY <1>1, <1>3, <1>4, <1>5, <1>6

(* A refill pushes, and is done.                                            *)
LEMMA RoomRpush ==
  ASSUME NEW top, Bounded(top), LengthInv, NEW c \in Callers, pc[c] = "rpush",
         nos' = Pushed(c), Refilling' = Refilling \ {c}, resends' = resends
  PROVE  Room(Cardinality(Refilling))'
  <1> DEFINE v == Cardinality(Refilling')
             N == Cardinality(Callers)
             u == top + 1
  <1>1. /\ Cardinality(Refilling) = v + 1 /\ v \in Nat /\ N \in Nat /\ u \in Nat
    <2>1. c \in Refilling
      BY DEF Refilling
    <2>2. Cardinality(Refilling') = Cardinality(Refilling) - 1
      BY <2>1, RefillingFacts, FS_RemoveElement
    <2> QED
      BY <2>2, RefillingFacts, LargestIs
  <1>2. /\ Len(nos') = Len(nos) + len[c] /\ Len(nos) \in Nat /\ len[c] \in Nat /\ len[c] <= u
        /\ resends \in Nat /\ AutoExtends \in Nat
    BY PushedFacts, ConfigAssumption DEF LengthInv, TypeOK
  <1>3. Len(nos) + (v + 1) * u <= AutoExtends + (N + resends) * u
    BY <1>1, LargestIs DEF LengthInv, Room
  <1> HIDE DEF v, N, u
  <1>4. (v + 1) * u = v * u + u /\ v * u \in Nat
    BY <1>1, Times
  <1>5. (N + resends) * u \in Nat
    <2>1. N + resends \in Nat
      BY <1>1, <1>2
    <2> QED
      BY <1>1, <2>1, Times
  <1>6. Len(nos') + v * u <= AutoExtends + (N + resends) * u
    BY <1>1, <1>2, <1>3, <1>4, <1>5
  <1> QED
    BY <1>6, LargestIs DEF Room, v, N, u

(* ioredis will send an RPUSH again.                                        *)
LEMMA RoomAgain ==
  ASSUME NEW top, Bounded(top), LengthInv, NEW c \in Callers, pc[c] = "rpush",
         nos' = Pushed(c), Refilling' = Refilling, resends' = resends + 1
  PROVE  Room(Cardinality(Refilling))'
  <1> DEFINE w == Cardinality(Refilling)
             N == Cardinality(Callers)
             u == top + 1
  <1>1. w \in Nat /\ N \in Nat /\ u \in Nat
    BY RefillingFacts, LargestIs
  <1>2. /\ Len(nos') = Len(nos) + len[c] /\ Len(nos) \in Nat /\ len[c] \in Nat /\ len[c] <= u
        /\ resends \in Nat /\ AutoExtends \in Nat
    BY PushedFacts, ConfigAssumption DEF LengthInv, TypeOK
  <1>3. Len(nos) + w * u <= AutoExtends + (N + resends) * u
    BY LargestIs DEF LengthInv, Room
  <1> HIDE DEF w, N, u
  <1>4. /\ (N + (resends + 1)) * u = (N + resends) * u + u
        /\ (N + resends) * u \in Nat /\ w * u \in Nat
    <2>1. N + resends \in Nat /\ N + (resends + 1) = (N + resends) + 1
      BY <1>1, <1>2
    <2> QED
      BY <1>1, <2>1, Times
  <1>5. Len(nos') + w * u <= AutoExtends + (N + (resends + 1)) * u
    BY <1>1, <1>2, <1>3, <1>4
  <1> QED
    BY <1>5, LargestIs DEF Room, w, N, u

LEMMA LengthStep ==
  ASSUME NEW top, Bounded(top)
  PROVE  LengthInv /\ [Next]_vars => LengthInv'
  <1> SUFFICES ASSUME LengthInv, [Next]_vars PROVE LengthInv'
    OBVIOUS
  <1>1. TypeOK' /\ Sized'
    BY TypeStep, SizedStep DEF LengthInv
  <1>2. /\ nos \in Seq(Nat) /\ Len(nos) \in Nat /\ resends \in Nat
        /\ pc \in [Callers -> Commands \cup {"idle"}]
    BY LenFacts DEF LengthInv, TypeOK
  <1>3. ASSUME nos' = nos, resends' = resends, Refilling' \subseteq Refilling
        PROVE  Room(Cardinality(Refilling))'
    BY <1>1, <1>2, <1>3, RoomStays
  <1>4. /\ Len(WithoutLast) <= Len(nos) /\ Len(WithoutFirst) <= Len(nos)
    BY <1>2, FrontFacts, TailFacts DEF WithoutLast, WithoutFirst
  <1>5. ASSUME NEW c \in Callers, Application(c) \/ Command(c) \/ Crash(c) \/ Resend(c),
               pc[c] \in {"rpop", "hexists", "hget", "rpush"}
                 \/ pc'[c] \notin {"rpop", "hexists", "hget", "rpush"}
        PROVE  Refilling' \subseteq Refilling
    BY <1>5, OneMoves DEF Refilling, LengthInv
  <1>6. ASSUME NEW c \in Callers, Application(c) PROVE Room(Cardinality(Refilling))'
    <2>1. /\ nos' = nos /\ resends' = resends
          /\ pc'[c] = pc[c] \/ pc'[c] \in {"precheck", "llen"}
      BY <1>2, <1>6 DEF Application, Bootstrap, GetNextno, Precheck, IncreaseUnos, Called, Goto,
                        local, count
    <2> QED
      BY <1>3, <1>5, <1>6, <2>1
  <1>7. ASSUME NEW c \in Callers, ExecPrecheck(c) \/ ExecLpop(c) PROVE Room(Cardinality(Refilling))'
    <2>1. /\ nos' = nos \/ nos' = WithoutFirst
          /\ resends' = resends
          /\ pc'[c] \in {"llen", "lpop", "idle"}
      BY <1>2, <1>7 DEF ExecPrecheck, ExecLpop, Runs, Return, Goto, count
    <2> QED
      BY <1>1, <1>2, <1>4, <1>5, <1>7, <2>1, RoomStays DEF Command
  <1>8. ASSUME NEW c \in Callers, ExecLlen(c) PROVE Room(Cardinality(Refilling))'
    <2>1. nos' = nos /\ resends' = resends
      BY <1>8 DEF ExecLlen, Runs, count
    <2>2. CASE Full
      <3>1. pc'[c] \in {"lpop", "idle"}
        BY <1>2, <1>8, <2>2 DEF ExecLlen, Return, Goto
      <3> QED
        BY <1>3, <1>5, <1>8, <2>1, <3>1 DEF Command
    <2>3. CASE ~ Full
      <3>1. Len(nos) <= AutoExtends
        BY <1>2, <2>3, ConfigAssumption DEF Full
      <3> QED
        BY <2>1, <3>1, RoomLlen
    <2> QED
      BY <2>2, <2>3
  <1>9. ASSUME NEW c \in Callers, ExecRpop(c) \/ ExecHexists(c) \/ ExecHget(c)
        PROVE  Room(Cardinality(Refilling))'
    <2>1. /\ nos' = nos \/ nos' = WithoutLast
          /\ resends' = resends
          /\ pc[c] \in {"rpop", "hexists", "hget", "rpush"}
      BY <1>9 DEF ExecRpop, ExecHexists, ExecHget, Runs, count
    <2>2. Len(nos') <= Len(nos)
      BY <1>2, <1>4, <2>1
    <2>3. Refilling' \subseteq Refilling
      BY <1>5, <1>9, <2>1 DEF Command
    <2> QED
      BY <1>1, <1>2, <2>1, <2>2, <2>3, RoomStays
  <1>10. ASSUME NEW c \in Callers, ExecRpush(c) PROVE Room(Cardinality(Refilling))'
    <2>1. /\ pc[c] = "rpush" /\ nos' = Pushed(c) /\ resends' = resends
          /\ pc'[c] \in {"lpop", "idle"}
      BY <1>2, <1>10 DEF ExecRpush, Runs, Return, Goto, count
    <2>2. Refilling' = Refilling \ {c}
      BY <1>10, <2>1, OneMoves DEF Refilling, LengthInv, Command
    <2> QED
      BY <2>1, <2>2, RoomRpush
  <1>11. ASSUME NEW c \in Callers, Crash(c) PROVE Room(Cardinality(Refilling))'
    <2>1. nos' = nos /\ resends' = resends /\ pc'[c] = "idle"
      BY <1>2, <1>11 DEF Crash, Goto
    <2> QED
      BY <1>3, <1>5, <1>11, <2>1
  <1>12. ASSUME NEW c \in Callers, Resend(c) PROVE Room(Cardinality(Refilling))'
    <2>1. pc' = pc /\ resends' = resends + 1 /\ Refilling' = Refilling
      BY <1>12 DEF Resend, local, Refilling
    <2>2. CASE pc[c] = "rpush" /\ nos' = Pushed(c)
      BY <2>1, <2>2, RoomAgain
    <2>3. CASE nos' = WithoutLast \/ nos' = WithoutFirst
      BY <1>1, <1>2, <1>4, <2>1, <2>3, RoomStays
    <2> QED
      BY <1>12, <2>2, <2>3 DEF Resend
  <1>13. ASSUME UNCHANGED vars \/ \E v \in Hashes : SetHash(v)
         PROVE  Room(Cardinality(Refilling))'
    <2>1. nos' = nos /\ resends' = resends /\ Refilling' = Refilling
      BY <1>13 DEF vars, local, count, SetHash, Refilling
    <2> QED
      BY <1>3, <2>1
  <1>14. Room(Cardinality(Refilling))'
    BY <1>6, <1>7, <1>8, <1>9, <1>10, <1>11, <1>12, <1>13 DEF Next, Sleep, Command
  <1> QED
    BY <1>1, <1>14 DEF LengthInv

(* Refills that pass the length test together push the list past the mark   *)
(* by one batch each, and a resend by one more.                             *)
THEOREM ListBoundedHolds ==
  ASSUME NEW top, Bounded(top)
  PROVE  Spec => []ListBounded
  <1>1. Init => LengthInv
    <2>1. ASSUME Init PROVE TypeOK /\ Sized
      BY <2>1, ConfigAssumption DEF Init, TypeOK, Commands, Sized, SizedAt
    <2>2. ASSUME Init PROVE Room(Cardinality(Refilling))
      <3>1. Refilling = {} /\ Len(nos) = 0 /\ resends = 0
        BY <2>2 DEF Init, Refilling
      <3>2. Cardinality(Refilling) = 0
        BY <3>1, FS_EmptySet
      <3>3. PICK N \in Nat, u \in Nat : N = Cardinality(Callers) /\ u = Largest + 1
        BY RefillingFacts, LargestIs
      <3>4. N * u \in Nat /\ 0 * u = 0
        BY Times
      <3>5. 0 + 0 * u <= AutoExtends + (N + 0) * u
        BY <3>3, <3>4, ConfigAssumption
      <3> QED
        BY <3>1, <3>2, <3>3, <3>5 DEF Room
    <2> QED
      BY <2>1, <2>2 DEF LengthInv
  <1>2. LengthInv => ListBounded
    <2> SUFFICES ASSUME LengthInv PROVE ListBounded
      OBVIOUS
    <2>1. PICK w \in Nat, N \in Nat, u \in Nat :
            w = Cardinality(Refilling) /\ N = Cardinality(Callers) /\ u = Largest + 1
      BY RefillingFacts, LargestIs
    <2>2. Len(nos) \in Nat /\ w * u \in Nat
      BY <2>1, LenFacts, Times DEF LengthInv, TypeOK
    <2>3. Len(nos) + w * u <= AutoExtends + (N + resends) * u
      BY <2>1 DEF LengthInv, Room
    <2>4. resends \in Nat /\ AutoExtends \in Nat
      BY ConfigAssumption DEF LengthInv, TypeOK
    <2>5. (N + resends) * u \in Nat
      <3>1. N + resends \in Nat
        BY <2>1, <2>4
      <3> QED
        BY <2>1, <3>1, Times
    <2>6. Len(nos) <= AutoExtends + (N + resends) * u
      BY <2>2, <2>3, <2>4, <2>5
    <2> QED
      BY <2>1, <2>6 DEF ListBounded
  <1> QED
    BY <1>1, <1>2, LengthStep, PTL DEF Spec

=============================================================================
