------------------------ MODULE RouterChannelProofs ------------------------
(***************************************************************************)
(* Proofs about RouterChannel, for any row ids, programs and number of     *)
(* changes by others.  Until the router refuses something, what is unread  *)
(* is exactly the answer to the command that waits: nothing yet, or rows   *)
(* that end in one !done, wherever the stream was cut.                     *)
(***************************************************************************)
EXTENDS RouterChannel, SequenceTheorems, FiniteSetTheorems, TLAPS

Command == [n : Nat, verb : Verbs, table : Tables, id : Ids \union {0}]
Client == [pc : {"asking", "next", "done", "failed", "closed"}, verb : Verbs,
           op : Operations \union {"login"}, rows : SUBSET (Ids \union {0}),
           left : SUBSET (Ids \union {0}), n : Nat]
Control == [client : Client, program : Seq(Operations)]

\* The halves in flight, those the client holds first.
Unread == Len(partial) + Len(toClient)
Nth(j) == IF j <= Len(partial) THEN partial[j] ELSE toClient[j - Len(partial)]

Nothing == toRouter = <<>> /\ toClient = <<>> /\ partial = <<>> /\ inbox = <<>>
RowOf(n, s) == s.n = n /\ s.word = "!re"
LastOf(n, s) == s.n = n /\ s.word = "!done"

Asked ==
  /\ Len(toRouter) = 1 /\ toRouter[1].n = client.n
  /\ toClient = <<>> /\ partial = <<>> /\ inbox = <<>>

\* A sentence is told by its second half.
Answered ==
  /\ toRouter = <<>> /\ Unread % 2 = 0 /\ Len(inbox) + Unread > 0
  /\ \A k \in 1..(Unread \div 2) :
       IF 2 * k = Unread THEN LastOf(client.n, Nth(2 * k)) ELSE RowOf(client.n, Nth(2 * k))
  /\ \A k \in 1..Len(inbox) :
       IF k = Len(inbox) /\ Unread = 0 THEN LastOf(client.n, inbox[k])
       ELSE RowOf(client.n, inbox[k])

InStep ==
  /\ ~crossed
  /\ client.pc = "asking" => Asked \/ Answered
  /\ client.pc \in {"next", "done"} => Nothing

ChannelInv == ChannelTypeOK /\ (trapped = {} => InStep)

-----------------------------------------------------------------------------
(* The stream *)

LEMMA Cut ==
  ASSUME NEW s \in Seq(Half), NEW m \in Nat, m = Len(s) \div 2
  PROVE  \E d \in {0, 1} :
           /\ Len(s) = 2 * m + d
           /\ Whole(s) \in Seq(Half) /\ Len(Whole(s)) = m
           /\ \A j \in 1..m : Whole(s)[j] = s[2 * j]
           /\ Rest(s) \in Seq(Half) /\ Len(Rest(s)) = d
           /\ \A j \in 1..d : Rest(s)[j] = s[2 * m + j]
<1>1. Len(s) \in Nat /\ \A i \in 1..Len(s) : s[i] \in Half
  BY ElementOfSeq
<1>2. 2 * m <= Len(s) /\ Len(s) <= 2 * m + 1
  BY <1>1
<1>3. Whole(s) = [k \in 1..m |-> s[2 * k]]
  BY DEF Whole
<1>4. Whole(s) \in [1..m -> Half]
  BY <1>1, <1>2, <1>3
<1>5. Whole(s) \in Seq(Half) /\ Len(Whole(s)) = m
  BY <1>4, SeqDef
<1>6. PICK d \in {0, 1} : Len(s) = 2 * m + d
  BY <1>1, <1>2
<1> DEFINE T == SubSeq(s, 2 * m + 1, 2 * m + d)
<1>7. Rest(s) = T
  BY <1>6 DEF Rest
<1>8. /\ T \in Seq(Half)
      /\ Len(T) = IF 2 * m + 1 <= 2 * m + d THEN (2 * m + d) - (2 * m + 1) + 1 ELSE 0
      /\ \A i \in 1..((2 * m + d) - (2 * m + 1) + 1) : T[i] = s[(2 * m + 1) + i - 1]
  <2>1. \A i \in (2 * m + 1)..(2 * m + d) : s[i] \in Half
    BY <1>1, <1>6
  <2>2. 2 * m + 1 \in Int /\ 2 * m + d \in Int
    BY <1>6
  <2> QED BY <2>1, <2>2, SubSeqProperties
<1> HIDE DEF T
<1>9. Len(T) = d
  BY <1>6, <1>8
<1>10. \A i \in 1..d : T[i] = s[2 * m + i]
  BY <1>6, <1>8
<1>11. \A j \in 1..m : Whole(s)[j] = s[2 * j]
  BY <1>3
<1> QED BY <1>5, <1>6, <1>7, <1>8, <1>9, <1>10, <1>11

LEMMA RowsSent ==
  ASSUME NEW n \in Nat, NEW ids \in SUBSET Ids, NEW order \in Orders(ids), NEW c, c = Cardinality(ids)
  PROVE  /\ c \in Nat
         /\ RowSentences(n, order) \in Seq(Half) /\ Len(RowSentences(n, order)) = 2 * c
         /\ \A k \in 1..(2 * c) : RowOf(n, RowSentences(n, order)[k])
<1>1. c \in Nat
  BY FS_Subset, FS_CardinalityType, ChannelAssumption DEF ChannelAssumption
<1>2. order \in [1..c -> ids] /\ Len(order) = c
  BY <1>1 DEF Orders
<1> DEFINE R == [k \in 1..(2 * c) |-> [n |-> n, word |-> "!re", id |-> order[(k + 1) \div 2]]]
<1>3. RowSentences(n, order) = R
  BY <1>2 DEF RowSentences
<1>4. ASSUME NEW k \in 1..(2 * c)
      PROVE  R[k] \in Half /\ R[k].n = n /\ R[k].word = "!re"
  <2>1. (k + 1) \div 2 \in 1..c
    BY <1>1
  <2>2. order[(k + 1) \div 2] \in Ids
    BY <1>2, <2>1
  <2> QED BY <2>2 DEF Half
<1>5. R \in [1..(2 * c) -> Half]
  BY <1>4
<1> HIDE DEF R
<1>6. R \in Seq(Half) /\ Len(R) = 2 * c
  <2>1. 2 * c \in Nat
    BY <1>1
  <2>2. R \in Seq(Half)
    BY <1>5, <2>1, SeqDef
  <2> QED BY <1>5, <2>1, <2>2, LenProperties
<1> QED BY <1>1, <1>3, <1>4, <1>6 DEF RowOf

LEMMA SentenceTyped ==
  ASSUME NEW n \in Nat, NEW word \in {"!done", "!trap"}
  PROVE  /\ Sentence(n, word, 0) \in Seq(Half) /\ Len(Sentence(n, word, 0)) = 2
         /\ \A k \in 1..2 : /\ Sentence(n, word, 0)[k].n = n
                            /\ Sentence(n, word, 0)[k].word = word
<1>1. [n |-> n, word |-> word, id |-> 0] \in Half
  BY DEF Half
<1> DEFINE half == [n |-> n, word |-> word, id |-> 0]
<1>2. half.n = n /\ half.word = word /\ Sentence(n, word, 0) = <<half, half>>
  BY DEF Sentence
<1>3. half \in Half
  BY <1>1
<1> HIDE DEF half
<1>4. <<half, half>> \in Seq(Half) /\ Len(<<half, half>>) = 2
  BY <1>3
<1>5. \A k \in 1..2 : <<half, half>>[k] = half
  OBVIOUS
<1> QED BY <1>2, <1>4, <1>5

-----------------------------------------------------------------------------
(* Types *)

LEMMA TypeParts ==
  ChannelTypeOK <=>
    /\ tables \in [Tables -> SUBSET Ids] /\ toRouter \in Seq(Command)
    /\ toClient \in Seq(Half) /\ partial \in Seq(Half) /\ inbox \in Seq(Half)
    /\ ctl \in Control /\ trapped \subseteq Nat /\ crossed \in BOOLEAN
    /\ others \in 0..MaxOthers
BY DEF ChannelTypeOK, Command, Control, Client

LEMMA TypePartsNext ==
  ChannelTypeOK' <=>
    /\ tables' \in [Tables -> SUBSET Ids] /\ toRouter' \in Seq(Command)
    /\ toClient' \in Seq(Half) /\ partial' \in Seq(Half) /\ inbox' \in Seq(Half)
    /\ ctl' \in Control /\ trapped' \subseteq Nat /\ crossed' \in BOOLEAN
    /\ others' \in 0..MaxOthers
BY DEF ChannelTypeOK, Command, Control, Client

LEMMA ClientTyped == ctl \in Control => client \in Client
BY DEF Control, client

LEMMA Becoming ==
  ASSUME ctl \in Control, NEW x \in Client, Becomes(x)
  PROVE  ctl' \in Control /\ client' = x
BY DEF Control, Becomes, client

LEMMA Ending ==
  ASSUME ctl \in Control, NEW pc \in {"next", "done", "failed", "closed"},
         Becomes([client EXCEPT !.pc = pc])
  PROVE  ctl' \in Control /\ client'.pc = pc
<1> DEFINE x == [client EXCEPT !.pc = pc]
<1>1. x \in Client /\ x.pc = pc
  BY ClientTyped DEF Client
<1>2. Becomes(x)
  OBVIOUS
<1> HIDE DEF x
<1> QED BY <1>1, <1>2, Becoming

LEMMA Asking ==
  ASSUME ctl \in Control, toRouter \in Seq(Command), client.op \in Operations,
         NEW verb \in {"add", "set", "remove"}, NEW id \in Ids \union {0},
         NEW left \in SUBSET (Ids \union {0}), Ask(verb, id, left)
  PROVE  /\ ctl' \in Control /\ client'.pc = "asking" /\ toRouter' \in Seq(Command)
         /\ toRouter = <<>> => Len(toRouter') = 1 /\ toRouter'[1].n = client'.n
<1> DEFINE x == [pc |-> "asking", verb |-> verb, op |-> client.op, rows |-> {},
                 left |-> left, n |-> client.n + 1]
           y == [n |-> client.n + 1, verb |-> verb, table |-> TableOf[client.op], id |-> id]
<1>1. client \in Client /\ client.n \in Nat
  BY ClientTyped DEF Client
<1>2. x \in Client
  BY <1>1 DEF Client, Verbs
<1>4. x.pc = "asking" /\ x.n = client.n + 1
  BY <1>1 DEF Client
<1>5. y \in Command /\ y.n = client.n + 1
  BY <1>1 DEF Command, TableOf, Operations, Tables, Verbs
<1>6. Becomes(x) /\ toRouter' = Append(toRouter, y)
  BY DEF Ask
<1> HIDE DEF x, y
<1>7. ctl' \in Control /\ client' = x
  BY <1>2, <1>6, Becoming
<1>8. toRouter' \in Seq(Command)
  BY <1>5, <1>6
<1>9. toRouter = <<>> => Len(toRouter') = 1 /\ toRouter'[1] = y
  BY <1>5, <1>6
<1> QED BY <1>4, <1>5, <1>7, <1>8, <1>9

LEMMA NextAsked ==
  ASSUME ctl \in Control, toRouter \in Seq(Command), NextOperation
  PROVE  /\ ctl' \in Control /\ client'.pc = "asking" /\ toRouter' \in Seq(Command)
         /\ toRouter = <<>> => Len(toRouter') = 1 /\ toRouter'[1].n = client'.n
<1>1. client \in Client /\ client.n \in Nat /\ ctl.program \in Seq(Operations)
  BY ClientTyped DEF Client, Control
<1>2. ctl.program # <<>>
  BY DEF NextOperation
<1>3. Head(ctl.program) \in Operations /\ Tail(ctl.program) \in Seq(Operations)
  BY <1>1, <1>2, HeadTailProperties
<1>4. PICK op \in Operations : op = Head(ctl.program)
  BY <1>3
<1> DEFINE x == [pc |-> "asking", verb |-> "print", op |-> op, rows |-> {},
                 left |-> {}, n |-> client.n + 1]
           y == [n |-> client.n + 1, verb |-> "print", table |-> TableOf[op], id |-> 0]
<1>5. x \in Client /\ x.pc = "asking" /\ x.n = client.n + 1
  BY <1>1 DEF Client, Verbs
<1>6. y \in Command /\ y.n = client.n + 1
  BY <1>1 DEF Command, TableOf, Operations, Tables, Verbs
<1>7. /\ ctl' = [client |-> x, program |-> Tail(ctl.program)]
      /\ toRouter' = Append(toRouter, y)
  BY <1>4 DEF NextOperation
<1> HIDE DEF x, y
<1>8. ctl' \in Control /\ client' = x
  BY <1>3, <1>5, <1>7 DEF Control, client
<1>9. toRouter' \in Seq(Command)
  BY <1>6, <1>7
<1>10. toRouter = <<>> => Len(toRouter') = 1 /\ toRouter'[1] = y
  BY <1>6, <1>7
<1> QED BY <1>5, <1>6, <1>8, <1>9, <1>10

-----------------------------------------------------------------------------
(* The router serves a command *)

LEMMA ServesTyped ==
  ASSUME ChannelTypeOK, RouterServes
  PROVE  ChannelTypeOK'
<1> USE TypeParts, TypePartsNext
<1>1. PICK c \in Command : c = Head(toRouter)
  BY HeadTailProperties DEF RouterServes
<1>2. toRouter' \in Seq(Command)
  BY HeadTailProperties DEF RouterServes
<1>3. c.n \in Nat /\ c.table \in Tables /\ tables[c.table] \in SUBSET Ids
  BY DEF Command
<1>4. UNCHANGED <<partial, inbox, ctl, crossed, others>>
  BY DEF RouterServes
<1>5. CASE Traps(c)
  <2>1. toClient' \in Seq(Half)
    BY <1>3, <1>5, SentenceTyped, ConcatProperties DEF Traps
  <2>2. tables' = tables /\ trapped' \subseteq Nat
    BY <1>3, <1>5 DEF Traps
  <2> QED BY <1>2, <1>4, <2>1, <2>2
<1>6. CASE Accepts(c)
  <2>1. PICK order \in Orders(IF c.verb = "print" THEN tables[c.table] ELSE {}) :
          toClient' = toClient \o RowSentences(c.n, order) \o Sentence(c.n, "!done", 0)
    BY <1>6 DEF Accepts
  <2>2. (IF c.verb = "print" THEN tables[c.table] ELSE {}) \in SUBSET Ids
    BY <1>3
  <2>3. RowSentences(c.n, order) \in Seq(Half) /\ Sentence(c.n, "!done", 0) \in Seq(Half)
    BY <1>3, <2>1, <2>2, RowsSent, SentenceTyped
  <2>4. toClient' \in Seq(Half)
    BY <2>1, <2>3, ConcatProperties
  <2>5. (CHOOSE i \in Ids : TRUE) \in Ids
    BY ChannelAssumption DEF ChannelAssumption
  <2>6. tables' \in [Tables -> SUBSET Ids] /\ trapped' = trapped
    BY <1>3, <1>6, <2>5 DEF Accepts
  <2> QED BY <1>2, <1>4, <2>4, <2>6
<1> QED BY <1>1, <1>5, <1>6 DEF RouterServes

\* The answer to the one command that waits is its rows and one !done.
LEMMA ServesInStep ==
  ASSUME ChannelInv, RouterServes, trapped' = {}
  PROVE  InStep'
<1> USE TypeParts
<1>1. toRouter # <<>> /\ UNCHANGED <<partial, inbox, ctl, crossed, others>>
  BY DEF RouterServes
<1>2. PICK c \in Command : c = Head(toRouter)
  BY <1>1, HeadTailProperties DEF ChannelInv
<1>3. Accepts(c) /\ trapped = {}
  BY <1>2 DEF RouterServes, Accepts, Traps
<1>4. InStep
  BY <1>3 DEF ChannelInv
<1>5. client' = client
  BY <1>1 DEF client
<1>6. SUFFICES ASSUME client.pc = "asking" PROVE Answered'
  BY <1>1, <1>4, <1>5 DEF InStep, Nothing
<1>7. Asked
  BY <1>1, <1>4, <1>6 DEF InStep, Answered
<1>8. c.n = client.n /\ toRouter' = <<>>
  BY <1>1, <1>2, <1>7, HeadTailProperties DEF ChannelInv, Asked, RouterServes
<1>9. PICK ids \in SUBSET Ids : \E order \in Orders(ids) :
        toClient' = toClient \o RowSentences(c.n, order) \o Sentence(c.n, "!done", 0)
  BY <1>3 DEF Accepts, ChannelInv, Command
<1>10. PICK order \in Orders(ids) :
        toClient' = toClient \o RowSentences(c.n, order) \o Sentence(c.n, "!done", 0)
  BY <1>9
<1>11. PICK r \in Nat : /\ RowSentences(c.n, order) \in Seq(Half)
                        /\ Len(RowSentences(c.n, order)) = 2 * r
                        /\ \A k \in 1..(2 * r) : RowOf(c.n, RowSentences(c.n, order)[k])
  BY RowsSent DEF Command
<1>12. PICK R \in Seq(Half), D \in Seq(Half) :
         /\ toClient' = R \o D /\ Len(R) = 2 * r /\ \A k \in 1..(2 * r) : RowOf(c.n, R[k])
         /\ Len(D) = 2 /\ \A k \in 1..2 : LastOf(c.n, D[k])
  <2>1. toClient = <<>>
    BY <1>7 DEF Asked
  <2>2. <<>> \o RowSentences(c.n, order) = RowSentences(c.n, order)
    BY <1>11, ConcatEmptySeq
  <2>3. /\ Sentence(c.n, "!done", 0) \in Seq(Half) /\ Len(Sentence(c.n, "!done", 0)) = 2
        /\ \A k \in 1..2 : LastOf(c.n, Sentence(c.n, "!done", 0)[k])
    BY SentenceTyped DEF Command, LastOf
  <2> QED BY <1>10, <1>11, <2>1, <2>2, <2>3
<1>13. /\ Len(toClient') = 2 * r + 2
       /\ \A k \in 1..(2 * r) : RowOf(c.n, toClient'[k])
       /\ LastOf(c.n, toClient'[2 * r + 2])
  <2>1. /\ Len(R \o D) = 2 * r + 2
        /\ \A k \in 1..(2 * r + 2) : (R \o D)[k] = IF k <= 2 * r THEN R[k] ELSE D[k - 2 * r]
    <3>1. /\ Len(R \o D) = Len(R) + Len(D)
          /\ \A k \in 1..(Len(R) + Len(D)) : (R \o D)[k] = IF k <= Len(R) THEN R[k] ELSE D[k - Len(R)]
      BY ConcatProperties
    <3>2. Len(R) = 2 * r /\ Len(D) = 2
      BY <1>12
    <3> QED BY <3>1, <3>2
  <2>2. 2 * r + 2 \in 1..(2 * r + 2) /\ ~(2 * r + 2 <= 2 * r) /\ (2 * r + 2) - 2 * r = 2
    BY <1>11
  <2>3. ASSUME NEW k \in 1..(2 * r)
        PROVE  k \in 1..(2 * r + 2) /\ k <= 2 * r
    BY <1>11
  <2>4. LastOf(c.n, (R \o D)[2 * r + 2])
    BY <1>12, <2>1, <2>2
  <2> QED BY <1>12, <2>1, <2>3, <2>4
<1>14. partial' = <<>> /\ inbox' = <<>> /\ Len(partial') = 0 /\ Len(inbox') = 0
  BY <1>1, <1>7 DEF Asked
<1>15. Unread' = 2 * r + 2 /\ \A k \in 1..(2 * r + 2) : Nth(k)' = toClient'[k]
  BY <1>13, <1>14 DEF Unread, Nth
<1>16. Unread' % 2 = 0 /\ Unread' \div 2 = r + 1 /\ Unread' > 0
  BY <1>11, <1>15
<1>17. ASSUME NEW k \in 1..(r + 1)
       PROVE  IF 2 * k = Unread' THEN LastOf(c.n, Nth(2 * k)') ELSE RowOf(c.n, Nth(2 * k)')
  <2>1. 2 * k \in 1..(2 * r + 2) /\ (2 * k # 2 * r + 2 => 2 * k \in 1..(2 * r))
    BY <1>11
  <2> QED BY <1>13, <1>15, <2>1
<1> QED BY <1>5, <1>8, <1>14, <1>15, <1>16, <1>17 DEF Answered, LastOf, RowOf

-----------------------------------------------------------------------------
(* The client *)

\* A chunk moves the sentences it completes to the inbox, and nothing else.
LEMMA DataMoves ==
  ASSUME ChannelTypeOK, NEW k \in 1..Len(toClient), OnData(k)
  PROVE  \E m \in Nat :
           /\ toClient' \in Seq(Half) /\ partial' \in Seq(Half) /\ inbox' \in Seq(Half)
           /\ 2 * m <= Unread /\ Unread \in Nat /\ Unread' = Unread - 2 * m
           /\ Len(inbox) \in Nat /\ Len(inbox') = Len(inbox) + m
           /\ \A j \in 1..Len(inbox) : inbox'[j] = inbox[j]
           /\ \A j \in 1..m : inbox'[Len(inbox) + j] = Nth(2 * j)
           /\ \A j \in 1..(Unread - 2 * m) : Nth(j)' = Nth(2 * m + j)
<1>0. toClient \in Seq(Half) /\ partial \in Seq(Half) /\ inbox \in Seq(Half)
  BY TypeParts
<1>1. PICK p \in Seq(Half), t \in Seq(Half), q \in Seq(Half), a \in Nat, b \in Nat, c \in Nat :
        /\ p = partial /\ t = toClient /\ q = inbox
        /\ a = Len(p) /\ b = Len(t) /\ c = Len(q) /\ k \in 1..b
  BY <1>0, LenProperties
<1> DEFINE C == SubSeq(t, 1, k)
           P == p \o C
           T == SubSeq(t, k + 1, b)
<1>2. C \in Seq(Half) /\ Len(C) = k /\ \A j \in 1..k : C[j] = t[j]
  <2>1. \A i \in 1..k : t[i] \in Half
    BY <1>1, ElementOfSeq
  <2>2. /\ SubSeq(t, 1, k) \in Seq(Half)
        /\ Len(SubSeq(t, 1, k)) = IF 1 <= k THEN k - 1 + 1 ELSE 0
        /\ \A i \in 1..(k - 1 + 1) : SubSeq(t, 1, k)[i] = t[1 + i - 1]
    BY <1>1, <2>1, SubSeqProperties
  <2> QED BY <1>1, <2>2
<1>3. T \in Seq(Half) /\ Len(T) = b - k /\ \A j \in 1..(b - k) : T[j] = t[k + j]
  <2>1. \A i \in (k + 1)..b : t[i] \in Half
    BY <1>1, ElementOfSeq
  <2>2. /\ SubSeq(t, k + 1, b) \in Seq(Half)
        /\ Len(SubSeq(t, k + 1, b)) = IF k + 1 <= b THEN b - (k + 1) + 1 ELSE 0
        /\ \A i \in 1..(b - (k + 1) + 1) : SubSeq(t, k + 1, b)[i] = t[(k + 1) + i - 1]
    <3>1. k + 1 \in Int /\ b \in Int
      BY <1>1
    <3> QED BY <2>1, <3>1, SubSeqProperties
  <2>3. b - (k + 1) + 1 = b - k /\ \A i \in Int : (k + 1) + i - 1 = k + i
    BY <1>1
  <2>4. Len(T) = b - k
    BY <1>1, <2>2
  <2> QED BY <1>1, <2>2, <2>3, <2>4
<1>4. PICK l \in Nat : l = a + k
  BY <1>1
<1>5. /\ P \in Seq(Half) /\ Len(P) = l
      /\ \A j \in 1..l : P[j] = IF j <= a THEN p[j] ELSE C[j - a]
  <2>1. /\ P \in Seq(Half) /\ Len(P) = Len(p) + Len(C)
        /\ \A j \in 1..(Len(p) + Len(C)) : P[j] = IF j <= Len(p) THEN p[j] ELSE C[j - Len(p)]
    BY <1>1, <1>2, ConcatProperties
  <2>2. Len(p) + Len(C) = l /\ Len(p) = a
    BY <1>1, <1>2, <1>4
  <2> QED BY <2>1, <2>2
<1> HIDE DEF C
<1>6. ASSUME NEW j \in 1..l
      PROVE  P[j] = Nth(j)
  <2>1. ~(j <= a) => j - a \in 1..k
    BY <1>1, <1>4
  <2> QED BY <1>1, <1>2, <1>5, <2>1 DEF Nth
<1>7. partial' = Rest(P) /\ inbox' = q \o Whole(P) /\ toClient' = T
  BY <1>1 DEF OnData, ExtractSentences, C
<1> HIDE DEF P, T
<1>8. PICK m \in Nat : m = Len(P) \div 2
  <2>1. l \div 2 \in Nat
    BY <1>4
  <2> QED BY <1>5, <2>1
<1> DEFINE W == Whole(P)
           R == Rest(P)
<1>9. PICK d \in {0, 1} :
        /\ l = 2 * m + d
        /\ W \in Seq(Half) /\ Len(W) = m /\ \A j \in 1..m : W[j] = P[2 * j]
        /\ R \in Seq(Half) /\ Len(R) = d /\ \A j \in 1..d : R[j] = P[2 * m + j]
  BY <1>5, <1>8, Cut
<1>10. partial' = R /\ inbox' = q \o W
  BY <1>7
<1> HIDE DEF W, R
<1>11. /\ inbox' \in Seq(Half) /\ Len(inbox') = c + m
       /\ \A j \in 1..(c + m) : inbox'[j] = IF j <= c THEN q[j] ELSE W[j - c]
  BY <1>1, <1>9, <1>10, ConcatProperties
<1>12. \A j \in 1..c : inbox'[j] = inbox[j]
  BY <1>1, <1>8, <1>11
<1>13. ASSUME NEW j \in 1..m
       PROVE  inbox'[c + j] = Nth(2 * j)
  <2>1. c + j \in 1..(c + m) /\ ~(c + j <= c) /\ c + j - c = j
    BY <1>1, <1>8
  <2>2. inbox'[c + j] = W[j]
    BY <1>11, <2>1
  <2>3. 2 * j \in 1..l
    BY <1>8, <1>9
  <2> QED BY <1>6, <1>9, <2>2, <2>3
<1>14. PICK u \in Nat : u = a + b
  BY <1>1
<1>15. Unread = u
  BY <1>1, <1>14 DEF Unread
<1>16. /\ k \in Nat /\ k <= b /\ a + k = 2 * m + d /\ m \in Nat
       /\ a \in Nat /\ b \in Nat /\ d \in {0, 1} /\ l \in Nat /\ l = 2 * m + d
       /\ 2 * m <= u /\ u - 2 * m = d + (b - k)
  <2>1. k \in Nat /\ k <= b
    BY <1>1
  <2>2. l = 2 * m + d
    BY <1>9
  <2> QED BY <1>4, <1>14, <2>1, <2>2
<1>17. Unread' = u - 2 * m
  <2>1. Len(partial') = d /\ Len(toClient') = b - k
    BY <1>3, <1>7, <1>9, <1>10
  <2> QED BY <1>16, <2>1 DEF Unread
<1>18. ASSUME NEW j \in 1..(u - 2 * m)
       PROVE  Nth(j)' = Nth(2 * m + j)
  <2>1. Nth(j)' = IF j <= d THEN R[j] ELSE T[j - d]
    BY <1>7, <1>9, <1>10 DEF Nth
  <2>2. CASE j <= d
    <3>1. j \in 1..d /\ 2 * m + j \in 1..l
      BY <1>16, <2>2
    <3>2. R[j] = P[2 * m + j]
      BY <1>9, <3>1
    <3> QED BY <1>6, <2>1, <2>2, <3>1, <3>2
  <2>3. CASE ~(j <= d)
    <3>1. j \in Nat /\ j <= d + (b - k)
      BY <1>16
    <3>2. PICK i \in 1..(b - k) : i = j - d
      BY <1>16, <2>3, <3>1
    <3>3. Nth(j)' = t[k + i]
      BY <1>3, <2>1, <2>3, <3>2
    <3>4. 2 * m + j - a = k + i
      BY <1>16, <3>1, <3>2
    <3>5. ~(2 * m + j <= a)
      BY <1>16, <3>1, <3>2, <3>4
    <3>6. Nth(2 * m + j) = t[2 * m + j - a]
      BY <1>1, <3>5 DEF Nth
    <3> QED BY <3>3, <3>4, <3>6
  <2> QED BY <2>2, <2>3
<1>19. toClient' \in Seq(Half) /\ partial' \in Seq(Half)
  BY <1>3, <1>7, <1>9, <1>10
<1>20. c = Len(inbox)
  BY <1>1
<1> QED BY <1>16, <1>11, <1>12, <1>13, <1>15, <1>16, <1>17, <1>18, <1>19, <1>20

LEMMA DataInStep ==
  ASSUME ChannelInv, NEW k \in 1..Len(toClient), OnData(k), trapped' = {}
  PROVE  InStep'
<1>1. /\ UNCHANGED <<tables, toRouter, ctl, trapped, crossed, others>>
      /\ client' = client
  BY DEF OnData, client
<1>2. ChannelTypeOK /\ InStep
  BY <1>1 DEF ChannelInv
<1>3. toClient # <<>>
  BY EmptySeq
<1>4. SUFFICES ASSUME client.pc = "asking" PROVE Answered'
  BY <1>1, <1>2, <1>3 DEF InStep, Nothing
<1>5. Answered
  BY <1>2, <1>3, <1>4 DEF InStep, Asked
<1>6. PICK m \in Nat, u \in Nat, c \in Nat :
        /\ u = Unread /\ c = Len(inbox) /\ 2 * m <= u
        /\ Unread' = u - 2 * m /\ Len(inbox') = c + m
        /\ \A j \in 1..c : inbox'[j] = inbox[j]
        /\ \A j \in 1..m : inbox'[c + j] = Nth(2 * j)
        /\ \A j \in 1..(u - 2 * m) : Nth(j)' = Nth(2 * m + j)
  BY <1>2, DataMoves
<1>7. /\ toRouter = <<>> /\ u % 2 = 0 /\ c + u > 0
      /\ \A i \in 1..(u \div 2) :
           IF 2 * i = u THEN LastOf(client.n, Nth(2 * i)) ELSE RowOf(client.n, Nth(2 * i))
      /\ \A i \in 1..c :
           IF i = c /\ u = 0 THEN LastOf(client.n, inbox[i]) ELSE RowOf(client.n, inbox[i])
  BY <1>5, <1>6 DEF Answered
<1>8. PICK h \in Nat : u = 2 * h
  BY <1>7
<1>9. PICK g \in Nat : g = h - m
  BY <1>6, <1>8
<1>10. Unread' = 2 * g /\ Unread' % 2 = 0 /\ Unread' \div 2 = g /\ c + m + 2 * g > 0
  BY <1>6, <1>7, <1>8, <1>9
<1>11. ASSUME NEW i \in 1..g
       PROVE  IF 2 * i = 2 * g THEN LastOf(client.n, Nth(2 * i)') ELSE RowOf(client.n, Nth(2 * i)')
  <2>1. /\ 2 * i \in 1..(u - 2 * m) /\ i + m \in 1..(u \div 2)
        /\ 2 * m + 2 * i = 2 * (i + m) /\ (2 * (i + m) = u <=> 2 * i = 2 * g)
    BY <1>8, <1>9
  <2>2. Nth(2 * i)' = Nth(2 * (i + m))
    BY <1>6, <2>1
  <2> QED BY <1>7, <2>1, <2>2
<1>12. ASSUME NEW i \in 1..(c + m)
       PROVE  IF i = c + m /\ 2 * g = 0 THEN LastOf(client.n, inbox'[i])
              ELSE RowOf(client.n, inbox'[i])
  <2>1. CASE i <= c
    <3>1. i \in 1..c /\ inbox'[i] = inbox[i]
      BY <1>6, <2>1
    <3>2. u = 0 => m = 0 /\ g = 0
      BY <1>8, <1>9
    <3>3. i = c + m /\ 2 * g = 0 => i = c /\ u = 0
      BY <1>8, <1>9, <2>1
    <3> QED BY <1>7, <3>1, <3>2, <3>3
  <2>2. CASE ~(i <= c)
    <3>1. PICK j \in 1..m : i = c + j
      BY <2>2
    <3>2. inbox'[i] = Nth(2 * j)
      BY <1>6, <3>1
    <3>3. j \in 1..(u \div 2) /\ (2 * j = u <=> i = c + m /\ 2 * g = 0)
      BY <1>8, <1>9, <3>1
    <3> QED BY <1>7, <3>2, <3>3
  <2> QED BY <2>1, <2>2
<1> QED BY <1>1, <1>6, <1>7, <1>10, <1>11, <1>12 DEF Answered, LastOf, RowOf

\* While the client is in step, what it reads is the answer to what it asked.
LEMMA ReadOwn ==
  ASSUME ChannelInv, trapped = {}, NEW word \in {"!re", "!done", "!trap"}, Read(word)
  PROVE  /\ toRouter = <<>> /\ ~crossed' /\ word # "!trap"
         /\ word = "!done" => toClient' = <<>> /\ partial' = <<>> /\ inbox' = <<>>
         /\ word = "!re" => Len(inbox') + Unread > 0
         /\ Unread % 2 = 0 /\ Len(inbox') \in Nat
         /\ \A k \in 1..(Unread \div 2) :
              IF 2 * k = Unread THEN LastOf(client.n, Nth(2 * k)) ELSE RowOf(client.n, Nth(2 * k))
         /\ \A k \in 1..Len(inbox') :
              IF k = Len(inbox') /\ Unread = 0 THEN LastOf(client.n, inbox'[k])
              ELSE RowOf(client.n, inbox'[k])
<1>1. ChannelTypeOK /\ InStep /\ inbox # <<>> /\ inbox \in Seq(Half)
  BY TypeParts DEF ChannelInv, Read
<1>2. Answered
  BY <1>1 DEF InStep, Asked, Read
<1>3. toClient \in Seq(Half) /\ partial \in Seq(Half)
  BY <1>1, TypeParts
<1>4. PICK c \in Nat, u \in Nat : c = Len(inbox) /\ c > 0 /\ u = Unread
  BY <1>1, <1>3, EmptySeq DEF Unread
<1>5. /\ toRouter = <<>> /\ u % 2 = 0
      /\ \A k \in 1..(u \div 2) :
           IF 2 * k = u THEN LastOf(client.n, Nth(2 * k)) ELSE RowOf(client.n, Nth(2 * k))
      /\ \A k \in 1..c :
           IF k = c /\ u = 0 THEN LastOf(client.n, inbox[k]) ELSE RowOf(client.n, inbox[k])
  BY <1>2, <1>4 DEF Answered
<1>6. /\ inbox' = Tail(inbox) /\ Len(inbox') = c - 1
      /\ \A k \in 1..(c - 1) : inbox'[k] = inbox[k + 1]
      /\ Head(inbox) = inbox[1]
  BY <1>1, <1>4, HeadTailProperties DEF Read
<1>7. 1 \in 1..c /\ (IF 1 = c /\ u = 0 THEN LastOf(client.n, inbox[1]) ELSE RowOf(client.n, inbox[1]))
  BY <1>4, <1>5
<1>8. inbox[1].word = word /\ (crossed' <=> crossed \/ inbox[1].n # client.n)
  BY <1>6 DEF Read
<1>9. ~crossed' /\ word # "!trap" /\ (word = "!done" => c = 1 /\ u = 0) /\ (word = "!re" => c - 1 + u > 0)
  BY <1>1, <1>4, <1>7, <1>8 DEF InStep, LastOf, RowOf
<1>10. ASSUME word = "!done"
       PROVE  toClient' = <<>> /\ partial' = <<>> /\ inbox' = <<>>
  <2>1. Len(toClient) = 0 /\ Len(partial) = 0
    BY <1>3, <1>4, <1>9, <1>10 DEF Unread
  <2>2. inbox' \in Seq(Half) /\ Len(inbox') = 0
    BY <1>1, <1>6, <1>9, <1>10, HeadTailProperties
  <2> QED BY <1>3, <2>1, <2>2, EmptySeq DEF Read
<1>11. ASSUME NEW k \in 1..(c - 1)
       PROVE  IF k = c - 1 /\ u = 0 THEN LastOf(client.n, inbox'[k]) ELSE RowOf(client.n, inbox'[k])
  <2>1. k + 1 \in 1..c /\ (k + 1 = c <=> k = c - 1)
    BY <1>4
  <2> QED BY <1>5, <1>6, <2>1
<1> QED BY <1>4, <1>5, <1>6, <1>9, <1>10, <1>11

LEMMA ReadTyped ==
  ASSUME ChannelTypeOK, NEW word \in {"!re", "!done", "!trap"}, Read(word)
  PROVE  inbox' \in Seq(Half) /\ crossed' \in BOOLEAN /\ Head(inbox).id \in Ids \union {0}
<1>1. inbox \in Seq(Half) /\ inbox # <<>> /\ crossed \in BOOLEAN
  BY TypeParts DEF Read
<1>2. Head(inbox) \in Half /\ inbox' \in Seq(Half)
  BY <1>1, HeadTailProperties DEF Read
<1>3. crossed' \in BOOLEAN
  BY DEF Read
<1> QED BY <1>2, <1>3 DEF Half

LEMMA ReadRowKeeps ==
  ASSUME ChannelInv, ReadRow
  PROVE  ChannelInv'
<1>1. ChannelTypeOK /\ ctl \in Control /\ Read("!re")
  BY TypeParts DEF ChannelInv, ReadRow
<1>2. client \in Client /\ Head(inbox).id \in Ids \union {0}
  BY <1>1, ClientTyped, ReadTyped
<1> DEFINE x == [client EXCEPT !.rows = @ \union {Head(inbox).id}]
<1>3. x \in Client /\ x.pc = client.pc /\ x.n = client.n
  BY <1>2 DEF Client
<1>4. Becomes(x) /\ UNCHANGED toRouter
  BY DEF ReadRow
<1> HIDE DEF x
<1>5. ctl' \in Control /\ client'.pc = client.pc /\ client'.n = client.n
  BY <1>1, <1>3, <1>4, Becoming
<1>6. UNCHANGED <<tables, toClient, partial, trapped, others>> /\ client.pc = "asking"
  BY <1>1 DEF Read
<1>7. ChannelTypeOK'
  BY <1>1, <1>4, <1>5, <1>6, ReadTyped, TypeParts, TypePartsNext
<1>8. ASSUME trapped = {}
      PROVE  ~crossed' /\ Answered'
  <2>1. /\ toRouter = <<>> /\ ~crossed' /\ Len(inbox') + Unread > 0
        /\ Unread % 2 = 0
        /\ \A k \in 1..(Unread \div 2) :
             IF 2 * k = Unread THEN LastOf(client.n, Nth(2 * k)) ELSE RowOf(client.n, Nth(2 * k))
        /\ \A k \in 1..Len(inbox') :
             IF k = Len(inbox') /\ Unread = 0 THEN LastOf(client.n, inbox'[k])
             ELSE RowOf(client.n, inbox'[k])
    BY <1>1, <1>8, ReadOwn
  <2>2. Unread' = Unread /\ \A j : Nth(j)' = Nth(j)
    BY <1>6 DEF Unread, Nth
  <2>3. toRouter' = <<>>
    BY <1>4, <2>1
  <2> QED BY <1>5, <2>1, <2>2, <2>3 DEF Answered, LastOf, RowOf
<1> QED BY <1>5, <1>6, <1>7, <1>8 DEF ChannelInv, InStep

LEMMA ReadEndKeeps ==
  ASSUME ChannelInv, ReadRefusal \/ ReadDone
  PROVE  ChannelInv'
<1>1. PICK word \in {"!done", "!trap"}, pc \in {"next", "failed"} :
        /\ Read(word) /\ Becomes([client EXCEPT !.pc = pc]) /\ UNCHANGED toRouter
        /\ word = "!done" => pc = "next"
  BY DEF ReadRefusal, ReadDone, Ends
<1>2. ChannelTypeOK /\ ctl \in Control
  BY TypeParts DEF ChannelInv
<1>3. ctl' \in Control /\ client'.pc = pc
  BY <1>1, <1>2, Ending
<1>4. UNCHANGED <<tables, toClient, partial, trapped, others>>
  BY <1>1 DEF Read
<1>5. ChannelTypeOK'
  BY <1>1, <1>2, <1>3, <1>4, ReadTyped, TypeParts, TypePartsNext
<1>6. ASSUME trapped = {}
      PROVE  ~crossed' /\ Nothing'
  BY <1>1, <1>6, ReadOwn DEF Nothing
<1> QED BY <1>3, <1>4, <1>5, <1>6 DEF ChannelInv, InStep

LEMMA EndKeeps ==
  ASSUME ChannelInv, TalkTimesOut \/ ProgramOver \/ Close
  PROVE  ChannelInv'
<1>1. ChannelTypeOK /\ ctl \in Control
  BY TypeParts DEF ChannelInv
<1>2. PICK pc \in {"done", "failed", "closed"} :
        /\ Becomes([client EXCEPT !.pc = pc])
        /\ pc = "done" => ProgramOver
  BY DEF TalkTimesOut, ProgramOver, Close, Ends
<1>3. ctl' \in Control /\ client'.pc = pc
  BY <1>1, <1>2, Ending
<1>4. UNCHANGED <<tables, trapped, crossed, others>>
  BY DEF TalkTimesOut, ProgramOver, Close, Goes
<1>5. /\ toRouter' \in Seq(Command) /\ toClient' \in Seq(Half) /\ partial' \in Seq(Half)
      /\ inbox' \in Seq(Half)
  BY <1>1, TypeParts, EmptySeq DEF TalkTimesOut, ProgramOver, Close, Goes, Ends
<1>6. ChannelTypeOK'
  BY <1>1, <1>3, <1>4, <1>5, TypeParts, TypePartsNext
<1>7. ASSUME ProgramOver
      PROVE  UNCHANGED <<toRouter, toClient, partial, inbox>> /\ client.pc = "next"
  BY <1>7 DEF ProgramOver, Goes, Ends
<1> QED BY <1>2, <1>3, <1>4, <1>6, <1>7 DEF ChannelInv, InStep, Nothing

LEMMA AskKeeps ==
  ASSUME ChannelInv, AddToAddressList \/ RemoveNext \/ SetSimpleQueueRate \/ NextOperation
  PROVE  ChannelInv'
<1>1. ChannelTypeOK /\ ctl \in Control /\ toRouter \in Seq(Command)
  BY TypeParts DEF ChannelInv
<1>2. client \in Client
  BY <1>1, ClientTyped
<1>3. /\ client.pc = "next"
      /\ UNCHANGED <<tables, toClient, partial, inbox, trapped, crossed, others>>
  BY DEF AddToAddressList, RemoveNext, SetSimpleQueueRate, NextOperation, Goes
<1>4. /\ ctl' \in Control /\ client'.pc = "asking" /\ toRouter' \in Seq(Command)
      /\ toRouter = <<>> => Len(toRouter') = 1 /\ toRouter'[1].n = client'.n
  <2>1. CASE NextOperation
    BY <1>1, <2>1, NextAsked
  <2>2. CASE AddToAddressList \/ RemoveNext \/ SetSimpleQueueRate
    <3>1. client.op \in Operations
      BY <2>2 DEF AddToAddressList, RemoveNext, SetSimpleQueueRate, Operations
    <3>2. client.rows \in SUBSET (Ids \union {0}) /\ client.left \in SUBSET (Ids \union {0})
      BY <1>2 DEF Client
    <3>3. PICK verb \in {"add", "set", "remove"}, id \in Ids \union {0},
               left \in SUBSET (Ids \union {0}) : Ask(verb, id, left)
      <4>1. CASE AddToAddressList
        BY <4>1 DEF AddToAddressList
      <4>2. CASE SetSimpleQueueRate
        BY <3>2, <4>2 DEF SetSimpleQueueRate
      <4>3. CASE RemoveNext
        BY <3>2, <4>3 DEF RemoveNext
      <4> QED BY <2>2, <4>1, <4>2, <4>3
    <3> QED BY <1>1, <3>1, <3>3, Asking
  <2> QED BY <2>1, <2>2
<1>5. ChannelTypeOK'
  BY <1>1, <1>3, <1>4, TypeParts, TypePartsNext
<1> QED BY <1>3, <1>4, <1>5 DEF ChannelInv, InStep, Nothing, Asked

LEMMA AroundStands ==
  ASSUME ChannelInv,
         \/ \E t \in Tables, i \in Ids : OthersChange(t, i)
         \/ UNCHANGED channelVars
  PROVE  ChannelInv'
<1>1. UNCHANGED <<toRouter, toClient, partial, inbox, ctl, trapped, crossed>>
  BY DEF OthersChange, channelVars
<1>2. tables' \in [Tables -> SUBSET Ids] /\ others' \in 0..MaxOthers
  BY TypeParts, ChannelAssumption
     DEF ChannelInv, OthersChange, channelVars, ChannelAssumption
<1>3. ChannelTypeOK'
  BY <1>1, <1>2, TypeParts, TypePartsNext DEF ChannelInv
<1>4. (trapped = {} => InStep) => (trapped' = {} => InStep')
  <2>1. client' = client /\ Unread' = Unread /\ \A j : Nth(j)' = Nth(j)
    BY <1>1 DEF client, Unread, Nth
  <2> QED BY <1>1, <2>1 DEF InStep, Asked, Answered, Nothing
<1> QED BY <1>3, <1>4 DEF ChannelInv

LEMMA ChannelInitial == ChannelInit => ChannelInv
<1> SUFFICES ASSUME ChannelInit PROVE ChannelInv
  OBVIOUS
<1> DEFINE x == [n |-> 1, verb |-> "login", table |-> "list", id |-> 0]
<1>1. x \in Command /\ x.n = 1
  BY DEF Command, Verbs, Tables
<1>2. toRouter = <<x>>
  BY DEF ChannelInit
<1> HIDE DEF x
<1>3. toRouter \in Seq(Command) /\ Len(toRouter) = 1 /\ toRouter[1].n = 1
  BY <1>1, <1>2
<1>4. LoggingIn \in Client /\ LoggingIn.pc = "asking" /\ LoggingIn.n = 1
  BY DEF LoggingIn, Client, Verbs
<1>5. ctl \in Control /\ client = LoggingIn
  BY <1>4, ChannelAssumption DEF ChannelInit, ChannelAssumption, Control, client
<1>6. ChannelTypeOK
  <2>1. /\ tables \in [Tables -> SUBSET Ids] /\ trapped = {} /\ crossed = FALSE /\ others = 0
        /\ toClient = <<>> /\ partial = <<>> /\ inbox = <<>>
    BY DEF ChannelInit
  <2>2. toClient \in Seq(Half) /\ partial \in Seq(Half) /\ inbox \in Seq(Half)
    BY <2>1, EmptySeq
  <2>3. trapped \subseteq Nat /\ crossed \in BOOLEAN
    BY <2>1
  <2>4. others \in 0..MaxOthers
    <3>1. MaxOthers \in Nat
      BY ChannelAssumption DEF ChannelAssumption
    <3> QED BY <2>1, <3>1
  <2> QED BY <1>3, <1>5, <2>1, <2>2, <2>3, <2>4, TypeParts
<1> QED BY <1>3, <1>4, <1>5, <1>6 DEF ChannelInit, ChannelInv, InStep, Asked

LEMMA ChannelStep == ChannelInv /\ [ChannelNext]_channelVars => ChannelInv'
<1> SUFFICES ASSUME ChannelInv, [ChannelNext]_channelVars PROVE ChannelInv'
  OBVIOUS
<1>1. CASE RouterServes
  BY <1>1, ServesTyped, ServesInStep DEF ChannelInv
<1>2. ASSUME NEW k \in 1..Len(toClient), OnData(k)
      PROVE  ChannelInv'
  <2>1. ChannelTypeOK'
    <3>1. UNCHANGED <<tables, toRouter, ctl, trapped, crossed, others>>
      BY <1>2 DEF OnData
    <3>2. toClient' \in Seq(Half) /\ partial' \in Seq(Half) /\ inbox' \in Seq(Half)
      BY <1>2, DataMoves DEF ChannelInv
    <3> QED BY <3>1, <3>2, TypeParts, TypePartsNext DEF ChannelInv
  <2> QED BY <1>2, <2>1, DataInStep DEF ChannelInv
<1> QED BY <1>1, <1>2, ReadRowKeeps, ReadEndKeeps, EndKeeps, AskKeeps, AroundStands
        DEF ChannelNext

-----------------------------------------------------------------------------

\* The channel keeps the invariant: until a refusal, client and router are in step.
THEOREM ChannelInvariant == ChannelSpec => []ChannelInv
BY ChannelInitial, ChannelStep, PTL DEF ChannelSpec

\* The tables, the two directions of the stream and the client keep their types.
THEOREM ChannelTyped == ChannelSpec => []ChannelTypeOK
<1>1. ChannelInv => ChannelTypeOK
  BY DEF ChannelInv
<1> QED BY <1>1, ChannelInvariant, PTL

\* Until the router refuses a command, every reply is read as the answer to the command
\* it answers, however the stream is cut; and nothing is in flight when a program ends.
THEOREM ReplyMatches == ChannelSpec => []RepliesMatch
<1>1. ChannelInv => RepliesMatch
  BY DEF ChannelInv, InStep, Nothing, RepliesMatch
<1> QED BY <1>1, ChannelInvariant, PTL

=============================================================================
