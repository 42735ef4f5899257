--------------------------- MODULE RouterChannel ---------------------------
(***************************************************************************)
(* One connection of the RouterOS client: it logs in, then carries out the *)
(* operations of a program, command by command.  A command is answered by  *)
(* zero or more !re sentences and one !done; a refused one by !trap AND    *)
(* then !done.  `talk' returns at the first !done or !trap it reads, and   *)
(* reads in order, whichever command the sentence answers.  The stream     *)
(* arrives in chunks that need not end where a sentence does.  Others      *)
(* change the router's tables meanwhile.                                   *)
(***************************************************************************)
EXTENDS Integers, Sequences, FiniteSets

CONSTANTS
  Ids,        \* row ids of the router's tables
  Programs,   \* sequences of operations an agent runs on one connection
  MaxOthers   \* bound on changes by others

Tables == {"list", "active", "queue"}
Operations == {"isolate", "restore", "kick", "rate"}
TableOf == [isolate |-> "list", restore |-> "list", kick |-> "active", rate |-> "queue"]

ASSUME ChannelAssumption ==
  /\ Ids # {} /\ IsFiniteSet(Ids)
  /\ Programs \subseteq Seq(Operations)
  /\ MaxOthers \in Nat

VARIABLES
  tables,     \* the rows for this subscriber in each table of the router
  toRouter, toClient,   \* commands and half sentences in flight
  partial, inbox,       \* the client's buffer; sentences it has not read
  ctl,        \* the client: what it asked, the rows read, what is left to do
  trapped,    \* commands of this connection that the router refused
  crossed,    \* a reply was read as the answer to another command
  others

channelVars == <<tables, toRouter, toClient, partial, inbox, ctl, trapped, crossed, others>>

LoggingIn == [pc |-> "asking", verb |-> "login", op |-> "login", rows |-> {}, left |-> {}, n |-> 1]

ChannelInit ==
  /\ tables \in [Tables -> SUBSET Ids]
  /\ toRouter = <<[n |-> 1, verb |-> "login", table |-> "list", id |-> 0]>>
  /\ toClient = <<>> /\ partial = <<>> /\ inbox = <<>>
  /\ \E p \in Programs : ctl = [client |-> LoggingIn, program |-> p]
  /\ trapped = {} /\ crossed = FALSE /\ others = 0

-----------------------------------------------------------------------------
(* The router (external) *)

\* One sentence, as the two halves that may arrive apart.
Sentence(n, word, id) ==
  LET half == [n |-> n, word |-> word, id |-> id]
  IN  <<half, half>>

\* The rows a command finds, in whatever order the router keeps them.
Orders(ids) ==
  {f \in [1..Cardinality(ids) -> ids] : \A i, j \in DOMAIN f : f[i] = f[j] => i = j}

RowSentences(n, order) ==
  [k \in 1..(2 * Len(order)) |-> [n |-> n, word |-> "!re", id |-> order[(k + 1) \div 2]]]

Refuses(c) ==
  \/ c.verb \in {"set", "remove"} /\ c.id \notin tables[c.table]
  \/ c.verb = "add" /\ tables[c.table] # {}

Accepts(c) ==
  /\ tables' = IF c.verb = "remove" THEN [tables EXCEPT ![c.table] = @ \ {c.id}]
               ELSE IF c.verb = "add"
               THEN [tables EXCEPT ![c.table] = {CHOOSE i \in Ids : TRUE}]
               ELSE tables
  /\ \E order \in Orders(IF c.verb = "print" THEN tables[c.table] ELSE {}) :
       toClient' = toClient \o RowSentences(c.n, order) \o Sentence(c.n, "!done", 0)
  /\ UNCHANGED trapped

Traps(c) ==
  /\ toClient' = toClient \o Sentence(c.n, "!trap", 0) \o Sentence(c.n, "!done", 0)
  /\ trapped' = trapped \union {c.n}
  /\ UNCHANGED tables

RouterServes ==
  /\ toRouter # <<>>
  /\ LET c == Head(toRouter)
     IN  \/ ~Refuses(c) /\ Accepts(c)
         \/ (Refuses(c) \/ c.verb = "login") /\ Traps(c)
  /\ toRouter' = Tail(toRouter)
  /\ UNCHANGED <<partial, inbox, ctl, crossed, others>>

\* Hotspot logins and logouts, and other connections.
OthersChange(t, i) ==
  /\ others < MaxOthers
  /\ others' = others + 1
  /\ tables' = [tables EXCEPT ![t] = IF i \in @ THEN @ \ {i} ELSE @ \union {i}]
  /\ UNCHANGED <<toRouter, toClient, partial, inbox, ctl, trapped, crossed>>

-----------------------------------------------------------------------------
(* The client *)

client == ctl.client

\* Mutant: the bytes of an unfinished sentence are dropped with its words.
DropRest(halves) == <<>>

\* Whole sentences of a run of halves, and the half that is left over.
Whole(halves) == [k \in 1..(Len(halves) \div 2) |-> halves[2 * k]]
Rest(halves) == SubSeq(halves, 2 * (Len(halves) \div 2) + 1, Len(halves))

ExtractSentences(halves) == [sentences |-> Whole(halves), remaining |-> Rest(halves)]

OnData(k) ==
  LET got == ExtractSentences(partial \o SubSeq(toClient, 1, k))
  IN  /\ k <= Len(toClient)
      /\ toClient' = SubSeq(toClient, k + 1, Len(toClient))
      /\ partial' = got.remaining
      /\ inbox' = inbox \o got.sentences
      /\ UNCHANGED <<tables, toRouter, ctl, trapped, crossed, others>>

Becomes(record) == ctl' = [ctl EXCEPT !.client = record]

Ask(verb, id, left) ==
  /\ toRouter' = Append(toRouter, [n |-> client.n + 1, verb |-> verb,
                                   table |-> TableOf[client.op], id |-> id])
  /\ Becomes([pc |-> "asking", verb |-> verb, op |-> client.op, rows |-> {},
              left |-> left, n |-> client.n + 1])

Ends(pc) == Becomes([client EXCEPT !.pc = pc]) /\ UNCHANGED toRouter

\* talk: one sentence read.
Read(word) ==
  /\ client.pc = "asking" /\ inbox # <<>> /\ Head(inbox).word = word
  /\ inbox' = Tail(inbox)
  /\ crossed' = (crossed \/ Head(inbox).n # client.n)
  /\ UNCHANGED <<tables, toClient, partial, trapped, others>>

ReadRow ==
  /\ Read("!re")
  /\ Becomes([client EXCEPT !.rows = @ \union {Head(inbox).id}])
  /\ UNCHANGED toRouter

\* A refused login or add throws; every other reply is taken, !trap or !done.
ReadRefusal ==
  /\ Read("!trap")
  /\ IF client.verb = "login" \/ (client.op = "isolate" /\ client.verb = "add")
     THEN Ends("failed") ELSE Ends("next")

ReadDone == Read("!done") /\ Ends("next")

TalkTimesOut ==
  /\ client.pc = "asking" /\ inbox = <<>>
  /\ Ends("failed")
  /\ UNCHANGED <<tables, toClient, partial, inbox, trapped, crossed, others>>

Goes ==
  /\ client.pc = "next"
  /\ UNCHANGED <<tables, toClient, partial, inbox, trapped, crossed, others>>

Printed == client.verb = "print"

AddToAddressList ==
  /\ Goes /\ client.op = "isolate" /\ Printed /\ client.rows = {}
  /\ Ask("add", 0, {})

RemoveNext ==
  LET left == IF Printed THEN client.rows ELSE client.left
  IN  /\ Goes /\ client.op \in {"restore", "kick"}
      /\ \E i \in left : Ask("remove", i, left \ {i})

SetSimpleQueueRate ==
  /\ Goes /\ client.op = "rate" /\ Printed
  /\ \/ \E i \in client.rows : Ask("set", i, {})
     \/ client.rows = {} /\ Ask("add", 0, {})

OperationOver ==
  CASE client.op = "isolate" -> ~(Printed /\ client.rows = {})
    [] client.op \in {"restore", "kick"} -> (IF Printed THEN client.rows ELSE client.left) = {}
    [] client.op = "rate" -> ~Printed
    [] OTHER -> TRUE

NextOperation ==
  /\ Goes /\ OperationOver /\ ctl.program # <<>>
  /\ LET op == Head(ctl.program)
     IN  /\ toRouter' = Append(toRouter, [n |-> client.n + 1, verb |-> "print",
                                          table |-> TableOf[op], id |-> 0])
         /\ ctl' = [client |-> [pc |-> "asking", verb |-> "print", op |-> op, rows |-> {},
                                left |-> {}, n |-> client.n + 1],
                    program |-> Tail(ctl.program)]

ProgramOver == Goes /\ OperationOver /\ ctl.program = <<>> /\ Ends("done")

\* Closing discards what the router has not taken and what it has answered.
Close ==
  /\ client.pc \in {"done", "failed"}
  /\ Becomes([client EXCEPT !.pc = "closed"])
  /\ toRouter' = <<>> /\ toClient' = <<>> /\ partial' = <<>> /\ inbox' = <<>>
  /\ UNCHANGED <<tables, trapped, crossed, others>>

ChannelNext ==
  \/ RouterServes
  \/ \E t \in Tables, i \in Ids : OthersChange(t, i)
  \/ \E k \in 1..Len(toClient) : OnData(k)
  \/ ReadRow \/ ReadRefusal \/ ReadDone \/ TalkTimesOut
  \/ AddToAddressList \/ RemoveNext \/ SetSimpleQueueRate
  \/ NextOperation \/ ProgramOver \/ Close

ChannelSpec == ChannelInit /\ [][ChannelNext]_channelVars

-----------------------------------------------------------------------------
(* Properties *)

Half == [n : Nat, word : {"!re", "!done", "!trap"}, id : Ids \union {0}]
Verbs == {"login", "print", "add", "set", "remove"}

\* The types of the tables, the two directions of the stream and the client.
ChannelTypeOK ==
  /\ tables \in [Tables -> SUBSET Ids]
  /\ toRouter \in Seq([n : Nat, verb : Verbs, table : Tables, id : Ids \union {0}])
  /\ toClient \in Seq(Half) /\ partial \in Seq(Half) /\ inbox \in Seq(Half)
  /\ ctl \in [client : [pc : {"asking", "next", "done", "failed", "closed"}, verb : Verbs,
                        op : Operations \union {"login"}, rows : SUBSET (Ids \union {0}),
                        left : SUBSET (Ids \union {0}), n : Nat],
              program : Seq(Operations)]
  /\ trapped \subseteq Nat /\ crossed \in BOOLEAN /\ others \in 0..MaxOthers

\* Until the router refuses a command, every reply is read as the answer to the
\* command it answers, however the stream is cut into chunks; and an operation that
\* reports success after no refusal has nothing in flight that closing the connection
\* would lose (talk, onData, extractSentences; after a refusal that policy.ts ignores
\* each answer is taken for the next command's).
RepliesMatch ==
  \/ trapped # {}
  \/ /\ ~crossed
     /\ client.pc = "done" => /\ toRouter = <<>> /\ toClient = <<>>
                              /\ partial = <<>> /\ inbox = <<>>
=============================================================================
