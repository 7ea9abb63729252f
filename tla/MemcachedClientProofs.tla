----------------------- MODULE MemcachedClientProofs -----------------------
(***************************************************************************)
(* Proofs about MemcachedClient: type correctness, and that the socket is  *)
(* quiet when no thread is in a call, both for any number of threads; and  *)
(* that a single thread gets from the socket what KVStore promises.        *)
(***************************************************************************)
EXTENDS MemcachedClient, SequenceTheorems, FiniteSetTheorems, TLAPS

\* What memcached may answer to a command.
Answer == Values \cup {NULL, 0, 1}

Lines == {"STORED", "NOT_STORED", "SERVER_ERROR", "ERROR", "NOT_FOUND",
          "DELETED", "OK", "line end", "END"}

\* The pieces of text of which replies are made.
Header == [text : {"VALUE"}, key : Keys, value : Values]
Data   == [text : {"data"}, value : Values, k : Nat]
Line   == [text : Lines]
Piece  == Header \cup Data \cup Line

Command == [call : KV!Calls, data : BOOLEAN, by : Threads]

ThreadState ==
  [pc : {"idle", "reading", "dead"}, call : KV!Calls \cup {KV!NoCall},
   answer : Answer \cup {Pending, Lost},
   result : Answer \cup {Torn, Pending, -1}]

TypeInv ==
  /\ db \in [Keys -> Values \cup {NULL}]
  /\ wire \in Seq(Command) /\ stream \in Seq(Piece)
  /\ thread \in [Threads -> ThreadState]
  /\ \A t \in Threads : thread[t].pc = "reading" => thread[t].call \in KV!Calls
  /\ connected \in BOOLEAN /\ peer \in BOOLEAN

-----------------------------------------------------------------------------
(* Calls, replies and what is read.                                        *)

\* The fields that a call has, by its name.
LEMMA CallFields ==
  ASSUME NEW x \in KV!Calls
  PROVE  /\ x.name \in {"set", "add", "get", "delete", "flush_all"}
         /\ x.name \in {"set", "add", "get", "delete"} => x.key \in Keys
         /\ x.name \in {"set", "add"} => x.value \in Values
  BY DEF KV!Calls

\* A thread outside its calls has no call.
LEMMA NoCallIsNone == KV!NoCall \notin KV!Calls
<1> SUFFICES ASSUME KV!NoCall \in KV!Calls PROVE FALSE
  OBVIOUS
<1> KV!NoCall.name = "none"
  BY DEF KV!NoCall
<1> QED
  BY CallFields

\* A status line is a reply of one piece.
LEMMA StatusIsReply ==
  ASSUME NEW line \in Lines
  PROVE  /\ Status(line) \in Seq(Piece) /\ Len(Status(line)) = 1
         /\ Head(Status(line)).text = line
<1>1. [text |-> line] \in Piece
  BY DEF Piece, Line
<1> QED
  BY <1>1 DEF Status

\* Text that follows a piece leaves it where it is.
LEMMA TextBehind ==
  ASSUME NEW s \in Seq(Piece), NEW e \in Seq(Piece), Len(s) >= 1
  PROVE  /\ s \o e \in Seq(Piece) /\ Len(s \o e) = Len(s) + Len(e)
         /\ (s \o e)[1] = s[1]
<1>1. Len(s) \in Nat /\ Len(e) \in Nat
  BY LenProperties
<1>2. 1 \in 1..Len(s) + Len(e)
  BY <1>1
<1> QED
  BY <1>1, <1>2, ConcatProperties

\* The reply with a value: its length, its header, and that a longer text is not
\* taken for a status line.
LEMMA ValueReplyIsReply ==
  ASSUME NEW key \in Keys, NEW value \in Values
  PROVE  /\ ValueReply(key, value) \in Seq(Piece)
         /\ Len(ValueReply(key, value)) = Size[value] + 3
         /\ Head(ValueReply(key, value)) =
              [text |-> "VALUE", key |-> key, value |-> value]
<1> DEFINE header == [text |-> "VALUE", key |-> key, value |-> value]
           data == [k \in 1..Size[value] |-> [text |-> "data", value |-> value, k |-> k]]
<1>1. Size[value] \in Nat
  BY ClientAssumption
<1>2. <<header>> \in Seq(Piece) /\ Len(<<header>>) = 1 /\ <<header>>[1] = header
  <2>1. header \in Piece
    BY DEF Piece, Header
  <2> QED
    BY <2>1
<1>3. data \in Seq(Piece) /\ Len(data) = Size[value]
  <2>1. \A k \in 1..Size[value] : [text |-> "data", value |-> value, k |-> k] \in Piece
    BY <1>1 DEF Piece, Data
  <2>2. data \in [1..Size[value] -> Piece]
    BY <2>1
  <2>3. data \in Seq(Piece)
    BY <1>1, <2>2
  <2> QED
    BY <1>1, <2>3, LenProperties
<1> DEFINE lineEnd == Status("line end")
           end == Status("END")
<1>4. lineEnd \in Seq(Piece) /\ Len(lineEnd) = 1
  BY StatusIsReply DEF Lines
<1>5. end \in Seq(Piece) /\ Len(end) = 1
  BY StatusIsReply DEF Lines
<1> DEFINE one == <<header>> \o data
           two == one \o lineEnd
           all == two \o end
<1> HIDE DEF header, data, lineEnd, end
<1>6. one \in Seq(Piece) /\ Len(one) = 1 + Size[value] /\ one[1] = header
  BY <1>1, <1>2, <1>3, TextBehind
<1> HIDE DEF one
<1>7. two \in Seq(Piece) /\ Len(two) = 2 + Size[value] /\ two[1] = header
  <2>1. Len(one) >= 1
    BY <1>1, <1>6
  <2>2. two \in Seq(Piece) /\ Len(two) = Len(one) + Len(lineEnd) /\ two[1] = one[1]
    BY <1>4, <1>6, <2>1, TextBehind
  <2> QED
    BY <1>1, <1>4, <1>6, <2>2
<1> HIDE DEF two
<1>8. all \in Seq(Piece) /\ Len(all) = 3 + Size[value] /\ all[1] = header
  <2>1. Len(two) >= 1
    BY <1>1, <1>7
  <2>2. all \in Seq(Piece) /\ Len(all) = Len(two) + Len(end) /\ all[1] = two[1]
    BY <1>5, <1>7, <2>1, TextBehind
  <2> QED
    BY <1>1, <1>5, <1>7, <2>2
<1>9. ValueReply(key, value) = all
  BY DEF all, two, one, header, data, lineEnd, end, ValueReply
<1>10. Head(all) = header
  BY <1>1, <1>8
<1> HIDE DEF all
<1> QED
  BY <1>1, <1>8, <1>9, <1>10 DEF header

-----------------------------------------------------------------------------
(* What memcached does with a command, and what the functions read in it.  *)

\* One read takes any reply whole.  (The longest value the program stores is a
\* block of 1024 bytes, and its buffer for a reply is larger.)
WholeReplies == \A v \in Values : Size[v] + 3 <= BufferSize

\* Replies are text, and no longer than one value with its frame.
LEMMA RepliesAreText ==
  ASSUME TypeInv, NEW cmd \in Command, NEW done \in Executions(cmd)
  PROVE  /\ done.db \in [Keys -> Values \cup {NULL}]
         /\ done.reply \in Seq(Piece)
         /\ done.answer \in Answer
         /\ \/ Len(done.reply) = 1
            \/ \E v \in Values : Len(done.reply) = Size[v] + 3
<1> DEFINE x == cmd.call
<1>1. x \in KV!Calls
  BY DEF Command
<1>2. db \in [Keys -> Values \cup {NULL}]
  BY DEF TypeInv
<1>3. CASE x.name \in {"set", "add"}
  <2>1. x.key \in Keys /\ x.value \in Values
    BY <1>1, <1>3, CallFields
  <2>2. /\ done.db \in {db, [db EXCEPT ![x.key] = x.value], [db EXCEPT ![x.key] = NULL]}
        /\ done.answer \in {0, 1}
        /\ \E line \in {"STORED", "NOT_STORED", "SERVER_ERROR", "ERROR"} :
             done.reply = Status(line)
    BY <1>3 DEF Executions
  <2>3. done.db \in [Keys -> Values \cup {NULL}]
    BY <1>2, <2>1, <2>2
  <2>4. done.reply \in Seq(Piece) /\ Len(done.reply) = 1
    BY ZenonT(60), <2>2, StatusIsReply DEF Lines
  <2> QED
    BY <2>2, <2>3, <2>4 DEF Answer
<1>4. CASE x.name = "get"
  <2>1. x.key \in Keys
    BY <1>1, <1>4, CallFields
  <2>2. /\ done.db = db /\ done.answer = db[x.key]
        /\ done.reply = IF db[x.key] = NULL THEN Status("END")
                        ELSE ValueReply(x.key, db[x.key])
    BY <1>4 DEF Executions
  <2>3. CASE db[x.key] = NULL
    <3>1. done.reply \in Seq(Piece) /\ Len(done.reply) = 1
      BY <2>2, <2>3, StatusIsReply DEF Lines
    <3> QED
      BY <1>2, <2>2, <2>3, <3>1 DEF Answer
  <2>4. CASE db[x.key] # NULL
    <3>1. db[x.key] \in Values
      BY <1>2, <2>1, <2>4
    <3>2. /\ done.reply \in Seq(Piece)
          /\ Len(done.reply) = Size[db[x.key]] + 3
      BY <2>1, <2>2, <2>4, <3>1, ValueReplyIsReply
    <3> QED
      BY <1>2, <2>2, <3>1, <3>2 DEF Answer
  <2> QED
    BY <2>3, <2>4
<1>5. CASE x.name = "delete"
  <2>1. x.key \in Keys
    BY <1>1, <1>5, CallFields
  <2>2. /\ done.db = [db EXCEPT ![x.key] = NULL] /\ done.answer = 0
        /\ \E line \in {"NOT_FOUND", "DELETED"} : done.reply = Status(line)
    BY <1>5 DEF Executions
  <2>3. done.reply \in Seq(Piece) /\ Len(done.reply) = 1
    BY <2>2, StatusIsReply DEF Lines
  <2>4. done.db \in [Keys -> Values \cup {NULL}]
    BY <1>2, <2>1, <2>2
  <2> QED
    BY <2>2, <2>3, <2>4 DEF Answer
<1>6. CASE x.name = "flush_all"
  <2>1. done.db = KV!Empty /\ done.answer = 0 /\ done.reply = Status("OK")
    BY <1>6 DEF Executions
  <2>2. done.reply \in Seq(Piece) /\ Len(done.reply) = 1
    BY <2>1, StatusIsReply DEF Lines
  <2> QED
    BY <2>1, <2>2 DEF Answer, KV!Empty
<1> QED
  BY <1>1, <1>3, <1>4, <1>5, <1>6, CallFields

\* One read takes a reply whole.
LEMMA ReplyIsReadWhole ==
  ASSUME WholeReplies, TypeInv, NEW cmd \in Command, NEW done \in Executions(cmd)
  PROVE  Len(done.reply) >= 1 /\ Len(done.reply) <= BufferSize
<1> DEFINE n == Len(done.reply)
<1>1. n = 1 \/ \E v \in Values : n = Size[v] + 3
  BY RepliesAreText
<1>2. BufferSize \in Nat /\ BufferSize >= 1
  BY ClientAssumption
<1>3. \A v \in Values : Size[v] \in Nat /\ Size[v] + 3 <= BufferSize
  BY ClientAssumption DEF WholeReplies
<1> HIDE DEF n
<1>4. n >= 1 /\ n <= BufferSize
  BY <1>1, <1>2, <1>3
<1> QED
  BY <1>4 DEF n

\* A function that reads the whole reply to its own command returns what
\* memcached answered.
LEMMA ReplyIsUnderstood ==
  ASSUME TypeInv, NEW cmd \in Command, NEW done \in Executions(cmd)
  PROVE  Parse(cmd.call, done.reply) = {done.answer}
<1> DEFINE x == cmd.call
<1>1. x \in KV!Calls
  BY DEF Command
<1>2. db \in [Keys -> Values \cup {NULL}]
  BY DEF TypeInv
<1>3. \A a, b : Status(a) = Status(b) => a = b
  <2> SUFFICES ASSUME NEW a, NEW b, Status(a) = Status(b) PROVE a = b
    OBVIOUS
  <2>1. Head(Status(a)).text = a /\ Head(Status(b)).text = b
    BY DEF Status
  <2> QED
    BY <2>1
<1>4. CASE x.name \in {"set", "add"}
  <2>1. \/ done.reply = Status("STORED") /\ done.answer = 1
        \/ \E line \in {"NOT_STORED", "SERVER_ERROR", "ERROR"} :
             done.reply = Status(line) /\ done.answer = 0
    BY <1>4 DEF Executions
  <2>2. (done.reply = Status("STORED")) = (done.answer = 1)
    BY <1>3, <2>1
  <2>3. Parse(x, done.reply) = {IF done.reply = Status("STORED") THEN 1 ELSE 0}
    BY <1>4 DEF Parse
  <2> QED
    BY <2>1, <2>2, <2>3
<1>5. CASE x.name = "get"
  <2>1. x.key \in Keys
    BY <1>1, <1>5, CallFields
  <2>2. /\ done.answer = db[x.key]
        /\ done.reply = IF db[x.key] = NULL THEN Status("END")
                        ELSE ValueReply(x.key, db[x.key])
    BY <1>5 DEF Executions
  <2>3. Parse(x, done.reply) = memcached_get(x.key, done.reply)
    BY <1>5 DEF Parse
  <2>4. CASE db[x.key] = NULL
    BY <2>2, <2>3, <2>4 DEF memcached_get
  <2>5. CASE db[x.key] # NULL
    <3>1. db[x.key] \in Values
      BY <1>2, <2>1, <2>5
    <3> DEFINE value == db[x.key]
               head == Head(done.reply)
    <3>2. /\ Len(done.reply) = Size[value] + 3
          /\ head = [text |-> "VALUE", key |-> x.key, value |-> value]
      BY <2>1, <2>2, <2>5, <3>1, ValueReplyIsReply
    <3>3. Size[value] \in Nat
      BY <3>1, ClientAssumption
    <3>4. head.text = "VALUE" /\ head.key = x.key /\ head.value = value
      BY <3>2
    <3>5. done.reply # Status("END")
      <4>1. Head(Status("END")).text = "END"
        BY DEF Status
      <4> QED
        BY <3>4, <4>1
    <3> HIDE DEF head, value
    <3>6. memcached_get(x.key, done.reply) = {value}
      <4>1. ~ (Len(done.reply) < 1 + Size[head.value])
        BY <3>2, <3>3, <3>4
      <4> QED
        BY <3>4, <3>5, <4>1 DEF memcached_get, head
    <3> QED
      BY <2>2, <2>3, <3>6 DEF value
  <2> QED
    BY <2>4, <2>5
<1>6. CASE x.name = "delete"
  <2>1. done.answer = 0 /\ \E line \in {"NOT_FOUND", "DELETED"} : done.reply = Status(line)
    BY <1>6 DEF Executions
  <2>2. done.reply # Status("ERROR")
    BY <1>3, <2>1
  <2> QED
    BY <1>6, <2>1, <2>2 DEF Parse
<1>7. CASE x.name = "flush_all"
  <2>1. done.answer = 0 /\ done.reply = Status("OK")
    BY <1>7 DEF Executions
  <2> QED
    BY <1>7, <2>1 DEF Parse
<1> QED
  BY <1>1, <1>4, <1>5, <1>6, <1>7, CallFields

-----------------------------------------------------------------------------
(* What a read takes, and what it may make of it.                          *)

\* A read takes something, no more than the buffer holds,
LEMMA TakenIsThere ==
  ASSUME stream \in Seq(Piece)
  PROVE  /\ Taken \in 0..Len(stream)
         /\ stream # <<>> => Taken >= 1
         /\ Len(stream) <= BufferSize => Taken = Len(stream)
         /\ Len(stream) > BufferSize => Taken = BufferSize
  BY ClientAssumption, LenProperties DEF Taken

\* leaves text,
LEMMA RestIsText ==
  ASSUME stream \in Seq(Piece)
  PROVE  /\ SubSeq(stream, Taken + 1, Len(stream)) \in Seq(Piece)
         /\ Len(SubSeq(stream, Taken + 1, Len(stream))) = Len(stream) - Taken
<1>1. Len(stream) \in Nat /\ Taken \in 0..Len(stream)
  BY TakenIsThere, LenProperties
<1> QED
  BY <1>1, SubSeqProperties

\* and returns text.
LEMMA ReadIsText ==
  ASSUME stream \in Seq(Piece), stream # <<>>
  PROVE  /\ SubSeq(stream, 1, Taken) \in Seq(Piece)
         /\ Head(SubSeq(stream, 1, Taken)) \in Piece
<1>1. Len(stream) \in Nat /\ Taken \in 1..Len(stream)
  BY TakenIsThere, LenProperties
<1>2. /\ SubSeq(stream, 1, Taken) \in Seq(Piece)
      /\ Len(SubSeq(stream, 1, Taken)) = Taken
  BY <1>1, SubSeqProperties
<1>3. SubSeq(stream, 1, Taken) # <<>>
  BY <1>1, <1>2
<1> QED
  BY <1>2, <1>3, HeadTailProperties

\* A get makes of any text a value, none, or text that is no value.
LEMMA GetResults ==
  ASSUME NEW key, NEW text \in Seq(Piece), Head(text) \in Piece
  PROVE  memcached_get(key, text) \subseteq Values \cup {NULL, Torn}
<1>1. CASE text = Status("END")
  BY <1>1 DEF memcached_get
<1>2. CASE text # Status("END") /\ Head(text).text # "VALUE"
  BY <1>2 DEF memcached_get
<1>3. CASE text # Status("END") /\ Head(text).text = "VALUE"
  <2>1. Head(text).value \in Values
    BY <1>3 DEF Piece, Header, Data, Line, Lines
  <2> QED
    BY <1>3, <2>1 DEF memcached_get
<1> QED
  BY <1>1, <1>2, <1>3

\* What a function makes of a reply is a result or torn text.
LEMMA ResultsAreTyped ==
  ASSUME TypeInv, NEW t \in Threads, thread[t].pc = "reading"
  PROVE  Results(thread[t]) \subseteq Answer \cup {Torn, -1}
<1> DEFINE x == thread[t].call
           text == SubSeq(stream, 1, Taken)
<1>1. x \in KV!Calls
  BY DEF TypeInv
<1>2. CASE stream # <<>>
  <2>1. text \in Seq(Piece) /\ Head(text) \in Piece
    BY <1>2, ReadIsText DEF TypeInv
  <2>2. Results(thread[t]) = Parse(x, text)
    BY <1>2 DEF Results
  <2> HIDE DEF text
  <2>3. CASE x.name = "get"
    <3>1. Parse(x, text) = memcached_get(x.key, text)
      BY <2>3 DEF Parse
    <3> QED
      BY <2>1, <2>2, <3>1, GetResults DEF Answer
  <2>4. CASE x.name \in {"set", "add"}
    BY <2>2, <2>4 DEF Parse, Answer
  <2>5. CASE x.name = "delete"
    BY <2>2, <2>5 DEF Parse, Answer
  <2>6. CASE x.name = "flush_all"
    BY <2>2, <2>6 DEF Parse, Answer
  <2> QED
    BY <1>1, <2>3, <2>4, <2>5, <2>6, CallFields
<1>3. CASE stream = <<>>
  BY <1>3 DEF Results, NoText, Answer
<1> QED
  BY <1>2, <1>3

-----------------------------------------------------------------------------
(* Type correctness.                                                       *)

\* A thread outside its calls has a proper state.
LEMMA IdleIsState == Idle \in ThreadState
  BY DEF Idle, ThreadState

\* After a kill no thread waits for a reply.
LEMMA DieStopsThreads ==
  ASSUME TypeInv, Die, NEW t \in Threads
  PROVE  /\ thread'[t] \in ThreadState
         /\ thread'[t].pc # "reading"
<1>1. CASE \E j \in DOMAIN wire : wire[j].by = t
  <2>1. thread'[t] = [thread[t] EXCEPT !.pc = "dead", !.result = Pending]
    BY <1>1 DEF Die
  <2>2. thread[t] \in ThreadState
    BY DEF TypeInv
  <2> QED
    BY <2>1, <2>2 DEF ThreadState
<1>2. CASE ~ \E j \in DOMAIN wire : wire[j].by = t
  <2>1. thread'[t] = Idle
    BY <1>2 DEF Die
  <2> QED
    BY <2>1, IdleIsState DEF Idle
<1> QED
  BY <1>1, <1>2

\* Types after a kill,
LEMMA DieKeepsTypes ==
  ASSUME TypeInv, Die
  PROVE  TypeInv'
<1>1. \A t \in Threads : thread'[t] \in ThreadState /\ thread'[t].pc # "reading"
  BY DieStopsThreads
<1>2. thread' \in [Threads -> ThreadState]
  BY <1>1 DEF Die
<1>3. <<>> \in Seq(Piece)
  OBVIOUS
<1> QED
  BY <1>1, <1>2, <1>3 DEF Die, TypeInv

\* after a command is sent,
LEMMA SendKeepsTypes ==
  ASSUME TypeInv, NEW t \in Threads, Send(t)
  PROVE  TypeInv'
<1> PICK call \in KV!Calls :
      /\ thread' = [thread EXCEPT ![t] =
            [Idle EXCEPT !.pc = "reading", !.call = call,
                         !.answer = IF peer THEN Pending ELSE Lost]]
      /\ wire' = IF peer
                 THEN Append(wire, [call |-> call, data |-> HasData(call), by |-> t])
                 ELSE wire
  BY DEF Send
<1> DEFINE new == [Idle EXCEPT !.pc = "reading", !.call = call,
                         !.answer = IF peer THEN Pending ELSE Lost]
<1>1. new \in ThreadState /\ new.call = call
  BY DEF Idle, ThreadState
<1> HIDE DEF new
<1>2. thread' = [thread EXCEPT ![t] = new]
  BY DEF new
<1>3. [call |-> call, data |-> HasData(call), by |-> t] \in Command
  BY DEF Command, HasData
<1>4. wire' \in Seq(Command)
  BY <1>3, AppendProperties DEF TypeInv
<1>5. thread' \in [Threads -> ThreadState]
  BY <1>1, <1>2 DEF TypeInv
<1>6. \A u \in Threads : thread'[u].pc = "reading" => thread'[u].call \in KV!Calls
  BY <1>1, <1>2 DEF TypeInv
<1> QED
  BY <1>4, <1>5, <1>6 DEF TypeInv, Send

\* after a reply is read,
LEMMA ReadKeepsTypes ==
  ASSUME TypeInv, NEW t \in Threads, Read(t)
  PROVE  TypeInv'
<1> PICK r \in Results(thread[t]) : thread' = [thread EXCEPT ![t] = [Idle EXCEPT !.result = r]]
  BY DEF Read
<1>1. r \in Answer \cup {Torn, -1}
  BY ResultsAreTyped DEF Read
<1> DEFINE new == [Idle EXCEPT !.result = r]
<1>2. new \in ThreadState /\ new.pc = "idle"
  BY <1>1 DEF Idle, ThreadState
<1> HIDE DEF new
<1>3. thread' = [thread EXCEPT ![t] = new]
  BY DEF new
<1>4. thread' \in [Threads -> ThreadState]
  BY <1>2, <1>3 DEF TypeInv
<1>5. \A u \in Threads : thread'[u].pc = "reading" => thread'[u].call \in KV!Calls
  BY <1>2, <1>3 DEF TypeInv
<1>6. stream' \in Seq(Piece)
  BY RestIsText DEF Read, TypeInv
<1> QED
  BY <1>4, <1>5, <1>6 DEF TypeInv, Read

\* after memcached executed a command,
LEMMA ServeKeepsTypes ==
  ASSUME TypeInv, Serve
  PROVE  TypeInv'
<1> DEFINE cmd == Head(wire)
           t == Head(wire).by
<1>1. cmd \in Command /\ wire' \in Seq(Command)
  BY HeadTailProperties DEF Serve, TypeInv
<1> PICK done \in Executions(cmd) :
      /\ db' = done.db
      /\ IF connected
         THEN /\ stream' = stream \o done.reply
              /\ thread' = [thread EXCEPT ![t].answer = done.answer]
         ELSE /\ thread' = [thread EXCEPT ![t] = Idle]
              /\ UNCHANGED stream
  BY DEF Serve
<1>2. t \in Threads
  BY <1>1 DEF Command
<1>3. /\ db' \in [Keys -> Values \cup {NULL}]
      /\ done.reply \in Seq(Piece) /\ done.answer \in Answer
  BY <1>1, RepliesAreText
<1> HIDE DEF cmd, t
<1>4. CASE connected
  <2> DEFINE new == [thread[t] EXCEPT !.answer = done.answer]
  <2>1. stream' \in Seq(Piece)
    <3>1. stream' = stream \o done.reply
      BY <1>4
    <3> QED
      BY <1>3, <3>1, ConcatProperties DEF TypeInv
  <2>2. thread[t] \in ThreadState
    BY <1>2 DEF TypeInv
  <2>3. /\ new \in ThreadState
        /\ new.pc = thread[t].pc /\ new.call = thread[t].call
    BY <1>3, <2>2 DEF ThreadState
  <2>4. thread' = [thread EXCEPT ![t] = new]
    BY <1>4
  <2> HIDE DEF new
  <2>5. thread' \in [Threads -> ThreadState]
    BY <1>2, <2>3, <2>4 DEF TypeInv
  <2>6. \A u \in Threads : thread'[u].pc = thread[u].pc /\ thread'[u].call = thread[u].call
    BY <1>2, <2>3, <2>4 DEF TypeInv
  <2> QED
    BY <1>1, <1>3, <2>1, <2>5, <2>6 DEF TypeInv, Serve
<1>5. CASE ~ connected
  <2>1. thread' \in [Threads -> ThreadState]
    BY <1>2, <1>5, IdleIsState DEF TypeInv
  <2>2. \A u \in Threads : thread'[u].pc = "reading" => thread'[u].call \in KV!Calls
    BY <1>2, <1>5 DEF TypeInv, Idle
  <2> QED
    BY <1>1, <1>3, <1>5, <2>1, <2>2 DEF TypeInv, Serve
<1> QED
  BY <1>4, <1>5

\* after it was restarted,
LEMMA RestartKeepsTypes ==
  ASSUME TypeInv, Restart
  PROVE  TypeInv'
<1>1. thread' \in [Threads -> ThreadState]
  BY IdleIsState DEF TypeInv, Restart
<1>2. \A u \in Threads : thread'[u].pc = "reading" => thread'[u].call \in KV!Calls
  BY DEF TypeInv, Restart, Idle
<1>3. <<>> \in Seq(Command)
  OBVIOUS
<1> QED
  BY <1>1, <1>2, <1>3 DEF TypeInv, Restart, KV!Empty

\* and after any step.
LEMMA TypeInvInductive ==
  /\ Init => TypeInv
  /\ TypeInv /\ [Next]_vars => TypeInv'
<1>1. Init => TypeInv
  <2> SUFFICES ASSUME Init PROVE TypeInv
    OBVIOUS
  <2>1. <<>> \in Seq(Command) /\ <<>> \in Seq(Piece)
    OBVIOUS
  <2> QED
    BY <2>1, IdleIsState DEF Init, TypeInv, KV!Empty, Idle
<1>2. ASSUME TypeInv, [Next]_vars PROVE TypeInv'
  <2>1. CASE memcached_connect
    BY <1>2, <2>1 DEF TypeInv, memcached_connect
  <2>2. CASE Crash
    BY <1>2, <2>2, DieKeepsTypes DEF Crash
  <2>3. ASSUME NEW t \in Threads, Send(t) PROVE TypeInv'
    BY <1>2, <2>3, SendKeepsTypes
  <2>4. ASSUME NEW t \in Threads, Read(t) PROVE TypeInv'
    BY <1>2, <2>4, ReadKeepsTypes
  <2>5. ASSUME NEW t \in Threads, ReadBeyond(t) PROVE TypeInv'
    BY <1>2, <2>5, DieKeepsTypes DEF ReadBeyond
  <2>6. CASE Serve
    BY <1>2, <2>6, ServeKeepsTypes
  <2>7. CASE Forget
    BY <1>2, <2>7 DEF TypeInv, Forget
  <2>8. CASE Restart
    BY <1>2, <2>8, RestartKeepsTypes
  <2>9. CASE UNCHANGED vars
    BY <1>2, <2>9 DEF TypeInv, vars
  <2> QED
    BY <1>2, <2>1, <2>2, <2>3, <2>4, <2>5, <2>6, <2>7, <2>8, <2>9 DEF Next
<1> QED
  BY <1>1, <1>2

\* The invariant is about types and more.
LEMMA TypeInvImplies == TypeInv => TypeOK
<1> SUFFICES ASSUME TypeInv PROVE TypeOK
  OBVIOUS
<1>1. \A j \in DOMAIN wire : wire[j] \in Command
  BY LenProperties DEF TypeInv
<1>2. \A t \in Threads : thread[t] \in ThreadState
  BY DEF TypeInv
<1> QED
  BY <1>1, <1>2 DEF TypeInv, TypeOK, Command, ThreadState, Answer

\* Whatever the threads mix up, and whoever is killed, the store, the commands
\* and the results keep their types: a call returns one of the values that its
\* function documents, or text that is no value.
THEOREM ClientTypesAreCorrect == Spec => []TypeOK
<1>1. Spec => []TypeInv
  BY TypeInvInductive, PTL DEF Spec
<1> QED
  BY <1>1, TypeInvImplies, PTL

-----------------------------------------------------------------------------
(* The socket is quiet between calls.                                      *)

Reading == {t \in Threads : thread[t].pc = "reading"}

\* There are no more commands on the wire than threads that wait for a reply,
\* and no more text in the socket than the others of them take with one read.
SocketInv ==
  /\ ~ peer => wire = <<>>
  /\ connected =>
       Len(stream) <= (Cardinality(Reading) - Len(wire)) * BufferSize
  /\ connected => Len(wire) <= Cardinality(Reading)
  /\ ~ connected => stream = <<>> /\ Reading = {}

\* The threads that wait for a reply can be counted,
LEMMA ReadingIsFinite ==
  IsFiniteSet(Reading) /\ Cardinality(Reading) \in Nat
<1>1. Reading \subseteq Threads
  BY DEF Reading
<1> QED
  BY <1>1, FS_Subset, FS_CardinalityType, ClientAssumption

\* one more or one less at a time.
LEMMA OneMoreReads ==
  ASSUME NEW S, IsFiniteSet(S), NEW t
  PROVE  /\ t \notin S => Cardinality(S \cup {t}) = Cardinality(S) + 1
         /\ t \in S => Cardinality(S \ {t}) = Cardinality(S) - 1
  BY FS_AddElement, FS_RemoveElement

\* Room for one read more or less is BufferSize pieces.
LEMMA RoomOfOne ==
  ASSUME NEW n \in Int
  PROVE  /\ n * BufferSize \in Int
         /\ (n - 1) * BufferSize = n * BufferSize - BufferSize
         /\ (n + 1) * BufferSize = n * BufferSize + BufferSize
         /\ n >= 0 => n * BufferSize >= 0
         /\ n <= 0 => n * BufferSize <= 0
  BY ClientAssumption

\* A command that is sent makes one thread more wait for a reply.
LEMMA SendKeepsSocket ==
  ASSUME TypeInv, SocketInv, NEW t \in Threads, Send(t)
  PROVE  SocketInv'
<1> DEFINE n == Cardinality(Reading)
<1> PICK call \in KV!Calls :
      /\ thread' = [thread EXCEPT ![t] =
            [Idle EXCEPT !.pc = "reading", !.call = call,
                         !.answer = IF peer THEN Pending ELSE Lost]]
      /\ wire' = IF peer
                 THEN Append(wire, [call |-> call, data |-> HasData(call), by |-> t])
                 ELSE wire
  BY DEF Send
<1>1. Reading' = Reading \cup {t} /\ t \notin Reading
  BY DEF Send, TypeInv, Reading, Idle
<1>2. n \in Nat /\ n' = n + 1
  BY <1>1, ReadingIsFinite, OneMoreReads
<1>3. Len(wire) \in Nat /\ Len(stream) \in Nat
  BY LenProperties DEF TypeInv
<1>4. Len(wire') = IF peer THEN Len(wire) + 1 ELSE Len(wire)
  BY AppendProperties DEF TypeInv, Command, HasData
<1>5. /\ Len(stream) <= (n - Len(wire)) * BufferSize
      /\ Len(wire) <= n
  BY DEF SocketInv, Send
<1> HIDE DEF n
<1>6. Len(stream) <= (n' - Len(wire')) * BufferSize
  <2>1. CASE peer
    <3>1. n' - Len(wire') = n - Len(wire)
      BY <1>2, <1>3, <1>4, <2>1
    <3> QED
      BY <1>5, <3>1
  <2>2. CASE ~ peer
    <3>1. n' - Len(wire') = (n - Len(wire)) + 1
      BY <1>2, <1>3, <1>4, <2>2
    <3>2. n - Len(wire) \in Int
      BY <1>2, <1>3
    <3> QED
      BY <1>3, <1>5, <3>1, <3>2, RoomOfOne, ClientAssumption
  <2> QED
    BY <2>1, <2>2
<1>7. Len(wire') <= n'
  BY <1>2, <1>3, <1>4, <1>5
<1> QED
  BY <1>6, <1>7 DEF SocketInv, Send, n

\* A read empties the socket, and makes one thread less wait.
LEMMA ReadKeepsSocket ==
  ASSUME TypeInv, SocketInv, NEW t \in Threads, Read(t)
  PROVE  SocketInv'
<1> DEFINE n == Cardinality(Reading)
<1> PICK r \in Results(thread[t]) : thread' = [thread EXCEPT ![t] = [Idle EXCEPT !.result = r]]
  BY DEF Read
<1>1. Reading' = Reading \ {t} /\ t \in Reading
  BY DEF Read, TypeInv, Reading, Idle
<1>2. n \in Nat /\ n' = n - 1 /\ n >= 1
  <2>1. n' = n - 1 /\ n \in Nat
    BY <1>1, ReadingIsFinite, OneMoreReads
  <2>2. n # 0
    BY <1>1, ReadingIsFinite, FS_EmptySet
  <2> QED
    BY <2>1, <2>2
<1>3. Len(wire) \in Nat /\ Len(stream) \in Nat
  BY LenProperties DEF TypeInv
<1>4. /\ Len(stream) <= (n - Len(wire)) * BufferSize
      /\ Len(wire) <= n
      /\ ~ peer => Len(wire) = 0
  BY DEF SocketInv, Read
<1>5. Len(stream') = Len(stream) - Taken
  BY RestIsText DEF Read, TypeInv
<1>6. stream # <<>> \/ ~ peer
  BY DEF Read, CanRead
<1> HIDE DEF n
<1> DEFINE room == n - Len(wire)
<1>7. room \in Int
  BY <1>2, <1>3
<1>8. room >= 1
  <2>1. CASE stream # <<>>
    <3>1. Len(stream) >= 1
      BY <1>3, <2>1, EmptySeq DEF TypeInv
    <3>2. ~ room <= 0
      BY <1>3, <1>4, <1>7, <3>1, RoomOfOne
    <3> QED
      BY <1>7, <3>2
  <2>2. CASE ~ peer
    BY <1>2, <1>4, <2>2
  <2> QED
    BY <1>6, <2>1, <2>2
<1>9. Len(wire) <= n'
  BY <1>2, <1>3, <1>8
<1>10. Len(stream') <= (n' - Len(wire)) * BufferSize
  <2>1. n' - Len(wire) = room - 1
    BY <1>2, <1>3
  <2> HIDE DEF room
  <2>2. (room - 1) * BufferSize >= 0
    BY <1>7, <1>8, RoomOfOne
  <2>3. (room - 1) * BufferSize = room * BufferSize - BufferSize
    BY <1>7, RoomOfOne
  <2>4. room * BufferSize \in Int /\ Len(stream) <= room * BufferSize
    BY <1>4, <1>7, RoomOfOne DEF room
  <2>5. CASE Len(stream) <= BufferSize
    <3>1. Len(stream') = 0
      BY <1>3, <1>5, <2>5, TakenIsThere DEF TypeInv
    <3> QED
      BY <2>1, <2>2, <3>1
  <2>6. CASE Len(stream) > BufferSize
    <3>1. Len(stream') = Len(stream) - BufferSize
      BY <1>5, <2>6, TakenIsThere DEF TypeInv
    <3> QED
      BY <1>3, <2>1, <2>3, <2>4, <3>1, ClientAssumption
  <2> QED
    BY <1>3, <2>5, <2>6, ClientAssumption
<1> QED
  BY <1>9, <1>10 DEF SocketInv, Read, n

\* A reply takes the place of the command on the wire.
LEMMA ServeKeepsSocket ==
  ASSUME TypeInv, SocketInv, WholeReplies, Serve
  PROVE  SocketInv'
<1> DEFINE n == Cardinality(Reading)
           cmd == Head(wire)
           t == Head(wire).by
<1>1. /\ cmd \in Command /\ t \in Threads
      /\ Len(wire) \in Nat /\ Len(wire') = Len(wire) - 1
  <2>1. wire \in Seq(Command) /\ wire # <<>> /\ wire' = Tail(wire)
    BY DEF Serve, TypeInv
  <2>2. Len(wire') = Len(wire) - 1 /\ cmd \in Command
    BY <2>1, HeadTailProperties
  <2>3. Len(wire) \in Nat
    BY <2>1, LenProperties
  <2> QED
    BY <2>2, <2>3 DEF Command
<1> PICK done \in Executions(cmd) :
      /\ db' = done.db
      /\ IF connected
         THEN /\ stream' = stream \o done.reply
              /\ thread' = [thread EXCEPT ![t].answer = done.answer]
         ELSE /\ thread' = [thread EXCEPT ![t] = Idle]
              /\ UNCHANGED stream
  BY DEF Serve
<1>2. /\ done.reply \in Seq(Piece)
      /\ Len(done.reply) <= BufferSize
  BY <1>1, RepliesAreText, ReplyIsReadWhole
<1> HIDE DEF cmd, t
<1>3. peer' = peer /\ peer
  BY DEF Serve, SocketInv
<1>4. CASE connected
  <2> DEFINE new == [thread[t] EXCEPT !.answer = done.answer]
  <2>1. thread' = [thread EXCEPT ![t] = new]
    BY <1>4
  <2>2. new.pc = thread[t].pc
    BY <1>1 DEF TypeInv, ThreadState
  <2> HIDE DEF new
  <2>3. Reading' = Reading
    BY <1>1, <2>1, <2>2 DEF Reading, TypeInv
  <2>4. stream' = stream \o done.reply
    BY <1>4
  <2>5. Len(stream') = Len(stream) + Len(done.reply)
    BY <1>2, <2>4, ConcatProperties DEF TypeInv
  <2>6. n \in Nat /\ n' = n
    BY <2>3, ReadingIsFinite
  <2>7. /\ Len(stream) <= (n - Len(wire)) * BufferSize
        /\ Len(wire) <= n
    BY <1>4 DEF SocketInv
  <2>8. Len(stream) \in Nat /\ Len(done.reply) \in Nat
    BY <1>2, LenProperties DEF TypeInv
  <2> HIDE DEF n
  <2>9. n - Len(wire') = (n - Len(wire)) + 1 /\ n - Len(wire) \in Int
    BY <1>1, <2>6
  <2>10. Len(stream') <= (n - Len(wire')) * BufferSize
    BY <1>2, <2>5, <2>7, <2>8, <2>9, RoomOfOne, ClientAssumption
  <2>11. Len(wire') <= n
    BY <1>1, <2>6, <2>7
  <2>12. connected' = connected
    BY DEF Serve
  <2> QED
    BY <1>3, <1>4, <2>6, <2>10, <2>11, <2>12 DEF SocketInv, n
<1>5. CASE ~ connected
  <2>1. \A u \in Threads : thread'[u].pc = thread[u].pc \/ thread'[u].pc = "idle"
    BY <1>1, <1>5 DEF TypeInv, Idle
  <2>2. Reading' \subseteq Reading
    BY <2>1 DEF Reading
  <2> QED
    BY <1>3, <1>5, <2>2 DEF SocketInv, Serve
<1> QED
  BY <1>4, <1>5

\* A killed process leaves an empty socket,
LEMMA DieKeepsSocket ==
  ASSUME TypeInv, SocketInv, Die
  PROVE  SocketInv'
<1>1. Reading' = {}
  BY DieStopsThreads DEF Reading
<1>2. connected' = FALSE /\ stream' = <<>> /\ wire' = wire /\ peer' = peer
  BY DEF Die
<1> QED
  BY <1>1, <1>2 DEF SocketInv

\* and so does a memcached that is restarted.
LEMMA RestartKeepsSocket ==
  ASSUME TypeInv, SocketInv, Restart
  PROVE  SocketInv'
<1> DEFINE n == Cardinality(Reading)
<1>1. Reading' = Reading
  BY DEF Restart, Reading, TypeInv, ThreadState, Idle
<1>2. n' = n /\ n \in Nat
  BY <1>1, ReadingIsFinite
<1>3. Len(wire') = 0
  BY DEF Restart
<1>4. Len(wire) \in Nat /\ Len(stream) \in Nat
  BY LenProperties DEF TypeInv
<1> HIDE DEF n
<1>5. CASE connected
  <2>1. Len(stream) <= (n - Len(wire)) * BufferSize
    BY <1>5 DEF SocketInv, n
  <2>2. (n - Len(wire)) * BufferSize <= n * BufferSize
    BY <1>2, <1>4, ClientAssumption
  <2>3. (n - Len(wire)) * BufferSize \in Int /\ n * BufferSize \in Int
    BY <1>2, <1>4, ClientAssumption
  <2>4. Len(stream) <= (n - 0) * BufferSize
    BY <1>2, <1>4, <2>1, <2>2, <2>3
  <2> QED
    BY <1>2, <1>3, <1>5, <2>4 DEF SocketInv, Restart, n
<1>6. CASE ~ connected
  BY <1>1, <1>6 DEF SocketInv, Restart
<1> QED
  BY <1>5, <1>6

\* There is never more under way than threads wait for.
LEMMA SocketInvInductive ==
  /\ Init => SocketInv
  /\ WholeReplies /\ TypeInv /\ SocketInv /\ [Next]_vars => SocketInv'
<1>1. Init => SocketInv
  BY DEF Init, SocketInv, Reading, Idle
<1>2. ASSUME WholeReplies, TypeInv, SocketInv, [Next]_vars PROVE SocketInv'
  <2>1. CASE memcached_connect
    <3>1. Reading' = {} /\ wire' = <<>> /\ stream' = <<>> /\ connected'
      BY <1>2, <2>1 DEF memcached_connect, SocketInv, Reading
    <3>2. Cardinality({}) = 0
      BY FS_EmptySet
    <3>3. Len(<<>>) = 0 /\ (0 - 0) * BufferSize = 0
      BY ClientAssumption
    <3> QED
      BY <3>1, <3>2, <3>3 DEF SocketInv
  <2>2. CASE Crash
    BY <1>2, <2>2, DieKeepsSocket DEF Crash
  <2>3. ASSUME NEW t \in Threads, Send(t) PROVE SocketInv'
    BY <1>2, <2>3, SendKeepsSocket
  <2>4. ASSUME NEW t \in Threads, Read(t) PROVE SocketInv'
    BY <1>2, <2>4, ReadKeepsSocket
  <2>5. ASSUME NEW t \in Threads, ReadBeyond(t) PROVE SocketInv'
    BY <1>2, <2>5, DieKeepsSocket DEF ReadBeyond
  <2>6. CASE Serve
    BY <1>2, <2>6, ServeKeepsSocket
  <2>7. CASE Forget
    BY <1>2, <2>7 DEF SocketInv, Forget, Reading
  <2>8. CASE Restart
    BY <1>2, <2>8, RestartKeepsSocket
  <2>9. CASE UNCHANGED vars
    BY <1>2, <2>9 DEF SocketInv, vars, Reading
  <2> QED
    BY <1>2, <2>1, <2>2, <2>3, <2>4, <2>5, <2>6, <2>7, <2>8, <2>9 DEF Next
<1> QED
  BY <1>1, <1>2

\* No thread waits, so nothing is on the wire, and there is no room for text.
LEMMA SocketInvIsQuiet ==
  TypeInv /\ SocketInv => QuietSocketIsEmpty
<1> SUFFICES ASSUME TypeInv, SocketInv, connected,
                    \A t \in Threads : thread[t].pc = "idle"
             PROVE  wire = <<>> /\ stream = <<>>
  BY DEF QuietSocketIsEmpty
<1>1. Reading = {}
  BY DEF Reading
<1>2. Cardinality(Reading) = 0
  BY <1>1, FS_EmptySet
<1>3. Len(wire) \in Nat /\ Len(stream) \in Nat
  BY LenProperties DEF TypeInv
<1>4. Len(wire) = 0
  BY <1>2, <1>3 DEF SocketInv
<1>5. (0 - 0) * BufferSize = 0
  BY ClientAssumption
<1>6. Len(stream) <= 0
  BY <1>2, <1>4, <1>5 DEF SocketInv
<1> QED
  BY <1>3, <1>4, <1>6, EmptySeq DEF TypeInv

\* Any number of threads share the socket without a lock, mix up their replies,
\* and take parts of them; memcached is restarted under them and the process is
\* killed; still, when no thread is in a call, nothing is left that the next
\* call would take for the reply to its own command.
THEOREM QuietSocketStaysEmpty ==
  ASSUME WholeReplies
  PROVE  Spec => []QuietSocketIsEmpty
<1>1. Spec => [](TypeInv /\ SocketInv)
  BY TypeInvInductive, SocketInvInductive, WholeReplies, PTL DEF Spec
<1> QED
  BY <1>1, SocketInvIsQuiet, PTL

-----------------------------------------------------------------------------
(* One thread: the replies are in step, and the calls are those of KVStore. *)

\* One thread, as in the runs of the name space; a call never stores the text
\* that makes send_command leave the data out.
OneThread ==
  /\ WholeReplies
  /\ \A t, u \in Threads : t = u
  /\ NOVALUE \notin Values

CommandOf(t) ==
  [call |-> thread[t].call, data |-> HasData(thread[t].call), by |-> t]

\* What is under way belongs to the call of the thread: its command until it is
\* executed, then its reply.
CallInv ==
  \A t \in Threads :
    /\ thread[t].pc = "idle" =>
         thread[t].call = KV!NoCall /\ wire = <<>> /\ stream = <<>>
    /\ thread[t].pc = "dead" =>
         /\ ~ connected /\ stream = <<>> /\ wire = <<CommandOf(t)>>
         /\ thread[t].call \in KV!Calls /\ thread[t].result = Pending
    /\ thread[t].pc = "reading" /\ thread[t].answer = Pending =>
         stream = <<>> /\ wire = IF peer THEN <<CommandOf(t)>> ELSE <<>>
    /\ thread[t].pc = "reading" /\ thread[t].answer = Lost =>
         stream = <<>> /\ wire = <<>> /\ ~ peer
    /\ thread[t].pc = "reading" /\ thread[t].answer \notin {Pending, Lost} =>
         /\ wire = <<>> /\ stream # <<>> /\ Len(stream) <= BufferSize
         /\ Parse(thread[t].call, stream) = {thread[t].answer}

\* What memcached answers is neither of the marks of a call without an answer.
LEMMA AnswersAreAnswers == Pending \notin Answer /\ Lost \notin Answer
  BY ResultAssumption DEF Answer

\* A wire with one command.
LEMMA OneCommand ==
  ASSUME NEW c
  PROVE  /\ Append(<<>>, c) = <<c>> /\ <<c>> # <<>>
         /\ Head(<<c>>) = c /\ Tail(<<c>>) = <<>>
         /\ DOMAIN <<c>> = {1} /\ <<c>>[1] = c
  OBVIOUS

\* A command is on the wire exactly when the thread waits for it to be executed.
LEMMA OnTheWire ==
  ASSUME OneThread, TypeInv, SocketInv, CallInv, NEW t \in Threads, wire # <<>>
  PROVE  /\ wire = <<CommandOf(t)>> /\ stream = <<>>
         /\ thread[t].call \in KV!Calls
         /\ connected => /\ thread[t].pc = "reading"
                         /\ thread[t].answer = Pending
         /\ ~ connected => /\ thread[t].pc = "dead"
                           /\ thread[t].result = Pending
<1>1. thread[t].pc \in {"idle", "reading", "dead"}
  BY DEF TypeInv, ThreadState
<1>2. thread[t].pc = "reading" => connected
  BY DEF SocketInv, Reading
<1>3. thread[t].pc = "reading" => thread[t].call \in KV!Calls
  BY DEF TypeInv
<1> QED
  BY <1>1, <1>2, <1>3 DEF CallInv

\* The command of the thread is on the wire;
LEMMA SendKeepsCall ==
  ASSUME OneThread, TypeInv, SocketInv, CallInv, NEW t \in Threads, Send(t)
  PROVE  CallInv'
<1> PICK call \in KV!Calls :
      /\ thread' = [thread EXCEPT ![t] =
            [Idle EXCEPT !.pc = "reading", !.call = call,
                         !.answer = IF peer THEN Pending ELSE Lost]]
      /\ wire' = IF peer
                 THEN Append(wire, [call |-> call, data |-> HasData(call), by |-> t])
                 ELSE wire
  BY DEF Send
<1>1. PICK th : th = [Idle EXCEPT !.pc = "reading", !.call = call,
                         !.answer = IF peer THEN Pending ELSE Lost]
  OBVIOUS
<1>2. th.pc = "reading" /\ th.call = call /\ th.answer = IF peer THEN Pending ELSE Lost
  BY <1>1 DEF Idle
<1>3. thread'[t] = th
  BY <1>1 DEF TypeInv
<1>4. wire = <<>> /\ stream = <<>> /\ stream' = stream /\ peer' = peer
  BY DEF CallInv, Send
<1>5. CASE peer
  <2>1. wire' = <<[call |-> call, data |-> HasData(call), by |-> t]>>
    BY <1>4, <1>5, OneCommand
  <2>2. wire' = <<CommandOf(t)>>'
    BY <1>2, <1>3, <2>1 DEF CommandOf, HasData
  <2>3. thread'[t].pc = "reading" /\ thread'[t].answer = Pending /\ peer' = peer
    BY <1>2, <1>3, <1>4, <1>5
  <2> QED
    BY <1>4, <1>5, <2>2, <2>3, ResultAssumption DEF CallInv, OneThread
<1>6. CASE ~ peer
  <2>1. thread'[t].pc = "reading" /\ thread'[t].answer = Lost /\ ~ peer'
    BY <1>2, <1>3, <1>4, <1>6
  <2>2. wire' = <<>>
    BY <1>4, <1>6
  <2> QED
    BY <1>4, <2>1, <2>2, ResultAssumption DEF CallInv, OneThread
<1> QED
  BY <1>5, <1>6

\* after the read nothing is;
LEMMA ReadKeepsCall ==
  ASSUME OneThread, TypeInv, SocketInv, CallInv, NEW t \in Threads, Read(t)
  PROVE  CallInv'
<1> PICK r \in Results(thread[t]) : thread' = [thread EXCEPT ![t] = [Idle EXCEPT !.result = r]]
  BY DEF Read
<1>1. thread'[t].pc = "idle" /\ thread'[t].call = KV!NoCall
  BY DEF Idle, TypeInv
<1>2. wire = <<>>
  BY DEF CallInv, Read, CanRead
<1>3. Len(stream') = Len(stream) - Taken /\ stream' \in Seq(Piece)
  BY RestIsText DEF Read, TypeInv
<1>4. Len(stream) <= BufferSize
  <2>1. stream = <<>> \/ Len(stream) <= BufferSize
    BY DEF CallInv, Read
  <2>2. Len(<<>>) = 0 /\ 0 <= BufferSize
    BY ClientAssumption
  <2> QED
    BY <2>1, <2>2
<1>5. Len(stream) \in Nat
  BY LenProperties DEF TypeInv
<1>6. Len(stream') = 0
  BY <1>3, <1>4, <1>5, TakenIsThere DEF TypeInv
<1>7. stream' = <<>>
  BY <1>3, <1>6, EmptySeq
<1>8. wire' = <<>>
  BY <1>2 DEF Read
<1> QED
  BY <1>1, <1>7, <1>8 DEF CallInv, OneThread

\* memcached turns it into the reply to the call;
LEMMA ServeKeepsCall ==
  ASSUME OneThread, TypeInv, SocketInv, CallInv, NEW t \in Threads, Serve
  PROVE  CallInv'
<1>1. /\ wire = <<CommandOf(t)>> /\ stream = <<>>
      /\ thread[t].call \in KV!Calls
  BY OnTheWire DEF Serve
<1>2. PICK cmd : cmd = CommandOf(t)
  OBVIOUS
<1>3. /\ Head(wire) = cmd /\ wire' = <<>>
      /\ cmd.by = t /\ cmd.call = thread[t].call
      /\ cmd \in Command
  BY <1>1, <1>2, OneCommand DEF Serve, CommandOf, Command, HasData
<1> PICK done \in Executions(cmd) :
      /\ db' = done.db
      /\ IF connected
         THEN /\ stream' = stream \o done.reply
              /\ thread' = [thread EXCEPT ![t].answer = done.answer]
         ELSE /\ thread' = [thread EXCEPT ![t] = Idle]
              /\ UNCHANGED stream
  BY <1>3 DEF Serve
<1>4. CASE connected
  <2>1. thread[t].pc = "reading"
    BY <1>4, OnTheWire DEF Serve
  <2>2. PICK th : th = [thread[t] EXCEPT !.answer = done.answer]
    OBVIOUS
  <2>3. thread'[t] = th
    BY <1>4, <2>2 DEF TypeInv
  <2>4. th.pc = "reading" /\ th.answer = done.answer /\ th.call = thread[t].call
    BY <2>1, <2>2 DEF TypeInv, ThreadState
  <2>5. /\ done.reply \in Seq(Piece) /\ done.answer \in Answer
        /\ Len(done.reply) >= 1 /\ Len(done.reply) <= BufferSize
    BY <1>3, RepliesAreText, ReplyIsReadWhole DEF OneThread
  <2>6. stream' = done.reply
    <3>1. stream' = <<>> \o done.reply
      BY <1>1, <1>4
    <3> QED
      BY <2>5, <3>1, ConcatEmptySeq
  <2>7. Parse(th.call, done.reply) = {th.answer}
    BY <1>3, <2>4, ReplyIsUnderstood
  <2>8. done.reply # <<>>
    BY <2>5
  <2>9. th.answer \notin {Pending, Lost}
    BY <2>4, <2>5, AnswersAreAnswers
  <2>10. \A u \in Threads : thread'[u] = th
    BY <2>3 DEF OneThread
  <2> QED
    BY <1>3, <2>4, <2>5, <2>6, <2>7, <2>8, <2>9, <2>10 DEF CallInv, Parse, memcached_get
<1>5. CASE ~ connected
  <2>1. thread'[t].pc = "idle" /\ thread'[t].call = KV!NoCall
    BY <1>5 DEF TypeInv, Idle
  <2>2. stream' = <<>>
    BY <1>1, <1>5
  <2> QED
    BY <1>3, <2>1, <2>2 DEF CallInv, OneThread
<1> QED
  BY <1>4, <1>5

\* a kill may leave it on the wire;
LEMMA DieKeepsCall ==
  ASSUME OneThread, TypeInv, SocketInv, CallInv, NEW t \in Threads, Die
  PROVE  CallInv'
<1>1. connected' = FALSE /\ stream' = <<>> /\ wire' = wire
  BY DEF Die
<1>2. CASE wire = <<>>
  <2>1. ~ \E j \in DOMAIN wire : wire[j].by = t
    BY <1>2
  <2>2. thread'[t] = Idle
    BY <2>1 DEF Die
  <2>3. thread'[t].pc = "idle" /\ thread'[t].call = KV!NoCall
    BY <2>2 DEF Idle
  <2> QED
    BY <1>1, <1>2, <2>3 DEF CallInv, OneThread
<1>3. CASE wire # <<>>
  <2>1. wire = <<CommandOf(t)>> /\ thread[t].call \in KV!Calls
    BY <1>3, OnTheWire
  <2>2. \E j \in DOMAIN wire : wire[j].by = t
    BY <2>1, OneCommand DEF CommandOf
  <2>3. PICK th : th = [thread[t] EXCEPT !.pc = "dead", !.result = Pending]
    OBVIOUS
  <2>4. thread'[t] = th
    BY <2>2, <2>3 DEF Die
  <2>5. th.pc = "dead" /\ th.result = Pending /\ th.call = thread[t].call
    <3>1. thread[t] \in ThreadState
      BY DEF TypeInv
    <3> QED
      BY <2>3, <3>1 DEF ThreadState
  <2>6. wire' = <<CommandOf(t)>>'
    BY <1>1, <2>1, <2>4, <2>5 DEF CommandOf, HasData
  <2>7. /\ thread'[t].pc = "dead" /\ thread'[t].result = Pending
        /\ thread'[t].call \in KV!Calls
    BY <2>1, <2>4, <2>5
  <2> QED
    BY <1>1, <2>6, <2>7 DEF CallInv, OneThread
<1> QED
  BY <1>2, <1>3

\* a restart takes it and any reply away;
LEMMA RestartKeepsCall ==
  ASSUME OneThread, TypeInv, SocketInv, CallInv, NEW t \in Threads, Restart
  PROVE  CallInv'
<1>1. wire' = <<>> /\ ~ peer' /\ stream' = stream
  BY DEF Restart
<1>2. thread'[t] = IF thread[t].pc = "dead" THEN Idle ELSE thread[t]
  BY DEF Restart
<1>3. CASE thread[t].pc = "dead"
  <2>1. thread'[t].pc = "idle" /\ thread'[t].call = KV!NoCall
    BY <1>2, <1>3 DEF Idle
  <2>2. stream' = <<>>
    BY <1>1, <1>3 DEF CallInv
  <2> QED
    BY <1>1, <2>1, <2>2 DEF CallInv, OneThread
<1>4. CASE thread[t].pc # "dead"
  <2>1. \A u \in Threads : thread'[u] = thread[u]
    BY <1>2, <1>4 DEF OneThread
  <2>2. \A u \in Threads : thread'[u].pc # "dead"
    BY <1>4, <2>1 DEF OneThread
  <2> QED
    BY ZenonT(60), <1>1, <2>1, <2>2 DEF CallInv, Parse, memcached_get
<1> QED
  BY <1>3, <1>4

\* nothing else is under way after any step.
LEMMA CallInvInductive ==
  /\ Init => CallInv
  /\ OneThread /\ TypeInv /\ SocketInv /\ CallInv /\ [Next]_vars => CallInv'
<1>1. Init => CallInv
  BY DEF Init, CallInv, Idle
<1>2. ASSUME OneThread, TypeInv, SocketInv, CallInv, [Next]_vars PROVE CallInv'
  <2> PICK t \in Threads : TRUE
    BY ClientAssumption
  <2>1. CASE memcached_connect
    <3>1. wire' = <<>> /\ stream' = <<>> /\ thread' = thread
      BY <1>2, <2>1 DEF memcached_connect, SocketInv
    <3>2. \A u \in Threads : thread[u].pc = "idle" /\ thread[u].call = KV!NoCall
      <4> TAKE u \in Threads
      <4>1. thread[u].pc # "reading"
        BY <1>2, <2>1 DEF SocketInv, Reading, memcached_connect
      <4>2. thread[u].pc # "dead"
        BY <1>2, <3>1, <2>1, OneCommand DEF CallInv, memcached_connect
      <4>3. thread[u].pc \in {"idle", "reading", "dead"}
        BY <1>2 DEF TypeInv, ThreadState
      <4> QED
        BY <1>2, <4>1, <4>2, <4>3 DEF CallInv
    <3> QED
      BY <3>1, <3>2 DEF CallInv
  <2>2. CASE Crash
    BY <1>2, <2>2, DieKeepsCall DEF Crash
  <2>3. ASSUME NEW u \in Threads, Send(u) PROVE CallInv'
    BY <1>2, <2>3, SendKeepsCall
  <2>4. ASSUME NEW u \in Threads, Read(u) PROVE CallInv'
    BY <1>2, <2>4, ReadKeepsCall
  <2>5. ASSUME NEW u \in Threads, ReadBeyond(u) PROVE CallInv'
    BY <1>2, <2>5, DieKeepsCall DEF ReadBeyond
  <2>6. CASE Serve
    BY <1>2, <2>6, ServeKeepsCall
  <2>7. CASE Forget
    BY <1>2, <2>7 DEF CallInv, Forget, CommandOf
  <2>8. CASE Restart
    BY <1>2, <2>8, RestartKeepsCall
  <2>9. CASE UNCHANGED vars
    BY <1>2, <2>9 DEF CallInv, vars, CommandOf
  <2> QED
    BY <1>2, <2>1, <2>2, <2>3, <2>4, <2>5, <2>6, <2>7, <2>8, <2>9 DEF Next
<1> QED
  BY <1>1, <1>2

OneThreadInv == TypeInv /\ SocketInv /\ CallInv

\* The three invariants hold together.
LEMMA OneThreadInvariant ==
  ASSUME OneThread
  PROVE  Spec => []OneThreadInv
<1>1. Init => OneThreadInv
  BY TypeInvInductive, SocketInvInductive, CallInvInductive DEF OneThreadInv
<1>2. OneThreadInv /\ [Next]_vars => OneThreadInv'
  BY OneThread, TypeInvInductive, SocketInvInductive, CallInvInductive
  DEF OneThreadInv, OneThread
<1> QED
  BY <1>1, <1>2, PTL DEF Spec

\* A thread that is alone reads the reply to its own command and nothing else:
\* there is no text in the socket before memcached has executed that command,
\* also when memcached is restarted or the process killed in between.
THEOREM RepliesStayInStep ==
  ASSUME OneThread
  PROVE  Spec => []RepliesAreInStep
<1>1. OneThreadInv => RepliesAreInStep
  BY DEF OneThreadInv, CallInv, RepliesAreInStep
<1> QED
  BY <1>1, OneThreadInvariant, PTL

-----------------------------------------------------------------------------
(* The calls of one thread are those of KVStore.                           *)

\* The call of a thread, and its result, as KVStore sees them.
CallOf == [t \in Threads |-> thread[t].call]
ResultOf == [t \in Threads |-> IF thread[t].pc = "reading"
                               THEN thread[t].answer ELSE thread[t].result]

\* What memcached does with the command of a call is an outcome of that call.
LEMMA ExecutionsAreOutcomes ==
  ASSUME TypeInv, NOVALUE \notin Values, NEW cmd \in Command,
         cmd.data = HasData(cmd.call), NEW done \in Executions(cmd)
  PROVE  <<done.db, done.answer>> \in KV!Outcomes(cmd.call)
<1> DEFINE x == cmd.call
<1>1. x \in KV!Calls
  BY DEF Command
<1>2. CASE x.name = "set"
  <2>1. cmd.data
    BY <1>1, <1>2, CallFields DEF HasData
  <2>2. \/ done.db = [db EXCEPT ![x.key] = x.value] /\ done.answer = 1
        \/ done.db = [db EXCEPT ![x.key] = NULL] /\ done.answer = 0
    <3>1. done \in {[db |-> [db EXCEPT ![x.key] = x.value],
                    reply |-> Status("STORED"), answer |-> 1],
                   [db |-> [db EXCEPT ![x.key] = NULL],
                    reply |-> Status("SERVER_ERROR"), answer |-> 0]}
      BY <1>2, <2>1, Zenon DEF Executions
    <3>2. CASE done = [db |-> [db EXCEPT ![x.key] = x.value],
                       reply |-> Status("STORED"), answer |-> 1]
      BY <3>2
    <3>3. CASE done = [db |-> [db EXCEPT ![x.key] = NULL],
                       reply |-> Status("SERVER_ERROR"), answer |-> 0]
      BY <3>3
    <3> QED
      BY <3>1, <3>2, <3>3
  <2>3. KV!Outcomes(x) = {<<[db EXCEPT ![x.key] = x.value], 1>>,
                          <<[db EXCEPT ![x.key] = NULL], 0>>}
    BY <1>2 DEF KV!Outcomes
  <2> QED
    BY <2>2, <2>3
<1>3. CASE x.name = "add"
  <2>1. cmd.data
    BY <1>1, <1>3, CallFields DEF HasData
  <2>2. KV!Outcomes(x) = IF db[x.key] # NULL THEN {<<db, 0>>}
                         ELSE {<<[db EXCEPT ![x.key] = x.value], 1>>, <<db, 0>>}
    BY <1>3 DEF KV!Outcomes
  <2>3. CASE db[x.key] = NULL
    <3>1. \/ done.db = [db EXCEPT ![x.key] = x.value] /\ done.answer = 1
          \/ done.db = db /\ done.answer = 0
      BY <1>3, <2>1, <2>3 DEF Executions
    <3> QED
      BY <2>2, <2>3, <3>1
  <2>4. CASE db[x.key] # NULL
    <3>1. done.db = db /\ done.answer = 0
      BY <1>3, <2>1, <2>4 DEF Executions
    <3> QED
      BY <2>2, <2>4, <3>1
  <2> QED
    BY <2>3, <2>4
<1>4. CASE x.name = "get"
  <2>1. done.db = db /\ done.answer = db[x.key]
    BY <1>4 DEF Executions
  <2>2. KV!Outcomes(x) = {<<db, db[x.key]>>}
    BY <1>4 DEF KV!Outcomes
  <2> QED
    BY <2>1, <2>2
<1>5. CASE x.name = "delete"
  <2>1. done.db = [db EXCEPT ![x.key] = NULL] /\ done.answer = 0
    BY <1>5 DEF Executions
  <2>2. KV!Outcomes(x) = {<<[db EXCEPT ![x.key] = NULL], 0>>}
    BY <1>5 DEF KV!Outcomes
  <2> QED
    BY <2>1, <2>2
<1>6. CASE x.name = "flush_all"
  <2>1. done.db = KV!Empty /\ done.answer = 0
    BY <1>6 DEF Executions
  <2>2. KV!Outcomes(x) = {<<KV!Empty, 0>>}
    BY <1>6 DEF KV!Outcomes
  <2> QED
    BY <2>1, <2>2
<1> QED
  BY <1>1, <1>2, <1>3, <1>4, <1>5, <1>6, CallFields

\* The one thread goes to the state th.
LEMMA NewState ==
  ASSUME OneThread, NEW t \in Threads, NEW th, thread'[t] = th
  PROVE  /\ CallOf' = [CallOf EXCEPT ![t] = th.call]
         /\ ResultOf' = [ResultOf EXCEPT
                           ![t] = IF th.pc = "reading" THEN th.answer ELSE th.result]
<1>1. \A u \in Threads : u = t
  BY DEF OneThread
<1> QED
  BY <1>1 DEF CallOf, ResultOf

\* Sending a command is the invocation of KVStore.
LEMMA SendIsInvoke ==
  ASSUME OneThread, OneThreadInv, NEW t \in Threads, Send(t)
  PROVE  KV!Invoke(t)
<1> PICK call \in KV!Calls :
      /\ thread' = [thread EXCEPT ![t] =
            [Idle EXCEPT !.pc = "reading", !.call = call,
                         !.answer = IF peer THEN Pending ELSE Lost]]
      /\ wire' = IF peer
                 THEN Append(wire, [call |-> call, data |-> HasData(call), by |-> t])
                 ELSE wire
  BY DEF Send
<1>1. PICK th : th = [Idle EXCEPT !.pc = "reading", !.call = call,
                         !.answer = IF peer THEN Pending ELSE Lost]
  OBVIOUS
<1>2. th.pc = "reading" /\ th.call = call /\ th.answer = IF peer THEN Pending ELSE Lost
  BY <1>1 DEF Idle
<1>3. thread'[t] = th /\ \A u \in Threads : u = t
  BY <1>1 DEF TypeInv, OneThreadInv, OneThread
<1>4. CallOf' = [CallOf EXCEPT ![t] = call]
  BY <1>2, <1>3, NewState
<1>5. connected /\ CallOf[t] = KV!NoCall
  BY DEF CallOf, CallInv, OneThreadInv, Send
<1>6. ResultOf' = [ResultOf EXCEPT ![t] = IF connected /\ ~ peer THEN Lost ELSE Pending]
  BY <1>2, <1>3, <1>5, NewState
<1>7. db' = db /\ connected' = connected /\ (connected /\ ~ peer)' = (connected /\ ~ peer)
  BY DEF Send
<1> QED
  BY <1>4, <1>5, <1>6, <1>7 DEF KV!Invoke, CallOf, ResultOf

\* The read of a reply returns what the call found; without a reply the call
\* returns unserved, and a set or add that was never sent reports nothing stored.
LEMMA ReadIsReturn ==
  ASSUME OneThread, OneThreadInv, NEW t \in Threads, Read(t)
  PROVE  KV!Return(t) \/ KV!ReturnUnserved(t)
<1> PICK r \in Results(thread[t]) : thread' = [thread EXCEPT ![t] = [Idle EXCEPT !.result = r]]
  BY DEF Read
<1>1. PICK th : th = [Idle EXCEPT !.result = r]
  OBVIOUS
<1>2. th.pc = "idle" /\ th.call = KV!NoCall /\ th.result = r
  BY <1>1 DEF Idle
<1>3. thread'[t] = th /\ \A u \in Threads : u = t
  <2>1. thread' = [thread EXCEPT ![t] = th]
    BY <1>1
  <2> QED
    BY <2>1 DEF TypeInv, OneThreadInv, OneThread
<1>4. CallOf' = [CallOf EXCEPT ![t] = KV!NoCall]
  BY <1>2, <1>3, NewState
<1>5. ResultOf' = [ResultOf EXCEPT ![t] = r] /\ ResultOf'[t] = r
  <2>1. ResultOf' = [ResultOf EXCEPT ![t] = r]
    BY <1>2, <1>3, NewState
  <2>2. t \in DOMAIN ResultOf
    BY DEF ResultOf
  <2> QED
    BY <2>1, <2>2
<1>6. ResultOf[t] = thread[t].answer /\ CallOf[t] = thread[t].call
  BY DEF ResultOf, CallOf, Read
<1>7. CallOf[t] \in KV!Calls /\ CallOf[t] # KV!NoCall
  BY <1>6, NoCallIsNone DEF OneThreadInv, TypeInv, Read
<1>8. /\ db' = db /\ connected' = connected /\ connected
      /\ (connected /\ ~ peer)' = (connected /\ ~ peer)
  BY DEF Read
<1>9. CASE thread[t].answer \notin {Pending, Lost}
  <2>1. /\ stream # <<>> /\ Len(stream) <= BufferSize
        /\ Parse(thread[t].call, stream) = {thread[t].answer}
    BY <1>9 DEF OneThreadInv, CallInv, Read
  <2>2. stream \in Seq(Piece)
    BY DEF OneThreadInv, TypeInv
  <2>3. Taken = Len(stream)
    BY <2>1, <2>2, TakenIsThere
  <2>4. SubSeq(stream, 1, Taken) = stream
    BY <2>2, <2>3, SubSeqFull
  <2>5. r = thread[t].answer
    BY <2>1, <2>4 DEF Results
  <2>6. ResultOf' = ResultOf
    BY <1>5, <1>6, <2>5 DEF ResultOf
  <2>7. ResultOf[t] \notin {Pending, Lost}
    BY <1>6, <1>9
  <2>8. KV!Return(t)
    BY <1>4, <1>7, <1>8, <2>6, <2>7 DEF KV!Return, CallOf, ResultOf
  <2> QED
    BY <2>8
<1>10. CASE thread[t].answer \in {Pending, Lost}
  <2>1. stream = <<>>
    BY <1>10 DEF OneThreadInv, CallInv, Read
  <2>2. ~ peer
    BY <2>1 DEF Read, CanRead
  <2>3. ResultOf[t] = Lost /\ CallOf[t].name \in {"set", "add"} => ResultOf'[t] = 0
    <3> SUFFICES ASSUME thread[t].answer = Lost, thread[t].call.name \in {"set", "add"}
                 PROVE  r = 0
      BY <1>5, <1>6
    <3>1. Results(thread[t]) = NoText(thread[t].call)
      BY <2>1 DEF Results
    <3> QED
      BY <3>1 DEF NoText
  <2>4. ResultOf' = [ResultOf EXCEPT ![t] = ResultOf'[t]]
    BY <1>5
  <2>5. ResultOf[t] \in {Pending, Lost}
    BY <1>6, <1>10
  <2>6. connected /\ ~ peer
    BY <1>8, <2>2
  <2>7. KV!ReturnUnserved(t)
    BY <1>4, <1>7, <1>8, <2>3, <2>4, <2>5, <2>6
    DEF KV!ReturnUnserved, CallOf, ResultOf
  <2> QED
    BY <2>7
<1> QED
  BY <1>9, <1>10

\* Memcached executes a command: the call takes effect.
LEMMA ServeIsApply ==
  ASSUME OneThread, OneThreadInv, NEW t \in Threads, Serve
  PROVE  KV!Apply(t)
<1>1. /\ wire = <<CommandOf(t)>>
      /\ thread[t].call \in KV!Calls
      /\ connected => thread[t].pc = "reading" /\ thread[t].answer = Pending
      /\ ~ connected => thread[t].pc = "dead" /\ thread[t].result = Pending
  BY OnTheWire DEF Serve, OneThreadInv
<1>2. PICK cmd : cmd = CommandOf(t)
  OBVIOUS
<1>3. /\ Head(wire) = cmd /\ cmd.by = t
      /\ cmd.call = thread[t].call /\ cmd.data = HasData(cmd.call)
      /\ cmd \in Command
  BY <1>1, <1>2, OneCommand DEF Serve, CommandOf, Command, HasData
<1> PICK done \in Executions(cmd) :
      /\ db' = done.db
      /\ IF connected
         THEN /\ stream' = stream \o done.reply
              /\ thread' = [thread EXCEPT ![t].answer = done.answer]
         ELSE /\ thread' = [thread EXCEPT ![t] = Idle]
              /\ UNCHANGED stream
  BY <1>3 DEF Serve
<1>4. PICK out : out = <<done.db, done.answer>>
  OBVIOUS
<1>5. out \in KV!Outcomes(thread[t].call) /\ out[1] = done.db /\ out[2] = done.answer
  BY <1>3, <1>4, ExecutionsAreOutcomes DEF OneThread, OneThreadInv
<1>6. CallOf[t] = thread[t].call /\ ResultOf[t] = Pending
  BY <1>1 DEF CallOf, ResultOf
<1>7. CallOf[t] # KV!NoCall
  BY <1>1, <1>6, NoCallIsNone
<1>8. /\ peer /\ connected' = connected
      /\ (connected /\ ~ peer)' = (connected /\ ~ peer)
  BY DEF Serve, OneThreadInv, SocketInv
<1>9. db' = out[1]
  BY <1>5
<1>10. \/ /\ ResultOf' = [ResultOf EXCEPT ![t] = out[2]]
          /\ CallOf' = CallOf
       \/ /\ ~ connected
          /\ CallOf' = [CallOf EXCEPT ![t] = KV!NoCall]
          /\ ResultOf' = ResultOf
  <2>1. CASE connected
    <3>1. PICK th : th = [thread[t] EXCEPT !.answer = done.answer]
      OBVIOUS
    <3>2. thread'[t] = th /\ \A u \in Threads : u = t
      BY <2>1, <3>1 DEF TypeInv, OneThreadInv, OneThread
    <3>3. th.pc = "reading" /\ th.call = thread[t].call /\ th.answer = out[2]
      <4>1. thread[t] \in ThreadState
        BY DEF OneThreadInv, TypeInv
      <4> QED
        BY <1>1, <1>5, <2>1, <3>1, <4>1 DEF ThreadState
    <3>4. CallOf' = CallOf
      BY <3>2, <3>3 DEF CallOf
    <3>5. ResultOf' = [ResultOf EXCEPT ![t] = out[2]]
      BY <3>2, <3>3, NewState
    <3> QED
      BY <3>4, <3>5
  <2>2. CASE ~ connected
    <3>1. thread'[t] = Idle /\ \A u \in Threads : u = t
      BY <2>2 DEF TypeInv, OneThreadInv, OneThread
    <3>2. CallOf' = [CallOf EXCEPT ![t] = KV!NoCall]
      BY <3>1 DEF CallOf, Idle
    <3>3. ResultOf' = ResultOf
      BY <1>1, <2>2, <3>1 DEF ResultOf, Idle
    <3> QED
      BY <2>2, <3>2, <3>3
  <2> QED
    BY <2>1, <2>2
<1>11. ~ (connected /\ ~ peer)
  BY <1>8
<1> QED
  BY <1>5, <1>6, <1>7, <1>8, <1>9, <1>10, <1>11 DEF KV!Apply, CallOf, ResultOf

\* A kill: a command that memcached has still to execute keeps its call alive.
LEMMA DieIsDie ==
  ASSUME OneThread, OneThreadInv, NEW t \in Threads, Die
  PROVE  KV!Die
<1> DEFINE cut == connected /\ ~ peer
<1>1. connected /\ connected' = FALSE /\ db' = db /\ cut' = FALSE
  BY DEF Die
<1>2. \A u \in Threads : u = t
  BY DEF OneThread
<1>3. /\ thread'[t].call = IF ResultOf[t] = Pending /\ ~ cut
                           THEN CallOf[t] ELSE KV!NoCall
      /\ thread'[t].pc # "reading" /\ thread'[t].result = Pending
  <2>1. CASE wire = <<>>
    <3>1. ~ \E j \in DOMAIN wire : wire[j].by = t
      BY <2>1
    <3>2. thread'[t] = Idle
      BY <3>1 DEF Die
    <3>3. thread'[t].pc = "idle" /\ thread'[t].call = KV!NoCall /\ thread'[t].result = Pending
      BY <3>2 DEF Idle
    <3>4. ResultOf[t] = Pending /\ ~ cut => CallOf[t] = KV!NoCall
      <4>1. CASE thread[t].pc = "reading"
        <5>1. ResultOf[t] = thread[t].answer
          BY <4>1 DEF ResultOf
        <5>2. thread[t].answer = Pending => ~ peer
          BY <2>1, <4>1, OneCommand DEF OneThreadInv, CallInv
        <5> QED
          BY <1>1, <5>1, <5>2
      <4>2. CASE thread[t].pc = "dead"
        BY <1>1, <4>2 DEF OneThreadInv, CallInv
      <4>3. CASE thread[t].pc = "idle"
        BY <4>3 DEF OneThreadInv, CallInv, CallOf
      <4> QED
        BY <4>1, <4>2, <4>3 DEF OneThreadInv, TypeInv, ThreadState
    <3> QED
      BY <3>3, <3>4
  <2>2. CASE wire # <<>>
    <3>1. /\ wire = <<CommandOf(t)>>
          /\ thread[t].pc = "reading" /\ thread[t].answer = Pending
      BY <1>1, <2>2, OnTheWire DEF OneThreadInv
    <3>2. \E j \in DOMAIN wire : wire[j].by = t
      BY <3>1, OneCommand DEF CommandOf
    <3>3. PICK th : th = [thread[t] EXCEPT !.pc = "dead", !.result = Pending]
      OBVIOUS
    <3>4. thread'[t] = th
      BY <3>2, <3>3 DEF Die
    <3>5. th.pc = "dead" /\ th.result = Pending /\ th.call = thread[t].call
      <4>1. thread[t] \in ThreadState
        BY DEF OneThreadInv, TypeInv
      <4> QED
        BY <3>3, <4>1 DEF ThreadState
    <3>6. ResultOf[t] = Pending /\ CallOf[t] = thread[t].call
      BY <3>1 DEF ResultOf, CallOf
    <3>7. peer
      BY <2>2 DEF OneThreadInv, SocketInv
    <3> QED
      BY <3>4, <3>5, <3>6, <3>7
  <2> QED
    BY <2>1, <2>2
<1>4. CallOf' = [u \in Threads |-> IF ResultOf[u] = Pending /\ ~ cut
                                   THEN CallOf[u] ELSE KV!NoCall]
  BY <1>2, <1>3 DEF CallOf
<1>5. ResultOf' = [u \in Threads |-> Pending]
  BY <1>2, <1>3 DEF ResultOf
<1> QED
  BY <1>1, <1>4, <1>5 DEF KV!Die, CallOf, ResultOf

\* A restart of memcached is that of KVStore,
LEMMA RestartIsRestart ==
  ASSUME OneThread, OneThreadInv, NEW t \in Threads, Restart
  PROVE  KV!Restart
<1>1. thread'[t] = IF thread[t].pc = "dead" THEN Idle ELSE thread[t]
  BY DEF Restart
<1>2. \A u \in Threads : u = t
  BY DEF OneThread
<1>3. /\ connected' = connected /\ db' = KV!Empty
      /\ (connected /\ ~ peer)' = connected
  BY DEF Restart, OneThreadInv, TypeInv
<1>4. CallOf' = [u \in Threads |-> IF connected THEN CallOf[u] ELSE KV!NoCall]
  <2>1. thread'[t].call = IF connected THEN thread[t].call ELSE KV!NoCall
    <3>1. CASE thread[t].pc = "dead"
      BY <1>1, <3>1 DEF OneThreadInv, CallInv, Idle
    <3>2. CASE thread[t].pc = "reading"
      BY <1>1, <3>2 DEF OneThreadInv, SocketInv, Reading
    <3>3. CASE thread[t].pc = "idle"
      BY <1>1, <3>3 DEF OneThreadInv, CallInv
    <3> QED
      BY <3>1, <3>2, <3>3 DEF OneThreadInv, TypeInv, ThreadState
  <2> QED
    BY <1>2, <2>1 DEF CallOf
<1>5. ResultOf' = ResultOf
  <2>1. CASE thread[t].pc = "dead"
    <3>1. thread'[t] = Idle /\ thread[t].result = Pending
      BY <1>1, <2>1 DEF OneThreadInv, CallInv
    <3> QED
      BY <1>2, <2>1, <3>1 DEF ResultOf, Idle
  <2>2. CASE thread[t].pc # "dead"
    BY <1>1, <1>2, <2>2 DEF ResultOf
  <2> QED
    BY <2>1, <2>2
<1> QED
  BY <1>3, <1>4, <1>5 DEF KV!Restart, CallOf, ResultOf

\* The process starts again only when its old calls have taken effect.
LEMMA ConnectIsStart ==
  ASSUME OneThreadInv, memcached_connect
  PROVE  KV!Start
<1>1. \A u \in Threads : thread[u].call = KV!NoCall
  <2> TAKE u \in Threads
  <2>1. thread[u].pc # "reading"
    BY DEF OneThreadInv, SocketInv, Reading, memcached_connect
  <2>2. thread[u].pc # "dead"
    BY OneCommand DEF OneThreadInv, CallInv, memcached_connect
  <2>3. thread[u].pc \in {"idle", "reading", "dead"}
    BY DEF OneThreadInv, TypeInv, ThreadState
  <2> QED
    BY <2>1, <2>2, <2>3 DEF OneThreadInv, CallInv
<1>2. \A u \in Threads : CallOf[u] = KV!NoCall
  BY <1>1 DEF CallOf
<1>3. /\ ~ connected /\ connected' = TRUE /\ db' = db
      /\ CallOf' = CallOf /\ ResultOf' = ResultOf
      /\ (connected /\ ~ peer)' = (connected /\ ~ peer)
  BY DEF memcached_connect, CallOf, ResultOf
<1> QED
  BY <1>2, <1>3 DEF KV!Start, CallOf, ResultOf

\* and so is a key that it drops.
LEMMA ForgetIsForget ==
  ASSUME Forget
  PROVE  KV!Forget
  BY DEF Forget, KV!Forget

\* Every step is a step of KVStore or none.
LEMMA ClientRefinement ==
  /\ Init => KV!Init
  /\ OneThread /\ OneThreadInv /\ [Next]_vars => [KV!Next]_KV!vars
<1>1. Init => KV!Init
  BY DEF Init, KV!Init, Idle
<1>2. ASSUME OneThread, OneThreadInv, [Next]_vars PROVE [KV!Next]_KV!vars
  <2> PICK t \in Threads : TRUE
    BY ClientAssumption
  <2>1. CASE memcached_connect
    BY <1>2, <2>1, ConnectIsStart DEF KV!Next
  <2>2. CASE Crash
    BY <1>2, <2>2, DieIsDie DEF Crash, KV!Next
  <2>3. ASSUME NEW u \in Threads, Send(u) PROVE KV!Next
    BY <1>2, <2>3, SendIsInvoke DEF KV!Next
  <2>4. ASSUME NEW u \in Threads, Read(u) PROVE KV!Next
    BY <1>2, <2>4, ReadIsReturn DEF KV!Next
  <2>5. ASSUME NEW u \in Threads, ReadBeyond(u) PROVE KV!Next
    BY <1>2, <2>5, DieIsDie DEF ReadBeyond, KV!Next
  <2>6. CASE Serve
    BY <1>2, <2>6, ServeIsApply DEF KV!Next
  <2>7. CASE Forget
    BY <1>2, <2>7, ForgetIsForget DEF KV!Next
  <2>8. CASE Restart
    BY <1>2, <2>8, RestartIsRestart DEF KV!Next
  <2>9. CASE UNCHANGED vars
    BY <2>9 DEF vars, KV!vars
  <2> QED
    BY <1>2, <2>1, <2>2, <2>3, <2>4, <2>5, <2>6, <2>7, <2>8, <2>9 DEF Next
<1> QED
  BY <1>1, <1>2

\* With one thread the functions of memcached_client.c keep the promise on
\* which every handler of main.c builds: between a call and its return the
\* store takes exactly one step for it, and the call returns what that step
\* found; a kill or a restart of memcached leaves no half of a call behind.
THEOREM ClientIsKVStore ==
  ASSUME OneThread
  PROVE  Spec => ImplementsKVStore
<1>1. Spec => []OneThreadInv
  BY OneThreadInvariant
<1>2. Init => KV!Init
  BY ClientRefinement
<1>3. OneThreadInv /\ [Next]_vars => [KV!Next]_KV!vars
  BY OneThread, ClientRefinement
<1> QED
  BY <1>1, <1>2, <1>3, PTL DEF Spec, ImplementsKVStore, KV!Spec
=============================================================================
