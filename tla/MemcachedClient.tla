-------------------------- MODULE MemcachedClient --------------------------
(***************************************************************************)
(* memcached_client.c: the functions every handler calls to reach          *)
(* memcached, over one TCP socket that all worker threads share and no     *)
(* lock protects.  A thread writes its command and then reads whatever the *)
(* socket holds, up to the size of its buffer, and takes it for the reply  *)
(* to its command.  memcached executes the commands of a connection in     *)
(* order and replies in order.                                             *)
(*                                                                         *)
(* A reply is a sequence of pieces of text: one for a status line; for a   *)
(* value a header, its data, a line end and the status "END".  A piece is  *)
(* read whole or not at all.                                               *)
(*                                                                         *)
(* Nothing connects again: when memcached is restarted, the writes of the  *)
(* process fail (libfuse ignores SIGPIPE) and its reads return no text.    *)
(***************************************************************************)
EXTENDS Integers, Sequences, FiniteSets

CONSTANTS
  Threads,          \* the worker threads of fuse_main
  Keys, Values,
  NOVALUE,          \* the text "NOVALUE"
  NULL, Pending, Lost,          \* as in KVStore
  Torn,             \* text that is no value: cut off, or foreign memory
  Size,             \* value -> pieces of data
  BufferSize,       \* MAX_COMMAND_SIZE, in pieces
  Faults            \* "forget": memcached may drop a key; "refuse": or a set;
                    \* "crash": the process may be killed; "restart":
                    \* memcached may be killed and started again

ASSUME ClientAssumption ==
  /\ Threads # {} /\ IsFiniteSet(Threads)
  /\ Size \in [Values -> Nat]
  /\ BufferSize \in Nat \ {0}
  /\ Faults \subseteq {"forget", "refuse", "crash", "restart"}

\* What a call may return is told apart from what tells that it has not.
ASSUME ResultAssumption ==
  /\ NULL \notin Values
  /\ Pending # Lost
  /\ \A x \in {Pending, Lost} : x \notin Values \cup {NULL, 0, 1}

VARIABLES
  db,               \* memcached: key -> value, NULL when there is none
  wire,             \* the commands written and not yet executed
  stream,           \* the pieces of replies not yet read
  thread,           \* the state of each thread
  connected,        \* is the process running?
  peer              \* is memcached still the one it connected to?

vars == <<db, wire, stream, thread, connected, peer>>

KV == INSTANCE KVStore WITH
        Clients <- Threads, store <- db, call <- [t \in Threads |-> thread[t].call],
        cut <- connected /\ ~ peer,
        result <- [t \in Threads |-> IF thread[t].pc = "reading"
                                     THEN thread[t].answer ELSE thread[t].result]

(***************************************************************************)
(* pc is "idle", "reading" (in send_to_server) or "dead" (killed with its  *)
(* command still on the wire).  answer is history: what memcached did with *)
(* the command.                                                            *)
(***************************************************************************)
Idle == [pc |-> "idle", call |-> KV!NoCall, answer |-> Pending, result |-> Pending]

Init ==
  /\ db = KV!Empty
  /\ wire = <<>> /\ stream = <<>>
  /\ thread = [t \in Threads |-> Idle]
  /\ connected = FALSE /\ peer = FALSE

-----------------------------------------------------------------------------
(* The text of replies.                                                    *)

Status(line) == <<[text |-> line]>>

ValueReply(key, value) ==
  <<[text |-> "VALUE", key |-> key, value |-> value]>>
    \o [k \in 1..Size[value] |-> [text |-> "data", value |-> value, k |-> k]]
    \o Status("line end") \o Status("END")

\* Mutant: "END" is not looked for.
memcached_get_M(key, response) ==
  IF Head(response).text # "VALUE" \/ Len(response) < 1 + Size[Head(response).value]
  THEN {Torn}
  ELSE {Head(response).value}

(***************************************************************************)
(* The value a get finds in the text it read.  The number is looked for    *)
(* where the header of its own key would have it, so in the header of a    *)
(* key of another length it is not found.                                  *)
(***************************************************************************)
memcached_get(key, response) ==
  IF response = Status("END") THEN {NULL}
  ELSE IF Head(response).text # "VALUE" THEN {Torn}
  ELSE IF Len(response) < 1 + Size[Head(response).value] THEN {Torn}
  ELSE {Head(response).value} \cup (IF Head(response).key = key THEN {} ELSE {Torn})

\* Mutant: the length of the status is returned.
Parse_M(call, response) ==
  CASE call.name \in {"set", "add"} -> {Len(Head(response).text)}
    [] call.name = "get" -> memcached_get(call.key, response)
    [] call.name = "delete" -> {IF response = Status("ERROR") THEN -1 ELSE 0}
    [] call.name = "flush_all" -> {IF response = Status("OK") THEN 0 ELSE -1}

\* Mutant: an empty text is taken for success.
NoText_M(call) == {IF call.name \in {"set", "add"} THEN 1 ELSE 0}

\* What the functions other than get return when they read no text.
NoText(call) == {IF call.name = "flush_all" THEN -1 ELSE 0}

\* What each function returns.
Parse(call, response) ==
  CASE call.name \in {"set", "add"} -> {IF response = Status("STORED") THEN 1 ELSE 0}
    [] call.name = "get" -> memcached_get(call.key, response)
    [] call.name = "delete" -> {IF response = Status("ERROR") THEN -1 ELSE 0}
    [] call.name = "flush_all" -> {IF response = Status("OK") THEN 0 ELSE -1}

-----------------------------------------------------------------------------
(* The process.                                                            *)

memcached_connect ==
  /\ ~ connected /\ connected' = TRUE /\ peer' = TRUE
  /\ wire = <<>>            \* what a dead process wrote has been executed
  /\ UNCHANGED <<db, wire, stream, thread>>

\* send_command sends the retrieval form of a command, without data, when the
\* value is the text "NOVALUE".
HasData(call) == call.name \in {"set", "add"} /\ call.value # NOVALUE

\* The call of a function up to the write of its command.
Send(t) ==
  /\ connected /\ thread[t].pc = "idle"
  /\ \E call \in KV!Calls :
       /\ thread' = [thread EXCEPT ![t] =
            [Idle EXCEPT !.pc = "reading", !.call = call,
                         !.answer = IF peer THEN Pending ELSE Lost]]
       /\ wire' = IF peer
                  THEN Append(wire, [call |-> call, data |-> HasData(call), by |-> t])
                  ELSE wire
  /\ UNCHANGED <<db, stream, connected, peer>>

\* Mutant: one byte is read at a time.
Taken_M == IF stream = <<>> THEN 0 ELSE 1

\* How much one read takes from the socket.
Taken == IF Len(stream) < BufferSize THEN Len(stream) ELSE BufferSize

\* Mutant: the read goes on until the buffer is full.
CanRead_M == Len(stream) >= BufferSize \/ ~ peer

CanRead == stream # <<>> \/ ~ peer

(***************************************************************************)
(* What the function may return for the text it read.  With no text, the   *)
(* memory after it decides what a get returns: the value of an earlier     *)
(* reply, or none.  The read of a call that was under way when memcached   *)
(* closed the connection may fail; then all the text is such memory.       *)
(***************************************************************************)
Results(th) ==
  IF stream # <<>> THEN Parse(th.call, SubSeq(stream, 1, Taken))
  ELSE IF th.answer # Lost /\ th.call.name \in {"set", "add"} THEN {0, 1}
  ELSE IF th.call.name = "get" THEN Values \cup {Torn}
  ELSE NoText(th.call)

\* The read and the rest of the function, up to its return.
Read(t) ==
  /\ connected /\ thread[t].pc = "reading" /\ CanRead
  /\ stream' = SubSeq(stream, Taken + 1, Len(stream))
  /\ \E r \in Results(thread[t]) :
       thread' = [thread EXCEPT ![t] = [Idle EXCEPT !.result = r]]
  /\ UNCHANGED <<db, wire, connected, peer>>

\* The socket is closed; memcached still executes what it has received.
Die ==
  /\ connected /\ connected' = FALSE
  /\ stream' = <<>>
  /\ thread' = [t \in Threads |->
                  IF \E j \in DOMAIN wire : wire[j].by = t
                  THEN [thread[t] EXCEPT !.pc = "dead", !.result = Pending]
                  ELSE Idle]
  /\ UNCHANGED <<db, wire, peer>>

Crash == "crash" \in Faults /\ Die

\* The text is not that of a value, and the scan for the number and the copy
\* leave the memory of the process.
ReadBeyond(t) ==
  /\ thread[t].pc = "reading" /\ CanRead
  /\ Torn \in Results(thread[t])
  /\ Die

-----------------------------------------------------------------------------
(* memcached.                                                              *)

\* What it does with a command: the new db, the reply, and the value that
\* memcached_client.c has to return for that reply.
Executions(cmd) ==
  LET x == cmd.call
      stored == [db |-> [db EXCEPT ![x.key] = x.value],
                 reply |-> Status("STORED"), answer |-> 1]
      noRoom == [db |-> IF x.name = "set" THEN [db EXCEPT ![x.key] = NULL] ELSE db,
                 reply |-> Status("SERVER_ERROR"), answer |-> 0]
  IN  IF x.name \in {"set", "add"} /\ ~ cmd.data
      THEN {[db |-> db, reply |-> Status("ERROR"), answer |-> 0]}
      ELSE IF x.name = "set" \/ (x.name = "add" /\ db[x.key] = NULL)
      THEN {stored} \cup (IF "refuse" \in Faults THEN {noRoom} ELSE {})
      ELSE IF x.name = "add"
      THEN {[db |-> db, reply |-> Status("NOT_STORED"), answer |-> 0]}
      ELSE IF x.name = "get"
      THEN {[db |-> db, answer |-> db[x.key],
             reply |-> IF db[x.key] = NULL THEN Status("END")
                       ELSE ValueReply(x.key, db[x.key])]}
      ELSE IF x.name = "delete"
      THEN {[db |-> [db EXCEPT ![x.key] = NULL], answer |-> 0,
             reply |-> Status(IF db[x.key] = NULL THEN "NOT_FOUND" ELSE "DELETED")]}
      ELSE {[db |-> KV!Empty, reply |-> Status("OK"), answer |-> 0]}

Serve ==
  /\ wire # <<>> /\ wire' = Tail(wire)
  /\ \E done \in Executions(Head(wire)) :
       /\ db' = done.db
       /\ IF connected
          THEN /\ stream' = stream \o done.reply
               /\ thread' = [thread EXCEPT ![Head(wire).by].answer = done.answer]
          ELSE /\ thread' = [thread EXCEPT ![Head(wire).by] = Idle]
               /\ UNCHANGED stream
  /\ UNCHANGED <<connected, peer>>

Forget ==
  /\ "forget" \in Faults
  /\ \E k \in Keys : db' = [db EXCEPT ![k] = NULL]
  /\ UNCHANGED <<wire, stream, thread, connected, peer>>

\* It loses all keys, the commands it has not executed and the connection.
Restart ==
  /\ "restart" \in Faults
  /\ db' = KV!Empty /\ wire' = <<>> /\ peer' = FALSE
  /\ thread' = [t \in Threads |->
                  IF thread[t].pc = "dead" THEN Idle ELSE thread[t]]
  /\ UNCHANGED <<stream, connected>>

Next ==
  \/ memcached_connect \/ Crash
  \/ \E t \in Threads : Send(t) \/ Read(t) \/ ReadBeyond(t)
  \/ Serve \/ Forget \/ Restart

\* As long as it runs, memcached goes on executing commands, and a thread whose
\* read can return is scheduled.
Fairness == WF_vars(Serve) /\ \A t \in Threads : WF_vars(Read(t))

Spec == Init /\ [][Next]_vars /\ Fairness

-----------------------------------------------------------------------------
(* Properties.                                                             *)

TypeOK ==
  /\ db \in [Keys -> Values \cup {NULL}]
  /\ \A j \in DOMAIN wire : wire[j].call \in KV!Calls /\ wire[j].by \in Threads
  /\ \A t \in Threads :
       /\ thread[t].pc \in {"idle", "reading", "dead"}
       /\ thread[t].result \in Values \cup {NULL, Torn, Pending, -1, 0, 1}
  /\ connected \in BOOLEAN /\ peer \in BOOLEAN

\* The functions keep the promise of KVStore: each call takes effect at once and
\* returns what it found; cut off from memcached, none claims to have stored.
ImplementsKVStore == KV!Spec

\* Called from one thread, every call of a process that is not killed returns, also
\* when memcached is restarted before, in or after the call.  With more threads the
\* reply to a call may be read by another, and the call waits for ever.
EveryCallReturns ==
  \A t \in Threads : thread[t].pc = "reading" ~> thread[t].pc # "reading"

\* What a thread reads begins with the reply to its own command.
RepliesAreInStep ==
  \A t \in Threads :
    thread[t].pc = "reading" /\ thread[t].answer \in {Pending, Lost} => stream = <<>>

\* When no thread is in a call, no reply is under way that the next call would
\* take for its own, however the threads mixed up their replies before.
QuietSocketIsEmpty ==
  connected /\ (\A t \in Threads : thread[t].pc = "idle") => wire = <<>> /\ stream = <<>>
=============================================================================
