------------------------------ MODULE KVStore ------------------------------
(***************************************************************************)
(* What the handlers of main.c expect of memcached_client.c: a call takes  *)
(* effect in one step between its invocation and its return, and returns   *)
(* what that step found.  memcached is a cache: it may forget a key, and   *)
(* it may refuse to store.  When the process dies, the calls it had under  *)
(* way take effect or not, but they do so before it is started again.      *)
(* When memcached is restarted, the store is empty and the process is cut  *)
(* off from it: until it is started again no call takes effect, a set or   *)
(* add invoked from then on reports that nothing was stored, and the rest  *)
(* may return anything.                                                    *)
(***************************************************************************)
CONSTANTS
  Clients, Keys, Values,
  NULL,             \* what get returns for a key without a value
  Pending,          \* the result of a call that has not taken effect
  Lost              \* the result of a call that never will

VARIABLES
  store,            \* the value of each key, NULL when there is none
  call,             \* per client: the call under way, or NoCall
  result,           \* per client: what its call found, Pending before that
  connected,        \* is the process running?
  cut               \* is it cut off from the store?

vars == <<store, call, result, connected, cut>>

NoCall == [name |-> "none"]
Empty == [k \in Keys |-> NULL]

Calls ==
       [name : {"set", "add"}, key : Keys, value : Values]
  \cup [name : {"get", "delete"}, key : Keys]
  \cup [name : {"flush_all"}]

Init ==
  /\ store = Empty
  /\ call = [c \in Clients |-> NoCall]
  /\ result = [c \in Clients |-> Pending]
  /\ connected = FALSE /\ cut = FALSE

Invoke(c) ==
  /\ connected /\ call[c] = NoCall
  /\ \E x \in Calls : call' = [call EXCEPT ![c] = x]
  /\ result' = [result EXCEPT ![c] = IF cut THEN Lost ELSE Pending]
  /\ UNCHANGED <<store, connected, cut>>

(***************************************************************************)
(* The outcomes of x: the new store, and what is returned, as in the C     *)
(* functions.  A set that is refused takes the old value away.             *)
(***************************************************************************)
Outcomes(x) ==
  CASE x.name = "set" ->
         {<<[store EXCEPT ![x.key] = x.value], 1>>,
          <<[store EXCEPT ![x.key] = NULL], 0>>}
    [] x.name = "add" ->
         IF store[x.key] # NULL THEN {<<store, 0>>}
         ELSE {<<[store EXCEPT ![x.key] = x.value], 1>>, <<store, 0>>}
    [] x.name = "get" -> {<<store, store[x.key]>>}
    [] x.name = "delete" -> {<<[store EXCEPT ![x.key] = NULL], 0>>}
    [] x.name = "flush_all" -> {<<Empty, 0>>}

Apply(c) ==
  /\ call[c] # NoCall /\ result[c] = Pending /\ ~ cut
  /\ \E out \in Outcomes(call[c]) :
       /\ store' = out[1]
       /\ \/ /\ result' = [result EXCEPT ![c] = out[2]]
             /\ UNCHANGED call
          \/ /\ ~ connected             \* nobody is there to be told
             /\ call' = [call EXCEPT ![c] = NoCall]
             /\ UNCHANGED result
  /\ UNCHANGED <<connected, cut>>

Return(c) ==
  /\ call[c] # NoCall /\ result[c] \notin {Pending, Lost}
  /\ call' = [call EXCEPT ![c] = NoCall]
  /\ UNCHANGED <<store, result, connected, cut>>

ReturnUnserved(c) ==
  /\ cut /\ call[c] # NoCall /\ result[c] \in {Pending, Lost}
  /\ call' = [call EXCEPT ![c] = NoCall]
  /\ result' = [result EXCEPT ![c] = result'[c]]
  /\ result[c] = Lost /\ call[c].name \in {"set", "add"} => result'[c] = 0
  /\ UNCHANGED <<store, connected, cut>>

Forget ==
  /\ \E k \in Keys : store' = [store EXCEPT ![k] = NULL]
  /\ UNCHANGED <<call, result, connected, cut>>

Restart ==
  /\ store' = Empty
  /\ cut' = connected
  /\ call' = [c \in Clients |-> IF connected THEN call[c] ELSE NoCall]
  /\ UNCHANGED <<result, connected>>

Die ==
  /\ connected /\ connected' = FALSE /\ cut' = FALSE
  /\ call' = [c \in Clients |->
                IF result[c] = Pending /\ ~ cut THEN call[c] ELSE NoCall]
  /\ result' = [c \in Clients |-> Pending]
  /\ UNCHANGED store

Start ==
  /\ ~ connected /\ connected' = TRUE
  /\ \A c \in Clients : call[c] = NoCall
  /\ UNCHANGED <<store, call, result, cut>>

Next ==
  \/ \E c \in Clients : Invoke(c) \/ Apply(c) \/ Return(c) \/ ReturnUnserved(c)
  \/ Forget \/ Restart \/ Die \/ Start

Spec == Init /\ [][Next]_vars
=============================================================================
