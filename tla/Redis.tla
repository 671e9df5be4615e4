--------------------------------- MODULE Redis ---------------------------------
(***************************************************************************)
(* Subscriptions to redis channels (utils/redis/redis_opt.c).  Any thread  *)
(* calls init_subscribe(); each channel has a subscriber thread of its     *)
(* own, which hands every message to the callbacks registered so far and   *)
(* reads the list of callbacks without mut_hash.  One thread opens and     *)
(* destroys the connection and sets keys.                                  *)
(*                                                                         *)
(* Stores become visible in the order of the source: the callback is there *)
(* before size counts it.  Memory is not exhausted.  Use of what was       *)
(* freed, of a null pointer or of an uninitialized iterator leads to       *)
(* `undefined'; only errstr, which two error messages read after           *)
(* redisFree(), is left out with the rest of the logging.                  *)
(***************************************************************************)
EXTENDS Integers, FiniteSets

CONSTANTS
  Callers,      \* threads that call init_subscribe()
  Channels,
  NoCaller,     \* mut_hash is free
  FuncMaxCount, \* FUNC_MAX_COUNT, 50
  MaxMessages,  \* bound on the messages published to a channel
  MaxCalls      \* bound on the calls of one caller

ASSUME RedisAssumption ==
  /\ NoCaller \notin Callers /\ Channels # {}
  /\ FuncMaxCount \in Nat \ {0} /\ MaxMessages \in Nat /\ MaxCalls \in Nat

VARIABLES
  connInfo,   \* redis_conn_info: "null", "live" or "freed"
  connHd,     \* redis_conn_hd, likewise
  hash,       \* sub_hash: {} for NULL, or {the set of its channels}
  lock,       \* holder of mut_hash
  sub,        \* per channel: its sub_msg_t and its thread, see NoSub
  inbox,      \* per channel: messages on the subscriber's connection
  published,  \* history: messages published to each channel
  started,    \* history: threads created for each channel
  pc, call,   \* per caller: where it is, and [channel, calls]
  setter,     \* set_ttl_key(): "idle", or "expire" between its commands
  key,        \* the key on the server: "none", "forever" or "ttl"
  expireFailed, \* history: the EXPIRE of the last set_ttl_key() failed
  orderly,    \* history: every call so far found what it needs, see the calls
  undefined

connVars == <<connInfo, connHd, hash>>
keyVars == <<setter, key, expireFailed>>
threadVars == <<sub, inbox, published, started>>
rdVars == <<connVars, lock, threadVars, pc, call, keyVars, orderly, undefined>>

\* funcs[i] is whether message_func[i] is set; thread i is about to call the i-th
\* callback; due is the value of size when the message came.
NoSub == [mem |-> "none", funcs |-> [i \in 1 .. FuncMaxCount |-> FALSE], size |-> 0,
          thread |-> "none", i |-> 1, due |-> 0, cancelled |-> FALSE]

RedisInit ==
  /\ connInfo = "null" /\ connHd = "null" /\ hash = {}
  /\ lock = NoCaller
  /\ sub = [c \in Channels |-> NoSub]
  /\ inbox = [c \in Channels |-> 0] /\ published = [c \in Channels |-> 0]
  /\ started = [c \in Channels |-> 0]
  /\ pc = [t \in Callers |-> "idle"]
  /\ call = [t \in Callers |-> [channel |-> CHOOSE c \in Channels : TRUE, calls |-> 0]]
  /\ setter = "idle" /\ key = "none" /\ expireFailed = FALSE
  /\ orderly = TRUE /\ undefined = FALSE

InHash(c) == \E h \in hash : c \in h

-----------------------------------------------------------------------------
(* init_redis_conn() *)

InitConnAgain ==
  /\ ~ undefined /\ connInfo # "null"
  /\ UNCHANGED rdVars

\* A table each time; after a failure redis_conn_hd keeps the freed context.
InitConn ==
  /\ ~ undefined /\ connInfo = "null"
  /\ hash' = {{}}
  /\ \/ connInfo' = "live" /\ connHd' = "live"
     \/ connInfo' = "null" /\ connHd' = "freed"
  /\ UNCHANGED <<lock, threadVars, pc, call, keyVars, orderly, undefined>>

-----------------------------------------------------------------------------
(* init_subscribe() *)

Goto(t, label) == pc' = [pc EXCEPT ![t] = label]
At(t, label) == pc[t] = label /\ ~ undefined

\* Every return leads through pthread_mutex_unlock().
Returns(t) == Goto(t, "idle") /\ lock' = NoCaller

\* Nobody looks whether a connection is open.
SubscribeLocks(t, c) ==
  /\ At(t, "idle") /\ call[t].calls < MaxCalls /\ lock = NoCaller
  /\ lock' = t /\ orderly' = (orderly /\ connInfo = "live")
  /\ call' = [call EXCEPT ![t] = [channel |-> c, calls |-> @.calls + 1]]
  /\ Goto(t, "lookup")
  /\ UNCHANGED <<connVars, threadVars, keyVars, undefined>>

\* sub_msg->size >= FUNC_MAX_COUNT.
IsFull(s) == s.size >= FuncMaxCount

\* The channel has a subscriber.
ListFull(t) ==
  /\ At(t, "lookup")
  /\ LET c == call[t].channel IN InHash(c) /\ IsFull(sub[c])
  /\ Returns(t)
  /\ UNCHANGED <<connVars, threadVars, call, keyVars, orderly, undefined>>

\* message_func[size] = func, then size++.  (Mutant: size is increased first.)
CountThenStore(s, step) ==
  IF step = 1 THEN [s EXCEPT !.size = @ + 1] ELSE [s EXCEPT !.funcs[s.size] = TRUE]
StoreThenCount(s, step) ==
  IF step = 1 THEN [s EXCEPT !.funcs[s.size + 1] = TRUE] ELSE [s EXCEPT !.size = @ + 1]

AddsCallback(t) ==
  /\ At(t, "lookup")
  /\ LET c == call[t].channel
     IN /\ InHash(c) /\ ~ IsFull(sub[c])
        /\ sub' = [sub EXCEPT ![c] = StoreThenCount(@, 1)]
  /\ Goto(t, "count")
  /\ UNCHANGED <<connVars, lock, inbox, published, started, call, keyVars, orderly, undefined>>

CountsCallback(t) ==
  /\ At(t, "count")
  /\ sub' = [sub EXCEPT ![call[t].channel] = StoreThenCount(@, 2)]
  /\ Returns(t)
  /\ UNCHANGED <<connVars, inbox, published, started, call, keyVars, orderly, undefined>>

\* A connection of its own, then the thread.  In a table that is NULL nothing is found,
\* but the address is read from redis_conn_info, whatever that is.
Connects(t) ==
  /\ At(t, "lookup") /\ ~ InHash(call[t].channel)
  /\ undefined' = (connInfo # "live")
  /\ Goto(t, "connect") /\ lock' = t
  /\ UNCHANGED <<connVars, threadVars, call, keyVars, orderly>>

\* c->err, or pthread_create() fails: what was allocated is not freed.
SubscribeFails(t) ==
  /\ At(t, "connect")
  /\ Returns(t)
  /\ UNCHANGED <<connVars, threadVars, call, keyVars, orderly, undefined>>

CreatesThread(t) ==
  /\ At(t, "connect")
  /\ LET c == call[t].channel
     IN /\ sub' = [sub EXCEPT ![c] = [NoSub EXCEPT !.mem = "live", !.funcs[1] = TRUE, !.size = 1,
                                                     !.thread = "subscribe"]]
        /\ started' = [started EXCEPT ![c] = @ + 1]
  /\ Goto(t, "insert")
  /\ UNCHANGED <<connVars, lock, inbox, published, call, keyVars, orderly, undefined>>

\* pthread_detach(), g_hash_table_insert()
InsertsSub(t) ==
  /\ At(t, "insert")
  /\ hash' = {h \cup {call[t].channel} : h \in hash}
  /\ Returns(t)
  /\ UNCHANGED <<connInfo, connHd, threadVars, call, keyVars, orderly, undefined>>

-----------------------------------------------------------------------------
(* subscribe_func() *)

ThreadAt(c, label) == sub[c].thread = label /\ ~ undefined

\* Every use of sub_msg after g_free() is undefined.
SubStep(c, new) ==
  /\ undefined' = (sub[c].mem = "freed")
  /\ sub' = [sub EXCEPT ![c] = new]
  /\ UNCHANGED <<connVars, lock, published, started, pc, call, keyVars, orderly>>

\* SUBSCRIBE, whose failure is not looked at.  "wait" is redisGetReply() blocked in
\* read(), "again" the top of the loop over a context with an error.
Subscribes(c) ==
  /\ ThreadAt(c, "subscribe")
  /\ \E next \in {"wait", "again"} : SubStep(c, [sub[c] EXCEPT !.thread = next])
  /\ UNCHANGED inbox

\* redisGetReply() fails, the thread sleeps for 30 seconds.
ConnectionBreaks(c) ==
  /\ ThreadAt(c, "wait") /\ ~ sub[c].cancelled
  /\ SubStep(c, [sub[c] EXCEPT !.thread = "asleep"])
  /\ UNCHANGED inbox

\* A context with an error stays so: redisGetReply(sub_msg->c) fails again.
FailsAgain(c) ==
  /\ ThreadAt(c, "again")
  /\ SubStep(c, [sub[c] EXCEPT !.thread = "asleep"])
  /\ UNCHANGED inbox

Wakes(c) ==
  /\ ThreadAt(c, "asleep") /\ ~ sub[c].cancelled
  /\ SubStep(c, [sub[c] EXCEPT !.thread = "again"])
  /\ UNCHANGED inbox

Receives(c) ==
  /\ ThreadAt(c, "wait") /\ inbox[c] > 0
  /\ inbox' = [inbox EXCEPT ![c] = @ - 1]
  /\ SubStep(c, [sub[c] EXCEPT !.thread = "call", !.i = 1, !.due = sub[c].size])

\* for(i = 0; i < sub_msg->size; i++).
MoreCallbacks(c) == sub[c].i <= sub[c].size

Calls(c) ==
  /\ ThreadAt(c, "call") /\ MoreCallbacks(c)
  /\ SubStep(c, [sub[c] EXCEPT !.i = @ + 1])
  /\ UNCHANGED inbox

\* for(;;).  (Mutant: the thread ends after a message.)
ListensOnce == "gone"
ListensAgain == "wait"

CallsDone(c) ==
  /\ ThreadAt(c, "call") /\ ~ MoreCallbacks(c)
  /\ SubStep(c, [sub[c] EXCEPT !.thread = ListensAgain])
  /\ UNCHANGED inbox

\* A cancelled thread ends at a cancellation point: there is none between sleep() and
\* the next use of sub_msg.
ThreadEnds(c) ==
  /\ ~ undefined /\ sub[c].cancelled /\ sub[c].thread \notin {"none", "again", "gone"}
  /\ sub' = [sub EXCEPT ![c].thread = "gone"]
  /\ UNCHANGED <<connVars, lock, inbox, published, started, pc, call, keyVars, orderly, undefined>>

Thread(c) ==
  \/ Subscribes(c) \/ Receives(c) \/ Calls(c) \/ CallsDone(c)
  \/ FailsAgain(c) \/ Wakes(c) \/ ThreadEnds(c)

\* The server sends a message to a connection that has subscribed.
Publish(c) ==
  /\ ~ undefined /\ published[c] < MaxMessages
  /\ sub[c].thread \in {"wait", "call"} /\ sub[c].mem = "live"
  /\ inbox' = [inbox EXCEPT ![c] = @ + 1]
  /\ published' = [published EXCEPT ![c] = @ + 1]
  /\ UNCHANGED <<connVars, lock, sub, started, pc, call, keyVars, orderly, undefined>>

-----------------------------------------------------------------------------
(* destory_redis_conn() and set_ttl_key() *)

\* sub_value_destroy(): pthread_cancel(); pthread_join() returns at once, since
\* the thread is detached; the context and sub_msg are freed.
ValueDestroyed(s) == [s EXCEPT !.cancelled = TRUE, !.mem = "freed"]

\* Every subscriber is blocked, in read() or in sleep(), with nothing to read.
AllBlocked ==
  \A c \in Channels : InHash(c) => sub[c].thread \in {"wait", "asleep"} /\ inbox[c] = 0

\* The table is walked and destroyed without mut_hash; a table that is NULL leaves the
\* iterator uninitialized.  unsubscribe() sends UNSUBSCRIBE over redis_conn_hd, which
\* does not reach the connections that are subscribed: nothing changes.
\* redis_conn_hd is freed, though a failed init_redis_conn() or an earlier call did so;
\* redis_conn_info is freed and not set to NULL.
DestoryConn ==
  /\ ~ undefined /\ setter = "idle"
  /\ undefined' = (lock # NoCaller \/ hash = {} \/ connHd = "freed")
  /\ orderly' = (orderly /\ connInfo = "live" /\ lock = NoCaller /\ AllBlocked)
  /\ sub' = [c \in Channels |-> IF InHash(c) THEN ValueDestroyed(sub[c]) ELSE sub[c]]
  /\ hash' = {} /\ connHd' = "freed"
  /\ connInfo' = IF connInfo = "null" THEN "null" ELSE "freed"
  /\ UNCHANGED <<lock, inbox, published, started, pc, call, keyVars>>

\* SET removes the time to live, EXPIRE sets it; a reply of NULL, or one that says
\* that the command failed, is ignored, and set_ttl_key() returns 0.
SetThenExpire(step) == IF step = 1 THEN "forever" ELSE (IF key = "forever" THEN "ttl" ELSE key)

\* Nobody looks whether redis_conn_hd is open.
SetKey ==
  /\ ~ undefined /\ setter = "idle"
  /\ undefined' = (connHd # "live") /\ orderly' = (orderly /\ connHd = "live")
  /\ setter' = "expire" /\ key' \in {SetThenExpire(1), key}
  /\ UNCHANGED <<connVars, lock, threadVars, pc, call, expireFailed>>

ExpireKey ==
  /\ ~ undefined /\ setter = "expire"
  /\ setter' = "idle"
  /\ \/ key' = SetThenExpire(2) /\ expireFailed' = FALSE
     \/ expireFailed' = TRUE /\ UNCHANGED key
  /\ UNCHANGED <<connVars, lock, threadVars, pc, call, orderly, undefined>>

Subscriber(t) ==
  \/ ListFull(t) \/ AddsCallback(t) \/ CountsCallback(t)
  \/ Connects(t) \/ SubscribeFails(t) \/ CreatesThread(t) \/ InsertsSub(t)

RedisNext ==
  \/ InitConnAgain \/ InitConn \/ DestoryConn \/ SetKey \/ ExpireKey
  \/ \E t \in Callers : Subscriber(t) \/ \E c \in Channels : SubscribeLocks(t, c)
  \/ \E c \in Channels : Thread(c) \/ ConnectionBreaks(c) \/ Publish(c)

RedisSpec == RedisInit /\ [][RedisNext]_rdVars

-----------------------------------------------------------------------------
(* Properties *)

\* The types; a list of callbacks never exceeds its array.
RedisTypeOK ==
  /\ connInfo \in {"null", "live", "freed"} /\ connHd \in {"null", "live", "freed"}
  /\ hash \subseteq SUBSET Channels /\ Cardinality(hash) <= 1
  /\ lock \in Callers \cup {NoCaller}
  /\ \A c \in Channels : /\ sub[c].mem \in {"none", "live", "freed"}
                         /\ sub[c].size \in 0 .. FuncMaxCount
                         /\ sub[c].i \in 1 .. (FuncMaxCount + 1)
                         /\ sub[c].thread \in {"none", "subscribe", "wait", "call", "again", "asleep", "gone"}
  /\ pc \in [Callers -> {"idle", "lookup", "count", "connect", "insert"}]
  /\ setter \in {"idle", "expire"} /\ key \in {"none", "forever", "ttl"}

\* A subscriber calls only callbacks that are there, although it reads size and
\* the list while init_subscribe() in another thread adds to them.
CallbacksReady ==
  \A c \in Channels : sub[c].thread = "call" /\ MoreCallbacks(c) => sub[c].funcs[sub[c].i]

\* When a subscriber is done with a message, every callback that was registered
\* when the message came has been called, whatever was added meanwhile.
EveryCallbackCalled ==
  \A c \in Channels : sub[c].thread = "wait" => sub[c].i > sub[c].due

\* However many threads subscribe to a channel at once, it gets one subscriber
\* thread: a second would double every message and free the first one's data.
OneThreadPerChannel == \A c \in Channels : started[c] <= 1

\* Freed memory and null pointers are used only after a call out of order, which no
\* function notices: init_subscribe(), set_ttl_key() or destory_redis_conn() without an
\* open connection (before init_redis_conn(), after one that failed, after
\* destory_redis_conn(): then redis_conn_hd is freed twice), and destory_redis_conn()
\* while somebody is in init_subscribe() or a subscriber is not blocked (it is detached,
\* so pthread_join() does not wait for it, and it goes on with freed memory).
\* Cancellation reaches every thread that is blocked, one whose connection broke too.
OrderlyUseIsSafe == orderly => ~ undefined

\* A key set with set_ttl_key() is without a time to live only until EXPIRE is
\* sent, or when the last EXPIRE failed (against its comment, set_ttl_key() returns 0
\* then too); the next call whose EXPIRE works mends it.
NoEternalKey == key = "forever" => setter = "expire" \/ expireFailed

\* Every init_subscribe() returns, and on every path gives mut_hash back.
LockComesBack == lock # NoCaller ~> lock = NoCaller \/ undefined

\* Every message on the connection is handed out, unless the connection breaks
\* or is destroyed: then the subscriber never listens again.
EveryMessageHandled ==
  \A c \in Channels :
    inbox[c] > 0 ~> \/ inbox[c] = 0 \/ sub[c].thread \in {"again", "asleep"}
                    \/ sub[c].cancelled \/ undefined

\* Subscribing, receiving, setting keys and destroying, in any interleaving: one
\* subscriber for a channel, which calls all its callbacks and none too many, freed
\* memory only after a call out of order, and no key without a time to live unless the
\* EXPIRE of the last call failed.
RedisInv ==
  /\ RedisTypeOK
  /\ CallbacksReady /\ EveryCallbackCalled /\ OneThreadPerChannel
  /\ OrderlyUseIsSafe /\ NoEternalKey

\* Callers of init_subscribe() and messages are not kept waiting for ever.
RedisLive == LockComesBack /\ EveryMessageHandled
=============================================================================
