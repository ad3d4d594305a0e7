---------------------------- MODULE RedisClient ----------------------------
(***************************************************************************)
(* storage/redis_client.py: one client with two back ends, dictionaries in *)
(* the process when it has no url and a Redis server when it has one.  The *)
(* docstring calls the first a "transparent" fallback, so the model makes  *)
(* every call on both and keeps the two answers.  `mem` is the client's    *)
(* dictionaries; `srv` is the server, one key space in which a key holds a *)
(* value of one type.                                                      *)
(***************************************************************************)
EXTENDS Integers, Sequences, FiniteSets

CONSTANTS
  Key,          \* keys, and the names of streams and of lists
  Field,         \* the non-empty strings a caller stores
  MaxItems,     \* longest list or stream
  MaxTime       \* the clock stops here; it counts half seconds

Empty == "empty string"
Missing == "None"       \* Python's None: an absent value, a field that has none

ASSUME FieldAssumption == Empty \notin Field /\ Missing \notin Field
ASSUME TimeAssumption == MaxTime \in Nat

Failed == "raises"
Blocked == "blocks"
Forever == MaxTime + 10

VARIABLES mem, srv, clock, last, usedFor, careful

storeVars == <<mem, srv, clock, last, usedFor, careful>>

NoKey == [type |-> "none"]
Value(v, until) == [type |-> "value", value |-> v, until |-> until]
Items(type, seq) == [type |-> type, items |-> seq]

(* An instant after the expiry: reads come strictly later than the write   *)
(* that set the deadline, so the tick of the deadline is already past it.  *)
Past(until) == until <= clock

StoreInit ==
  /\ mem = [data |-> [k \in Key |-> NoKey], streams |-> [k \in Key |-> <<>>],
            lists |-> [k \in Key |-> <<>>], groups |-> {}]
  /\ srv = [keys |-> [k \in Key |-> NoKey], groups |-> {}]
  /\ clock = 0
  /\ last = <<Missing, Missing>>
  /\ usedFor = [k \in Key |-> "none"]
  /\ careful = TRUE

(* What the server sees under a key: an expired value is gone.             *)
Live(k) == IF srv.keys[k].type = "value" /\ Past(srv.keys[k].until)
           THEN NoKey ELSE srv.keys[k]

IsOr(k, type) == Live(k).type \in {"none", type}
ItemsOf(k) == IF Live(k).type = "none" THEN <<>> ELSE Live(k).items
SrvPut(k, e) == srv' = [srv EXCEPT !.keys[k] = e]

(* A careful caller keeps one type per key and passes what both stores     *)
(* take; `use` is the type this call uses the key for.                     *)
Use(k, use, ok) ==
  /\ careful' = (careful /\ ok /\ usedFor[k] \in {"none", use})
  /\ usedFor' = [usedFor EXCEPT ![k] = use]

Tick ==
  /\ clock < MaxTime
  /\ clock' = clock + 1
  /\ UNCHANGED <<mem, srv, last, usedFor, careful>>

(* ttl counts half seconds, 0 stands for no ttl.  SETEX gets int(ttl)      *)
(* seconds and refuses zero; SET replaces a value of any type.             *)
SetKey(k, v, ttl) ==
  LET whole == 2 * (ttl \div 2) IN
  /\ mem' = [mem EXCEPT !.data[k] =
               Value(v, IF ttl = 0 THEN Forever ELSE clock + ttl)]
  /\ IF ttl = 1 THEN UNCHANGED srv
     ELSE SrvPut(k, Value(v, IF ttl = 0 THEN Forever ELSE clock + whole))
  /\ last' = <<"ok", IF ttl = 1 THEN Failed ELSE "ok">>
  /\ Use(k, "value", ttl % 2 = 0 /\ v # Empty)
  /\ UNCHANGED clock

MemValue(k) ==
  LET e == mem.data[k] IN
  IF e = NoKey \/ Past(e.until) THEN Missing ELSE e.value
SrvValue(k) ==
  CASE Live(k).type = "none" -> Missing
    [] Live(k).type = "value" -> IF Live(k).value = Empty THEN Missing ELSE Live(k).value
    [] OTHER -> Failed
DropExpired(k) ==
  [mem EXCEPT !.data[k] = IF @ # NoKey /\ Past(@.until) THEN NoKey ELSE @]

GetKey(k) ==
  /\ mem' = DropExpired(k)
  /\ last' = <<MemValue(k), SrvValue(k)>>
  /\ Use(k, "value", TRUE)
  /\ UNCHANGED <<srv, clock>>

(* A mutant of DeleteKey without the expiry check.                         *)
DeleteKeyStale(k) ==
  /\ mem' = [mem EXCEPT !.data[k] = NoKey]
  /\ SrvPut(k, NoKey)
  /\ last' = <<mem.data[k] # NoKey, Live(k).type # "none">>
  /\ Use(k, "value", TRUE)
  /\ UNCHANGED clock

(* DEL removes a key of any type.                                          *)
DeleteKey(k) ==
  /\ mem' = [mem EXCEPT !.data[k] = NoKey]
  /\ SrvPut(k, NoKey)
  /\ last' = <<MemValue(k) # Missing, Live(k).type # "none">>
  /\ Use(k, "value", TRUE)
  /\ UNCHANGED clock

(* The answer is the entry's id, which differs from store to store and is  *)
(* not compared.  XADD takes no None among the fields.                     *)
PushToStream(k, d) ==
  LET fits == IsOr(k, "stream") /\ d # Missing IN
  /\ Len(mem.streams[k]) < MaxItems
  /\ mem' = [mem EXCEPT !.streams[k] = Append(@, d)]
  /\ IF fits THEN SrvPut(k, Items("stream", Append(ItemsOf(k), d))) ELSE UNCHANGED srv
  /\ last' = <<"id", IF fits THEN "id" ELSE Failed>>
  /\ Use(k, "stream", d # Missing)
  /\ UNCHANGED clock

(* The first `count` entries.  block_ms = 0 is handed to XREAD, for which  *)
(* it means to wait without limit when the stream holds nothing.           *)
ReadStream(k, count) ==
  LET First(s) == SubSeq(s, 1, IF count < Len(s) THEN count ELSE Len(s)) IN
  /\ last' = <<First(mem.streams[k]),
               IF count = 0 \/ ~IsOr(k, "stream") THEN Failed
               ELSE IF ItemsOf(k) = <<>> THEN Blocked ELSE First(ItemsOf(k))>>
  /\ Use(k, "stream", count > 0 /\ mem.streams[k] # <<>>)
  /\ UNCHANGED <<mem, srv, clock>>

PushToList(k, v) ==
  /\ Len(mem.lists[k]) < MaxItems
  /\ mem' = [mem EXCEPT !.lists[k] = Append(@, v)]
  /\ IF IsOr(k, "list") THEN SrvPut(k, Items("list", Append(ItemsOf(k), v)))
     ELSE UNCHANGED srv
  /\ last' = <<"ok", IF IsOr(k, "list") THEN "ok" ELSE Failed>>
  /\ Use(k, "list", v # Empty)
  /\ UNCHANGED clock

(* The server drops a list with its last item; an empty string is popped   *)
(* and answered as None.                                                   *)
PopFromList(k) ==
  LET l == mem.lists[k]
      s == ItemsOf(k)
      some == IsOr(k, "list") /\ s # <<>> IN
  /\ mem' = IF l = <<>> THEN mem ELSE [mem EXCEPT !.lists[k] = Tail(@)]
  /\ IF some THEN SrvPut(k, IF Len(s) = 1 THEN NoKey ELSE Items("list", Tail(s)))
     ELSE UNCHANGED srv
  /\ last' = <<IF l = <<>> THEN Missing ELSE Head(l),
               CASE ~IsOr(k, "list") -> Failed
                 [] IsOr(k, "list") /\ ~some -> Missing
                 [] some -> IF Head(s) = Empty THEN Missing ELSE Head(s)>>
  /\ Use(k, "list", TRUE)
  /\ UNCHANGED clock

GetListLength(k) ==
  /\ last' = <<Len(mem.lists[k]), IF IsOr(k, "list") THEN Len(ItemsOf(k)) ELSE Failed>>
  /\ Use(k, "list", TRUE)
  /\ UNCHANGED <<mem, srv, clock>>

(* One group per stream is enough.  XGROUP CREATE ... MKSTREAM creates the *)
(* stream; every error of the server is answered with False.               *)
CreateConsumerGroup(k) ==
  LET new == IsOr(k, "stream") /\ k \notin srv.groups IN
  /\ mem' = [mem EXCEPT !.groups = @ \cup {k}]
  /\ srv' = IF new THEN [keys |-> [srv.keys EXCEPT ![k] = Items("stream", ItemsOf(k))],
                         groups |-> srv.groups \cup {k}]
            ELSE srv
  /\ last' = <<k \notin mem.groups, new>>
  /\ Use(k, "stream", TRUE)
  /\ UNCHANGED clock

(* No client call reads through a group, so no entry is ever pending and   *)
(* XACK counts none; the dictionary answers True for any id.               *)
AckMessage(k) ==
  /\ last' = <<k \in mem.groups, IF IsOr(k, "stream") THEN FALSE ELSE Failed>>
  /\ Use(k, "stream", k \notin mem.groups)
  /\ UNCHANGED <<mem, srv, clock>>

(* The dictionary has no subscribers; the server may have some.            *)
PublishEvent(subscribers) ==
  /\ last' = <<0, subscribers>>
  /\ careful' = (careful /\ subscribers = 0)
  /\ UNCHANGED <<mem, srv, clock, usedFor>>

(* The connection is closed and the next call opens another: what was      *)
(* stored is lost with the dictionaries and kept by the server.            *)
CloseStore ==
  /\ mem' = [data |-> [k \in Key |-> NoKey], streams |-> [k \in Key |-> <<>>],
             lists |-> [k \in Key |-> <<>>], groups |-> {}]
  /\ last' = <<"ok", "ok">>
  /\ careful' = FALSE
  /\ UNCHANGED <<srv, clock, usedFor>>

(* The comparison ends with the first careless call.                       *)
StoreNext ==
  /\ careful
  /\ \/ Tick
     \/ \E k \in Key :
          \/ \E v \in Field \cup {Empty} : PushToList(k, v) \/ \E ttl \in 0..3 : SetKey(k, v, ttl)
          \/ \E d \in Field \cup {Missing} : PushToStream(k, d)
          \/ \E n \in 0..MaxItems : ReadStream(k, n)
          \/ GetKey(k) \/ DeleteKey(k) \/ PopFromList(k) \/ GetListLength(k)
          \/ CreateConsumerGroup(k) \/ AckMessage(k)
     \/ \E n \in 0..1 : PublishEvent(n)
     \/ CloseStore

StoreSpec == StoreInit /\ [][StoreNext]_storeVars

(* The claim of the docstring, for callers who pass what both stores take: *)
(* whole seconds, non-empty strings, text fields, one type per key, no     *)
(* read of an empty stream, no ack, no subscriber, no close.  The two      *)
(* stores then answer every call alike, however the calls and the expiry   *)
(* of keys interleave.                                                     *)
SameAnswers == careful => last[1] = last[2]
=============================================================================
