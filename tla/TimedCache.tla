------------------------------- MODULE TimedCache -------------------------------
(***************************************************************************)
(* The caches with a time to live: staff preferences and period times      *)
(* (FastCache) and the embeddings of a class (_CohortEmbeddingCache).      *)
(* Threads look up, load from the database and store in separate steps     *)
(* while others save.  A value is abstracted to how long it has been       *)
(* outdated: ticks since the database last changed under it.               *)
(***************************************************************************)
EXTENDS Integers

CONSTANTS Reader,   \* threads that read through a cache
          TTL,      \* TTL[c]: time to live of an entry of cache c, in ticks
          Slow,     \* bound: ticks between reading the database and storing
          NoRead, Empty, Current

Cache == {"prefs", "periods", "cohort"}

\* How long a value is outdated, what a cache stores, and a load on its way.
Age == {Current} \cup Nat
Entry == [old : Age, left : Int]
Load == [cache : Cache, pc : {"query", "store"}, old : Age, spent : 0..Slow]

CacheAssumption ==
  /\ TTL \in [Cache -> Nat \ {0}] /\ Slow \in Nat
  /\ Current \notin Nat /\ Empty \notin Entry /\ NoRead \notin Load
  /\ Empty \notin [cache : Cache, old : Age]

VARIABLES entry,    \* entry[c]: the stored value's age and how long it is outdated
          load,     \* load[t]: the load a thread is in
          served    \* the last value handed to a caller

timedVars == <<entry, load, served>>
Ageing(old) == IF old = Current THEN Current ELSE old + 1
Outdate(old) == IF old = Current THEN 0 ELSE old

TimedInit ==
  /\ entry = [c \in Cache |-> Empty]
  /\ load = [t \in Reader |-> NoRead]
  /\ served = Empty

\* A FastCache entry is used until its expiry has passed; a cohort entry only
\* while it is younger than its time to live.
Hit(c) ==
  /\ entry[c] # Empty
  /\ IF c = "cohort" THEN entry[c].left > 0 ELSE entry[c].left >= 0

\* FastCache.get, get_or_load: a valid entry is the answer.
Lookup(t, c) ==
  /\ load[t] = NoRead /\ Hit(c)
  /\ served' = [cache |-> c, old |-> entry[c].old]
  /\ UNCHANGED <<entry, load>>

\* A miss deletes what expired; the cohort cache notes the time at this point.
Miss(t, c) ==
  /\ load[t] = NoRead /\ ~Hit(c)
  /\ entry' = [entry EXCEPT ![c] = IF c = "cohort" THEN @ ELSE Empty]
  /\ load' = [load EXCEPT ![t] = [cache |-> c, pc |-> "query", old |-> Current, spent |-> 0]]
  /\ UNCHANGED served

\* The SELECT reads what the database holds now.
Query(t) ==
  /\ load[t] # NoRead /\ load[t].pc = "query"
  /\ load' = [load EXCEPT ![t].pc = "store"]
  /\ UNCHANGED <<entry, served>>

\* The SELECT of the preferences fails: the defaults are stored all the same.
QueryFails(t) ==
  /\ load[t] # NoRead /\ load[t].pc = "query" /\ load[t].cache = "prefs"
  /\ load' = [load EXCEPT ![t].pc = "store", ![t].old = 0]
  /\ UNCHANGED <<entry, served>>

\* The times of a period without a configuration are not stored.
QueryEmpty(t) ==
  /\ load[t] # NoRead /\ load[t].pc = "query" /\ load[t].cache = "periods"
  /\ load' = [load EXCEPT ![t] = NoRead]
  /\ UNCHANGED <<entry, served>>

\* The value is stored and handed to the caller.  Slip: the cohort's time is
\* taken when the matrix is ready.
StoreLate(t) ==
  /\ load[t] # NoRead /\ load[t].pc = "store"
  /\ LET c == load[t].cache IN
     /\ entry' = [entry EXCEPT ![c] = [old |-> load[t].old, left |-> TTL[c]]]
     /\ served' = [cache |-> c, old |-> load[t].old]
  /\ load' = [load EXCEPT ![t] = NoRead]

\* The value is stored and handed to the caller.  FastCache counts the time to
\* live from now, the cohort cache from its lookup.
Store(t) ==
  /\ load[t] # NoRead /\ load[t].pc = "store"
  /\ LET c == load[t].cache
         left == IF c = "cohort" THEN TTL[c] - load[t].spent ELSE TTL[c] IN
     /\ entry' = [entry EXCEPT ![c] = [old |-> load[t].old, left |-> left]]
     /\ served' = [cache |-> c, old |-> load[t].old]
  /\ load' = [load EXCEPT ![t] = NoRead]

\* A save changes the rows behind a cache.  Of the three only the preferences
\* are invalidated afterwards.
Save(c) ==
  /\ load' = [t \in Reader |->
       IF load[t] # NoRead /\ load[t].cache = c /\ load[t].pc = "store"
       THEN [load[t] EXCEPT !.old = Outdate(@)] ELSE load[t]]
  /\ entry' = [entry EXCEPT ![c] =
       IF c = "prefs" \/ @ = Empty THEN Empty ELSE [@ EXCEPT !.old = Outdate(entry[c].old)]]
  /\ UNCHANGED served

\* Time passes, while no load has been on its way for longer than Slow.
CacheTick ==
  /\ \A t \in Reader : load[t] # NoRead => load[t].spent < Slow
  /\ load' = [t \in Reader |->
       IF load[t] = NoRead THEN NoRead
       ELSE [load[t] EXCEPT !.spent = @ + 1,
                            !.old = IF load[t].pc = "store" THEN Ageing(@) ELSE @]]
  /\ entry' = [c \in Cache |->
       IF entry[c] = Empty \/ entry[c].left < 0 THEN entry[c]
       ELSE [old |-> Ageing(entry[c].old), left |-> entry[c].left - 1]]
  /\ served' = Empty

TimedNext ==
  \/ \E t \in Reader :
       \/ \E c \in Cache : Lookup(t, c) \/ Miss(t, c)
       \/ Query(t) \/ QueryFails(t) \/ QueryEmpty(t) \/ Store(t)
  \/ \E c \in Cache : Save(c)
  \/ CacheTick
TimedSpec == TimedInit /\ [][TimedNext]_timedVars

-----------------------------------------------------------------------------
\* Every variable has its type.
TimedTypeOK ==
  /\ entry \in [Cache -> {Empty} \cup Entry]
  /\ \A c \in Cache : entry[c] # Empty => entry[c].left \in -Slow - 1..TTL[c]
  /\ load \in [Reader -> {NoRead} \cup Load]
  /\ served \in {Empty} \cup [cache : Cache, old : Age]

Outdated(c, most) ==
  served # Empty /\ served.cache = c => served.old = Current \/ served.old <= most

\* No caller gets embeddings of a class that were replaced a time to live ago,
\* however long the load took: the time is taken before the read.
CohortFresh == Outdated("cohort", IF TTL["cohort"] > Slow THEN TTL["cohort"] - 1 ELSE Slow)

\* Preferences and period times may be outdated for their time to live and the
\* time a load takes, even when the store of a slow load follows a save.
FastFresh == \A c \in {"prefs", "periods"} : Outdated(c, TTL[c] + Slow)

\* Both: what is served from a cache is outdated no longer than its time to live
\* and a load explain.
CachesFresh == TimedTypeOK /\ CohortFresh /\ FastFresh
=============================================================================
