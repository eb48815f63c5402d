------------------------------- MODULE LRUCache -------------------------------
(***************************************************************************)
(* The cache of face profiles, lockouts and failed attempts: least         *)
(* recently used first out, entries unused for a while expire when they    *)
(* are next asked for, and the file written on every put.                  *)
(***************************************************************************)
EXTENDS Naturals, Sequences, SequencesExt

CONSTANTS Key, MaxSize, Lifetime,
          Now,      \* bound: the clock
          Persists, \* persist_file is given
          Expires   \* ttl_seconds is given

LRUAssumption ==
  /\ MaxSize \in Nat \ {0} /\ Lifetime \in Nat /\ Now \in Nat
  /\ Persists \in BOOLEAN /\ Expires \in BOOLEAN

VARIABLES order, \* self.cache: the keys, least recently used first
          times, \* self.access_times
          disk,  \* the keys in persist_file, in their order
          now,
          used   \* history: when each key was last stored or found, 0 if never

lruVars == <<order, times, disk, now, used>>

Keys == ToSet(order)
LruInit ==
  /\ order = <<>> /\ times = [k \in {} |-> 0] /\ disk = <<>>
  /\ now = 1 /\ used = [k \in Key |-> 0]

\* _is_expired: an entry without an access time is as old as the epoch.
Expired(k) == Expires /\ (k \in DOMAIN times => now - times[k] > Lifetime)

Without(S) == [k \in DOMAIN times \ S |-> times[k]]
Touched(f, k) == [x \in DOMAIN f \cup {k} |-> IF x = k THEN now ELSE f[x]]
Gone(s, k) == IF k \in ToSet(s) THEN RemoveAt(s, CHOOSE i \in DOMAIN s : s[i] = k) ELSE s
ToEnd(s, k) == Append(Gone(s, k), k)
\* The keys of a sequence that are in S, in their order.
KeysIn(s, S) ==
  LET acc[i \in 0 .. Len(s)] ==
        IF i = 0 THEN <<>> ELSE IF s[i] \in S THEN Append(acc[i - 1], s[i]) ELSE acc[i - 1]
  IN  acc[Len(s)]

\* get: a hit is renewed, an expired entry is removed.
GetKey(k) ==
  /\ k \in Keys
  /\ IF Expired(k)
     THEN order' = Gone(order, k) /\ times' = Without({k}) /\ UNCHANGED used
     ELSE order' = ToEnd(order, k) /\ times' = Touched(times, k) /\ used' = [used EXCEPT ![k] = now]
  /\ UNCHANGED <<disk, now>>

\* put: a new key of a full cache evicts the oldest one; then the entries
\* that did not expire are written to the file.
PutKey(k) ==
  /\ LET full == k \notin Keys /\ Len(order) >= MaxSize
         kept == IF full THEN Tail(order) ELSE order
     IN /\ order' = ToEnd(kept, k)
        /\ times' = Touched(Without(IF full THEN {Head(order)} ELSE {}), k)
        /\ disk' = IF Persists THEN KeysIn(order', {x \in Key : x = k \/ ~Expired(x)}) ELSE disk
        /\ used' = [used EXCEPT ![k] = now]
  /\ UNCHANGED now

\* remove and clear leave the file as it is.
RemoveKey(k) ==
  /\ k \in Keys /\ order' = Gone(order, k) /\ times' = Without({k})
  /\ UNCHANGED <<disk, now, used>>
Clear ==
  /\ order' = <<>> /\ times' = Without(Key)
  /\ UNCHANGED <<disk, now, used>>

LruTick == now < Now /\ now' = now + 1 /\ UNCHANGED <<order, times, disk, used>>

\* A new process: every key of the file for which the empty table of access
\* times says "not expired" comes back.
Restart ==
  /\ order' = IF Expires THEN <<>> ELSE disk
  /\ times' = [k \in ToSet(order') |-> now]
  /\ used' = [k \in Key |-> IF k \in ToSet(order') THEN now ELSE 0]
  /\ UNCHANGED <<disk, now>>

LruNext ==
  \/ \E k \in Key : GetKey(k) \/ PutKey(k) \/ RemoveKey(k)
  \/ Clear \/ LruTick \/ Restart
LruSpec == LruInit /\ [][LruNext]_lruVars

-----------------------------------------------------------------------------
LruTypeOK ==
  /\ Keys \subseteq Key /\ Len(order) <= MaxSize /\ IsInjective(order)
  /\ DOMAIN times = Keys /\ ToSet(disk) \subseteq Key

\* The order is that of use: what a full cache evicts, its first key, was not
\* used more recently than anything that is kept.
LeastRecentFirst ==
  \A i, j \in DOMAIN order : i < j => used[order[i]] <= used[order[j]]

\* A restarted process finds in its cache what the file held, as the message
\* of the constructor reports.
FileRestored == [][(Restart /\ disk # <<>>) => order' # <<>>]_lruVars
=============================================================================
