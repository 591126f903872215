----------------------------- MODULE CacheBlobs -----------------------------
(***************************************************************************)
(* The build cache: a job looks up a key, downloads and unpacks what it    *)
(* finds, and after its commands saves a key; the collector expires        *)
(* entries, evicts the least recently used content beyond a size, and      *)
(* removes files.  Keys are those of one workspace.                        *)
(***************************************************************************)
EXTENDS ContentStore

CONSTANTS
  Key, NoKey,
  NoDigest,
  User,          \* the jobs
  Restores,      \* Restores[u]: the key that u restores, or NoKey
  Saves,         \* Saves[u]: the key that u saves
  Makes,         \* Makes[u]: the digests of what u may leave to be saved
  Size, MaxBytes,
  CacheRetention

ASSUME CacheAssumption ==
  /\ NoDigest \notin Digest /\ NoKey \notin Key
  /\ Restores \in [User -> Key \cup {NoKey}] /\ Saves \in [User -> Key] /\ Makes \in [User -> SUBSET Digest]
  /\ Size \in [Digest -> Nat] /\ MaxBytes \in Nat \ {0}
  /\ CacheRetention \in Nat \ {0}

VARIABLES
  entry,         \* entry[k]: the digest of the live row of k, or NoDigest
  fresh,         \* fresh[k]: the time until that row expires
  recency,       \* the keys with a live row, least recently used first
  deletedRows,   \* the digests of rows that are marked deleted
  user,          \* user[u]: how far the job is
  found,         \* found[u]: the digest of what the job is about: what it has
                 \* looked up, then unpacked, and what it is about to commit
  recent         \* the keys committed since the collector, in its pass, last
                 \* read the table (to state what it may remove)

cacheVars == <<entry, fresh, recency, deletedRows, user, found, recent>>

\* Where a job begins.
First(u) == IF Restores[u] = NoKey THEN "run" ELSE "lookup"

CacheInit ==
  /\ entry = [k \in Key |-> NoDigest] /\ fresh = [k \in Key |-> 0]
  /\ recency = <<>> /\ deletedRows = {}
  /\ user = [u \in User |-> First(u)]
  /\ found = [u \in User |-> NoDigest]
  /\ recent = {}

Live(k) == entry[k] # NoDigest
Usable(k) == Live(k) /\ fresh[k] > 0
InUse(d) == \E k \in Key : entry[k] = d

UserAt(u, s) == user' = [user EXCEPT ![u] = s]
About(u, d) == found' = [found EXCEPT ![u] = d]

\* The job is over; u is next the same job of another run.
JobOver(u) ==
  /\ UserAt(u, First(u))
  /\ About(u, NoDigest)

\* The keys of a sequence that are not in K, in their order.
Without(s, K) ==
  LET rest[i \in 0 .. Len(s)] ==
        IF i = 0 THEN <<>> ELSE IF s[i] \in K THEN rest[i - 1] ELSE Append(rest[i - 1], s[i])
  IN  rest[Len(s)]

\* LookupCache: the row is used now, and expires later.
Used(k) ==
  /\ fresh' = [fresh EXCEPT ![k] = CacheRetention]
  /\ recency' = Append(Without(recency, {k}), k)

-----------------------------------------------------------------------------
(***************************************************************************)
(* Restore.  No error of it fails the job.                                 *)
(***************************************************************************)

\* The first lookup.  A job on a remote runner asks the route that also opens the
\* file, and takes a missing one for a miss.
Lookup(u, remote) ==
  LET k == Restores[u]
      hit == Usable(k) /\ (remote => Present(entry[k]))
  IN  /\ user[u] = "lookup"
      /\ IF Usable(k) THEN Used(k) ELSE UNCHANGED <<fresh, recency>>
      /\ About(u, IF hit THEN entry[k] ELSE NoDigest)
      /\ UserAt(u, IF ~hit THEN "run" ELSE IF remote THEN "fetch" ELSE "open")
      /\ UNCHANGED <<storeVars, entry, deletedRows, recent>>

\* The content arrives: the server's own jobs open the file of the metadata, a
\* remote job looks the key up again.
Served(u) ==
  IF user[u] = "open" THEN (IF Present(found[u]) THEN found[u] ELSE NoDigest)
  ELSE LET k == Restores[u]
       IN  IF Usable(k) /\ Present(entry[k]) THEN entry[k] ELSE NoDigest

\* Extract compares what arrived with the metadata of the first lookup.
ExtractAny(u, d) == d
Extract(u, d) == IF d = found[u] THEN d ELSE NoDigest

Download(u) ==
  /\ user[u] \in {"open", "fetch"}
  /\ About(u, Extract(u, Served(u)))
  /\ IF user[u] = "fetch" /\ Usable(Restores[u])
     THEN Used(Restores[u])
     ELSE UNCHANGED <<fresh, recency>>
  /\ UserAt(u, "run")
  /\ UNCHANGED <<storeVars, entry, deletedRows, recent>>

\* A call fails, or the path of the cache is there already.
Bypass(u) ==
  /\ user[u] \in {"lookup", "open", "fetch"}
  /\ About(u, NoDigest)
  /\ UserAt(u, "run")
  /\ UNCHANGED <<storeVars, entry, fresh, recency, deletedRows, recent>>

-----------------------------------------------------------------------------
(***************************************************************************)
(* Save, after the commands: upload, then commit.                          *)
(***************************************************************************)
CacheUpload(u) ==
  /\ user[u] = "run"
  /\ \E d \in Makes[u] : Put(d) /\ About(u, d)
  /\ UserAt(u, "commit")
  /\ UNCHANGED <<entry, fresh, recency, deletedRows, recent>>

\* CommitCache: a live row of the key stays as it is, whatever it says, even if
\* it has expired.
CommitCache(u) ==
  LET k == Saves[u]
  IN  /\ user[u] = "commit"
      /\ IF Live(k)
         THEN UNCHANGED <<entry, fresh, recency, recent>>
         ELSE /\ entry' = [entry EXCEPT ![k] = found[u]]
              /\ recent' = IF pass \in {"idle", "expired"} THEN {} ELSE recent \cup {k}
              /\ Used(k)
      /\ JobOver(u)
      /\ UNCHANGED <<storeVars, deletedRows>>

\* A failed or skipped save, or a job that fails.
EndWithoutSave(u) ==
  /\ user[u] \in {"run", "commit"}
  /\ JobOver(u)
  /\ UNCHANGED <<storeVars, entry, fresh, recency, deletedRows, recent>>

-----------------------------------------------------------------------------
(***************************************************************************)
(* The collector and the API.                                              *)
(***************************************************************************)

\* The rows of the keys K are marked deleted.
Delete(K) ==
  /\ entry' = [k \in Key |-> IF k \in K THEN NoDigest ELSE entry[k]]
  /\ fresh' = [k \in Key |-> IF k \in K THEN 0 ELSE fresh[k]]
  /\ recency' = Without(recency, K)
  /\ deletedRows' = deletedRows \cup {entry[k] : k \in {x \in K : Live(x)}}
  /\ recent' = recent \ K

DeleteCache(k) ==
  /\ Live(k)
  /\ Delete({k})
  /\ UNCHANGED <<storeVars, user, found>>

\* The size of the contents D together: as many bytes as there are places in them.
Bytes(D) == Cardinality(UNION {{d} \X (1 .. Size[d]) : d \in D})
KeysOf(D) == {k \in Key : entry[k] \in D}

stale == {k \in Key : Live(k) /\ fresh[k] = 0}
kept == Without(recency, stale)

\* The loop over the rows, least recently used first: a digest is evicted while
\* the rest is too large; a row whose digest is evicted already is passed over.
EvictAtLimit(acc, k) ==
  IF acc.total >= MaxBytes /\ entry[k] \notin acc.digests
  THEN [total |-> acc.total - Size[entry[k]], digests |-> acc.digests \cup {entry[k]}]
  ELSE acc
Evict(acc, k) ==
  IF acc.total > MaxBytes /\ entry[k] \notin acc.digests
  THEN [total |-> acc.total - Size[entry[k]], digests |-> acc.digests \cup {entry[k]}]
  ELSE acc
evicted ==
  LET after[i \in 0 .. Len(kept)] ==
        IF i = 0 THEN [total |-> Bytes({entry[k] : k \in Range(kept)}), digests |-> {}]
        ELSE Evict(after[i - 1], kept[i])
  IN  after[Len(kept)].digests

ExpireCache ==
  /\ BeginPass("expired")
  /\ Delete(stale \cup (KeysOf(evicted) \ stale))
  /\ UNCHANGED <<doomed, user, found>>

\* A query after the commit: every digest that ever had a row and has none.
unreferencedAny == deletedRows
unreferenced == {d \in deletedRows : ~InUse(d)}

unreferencedCacheBlobs ==
  /\ pass = "expired"
  /\ pass' = "remove"
  /\ doomed' = unreferenced
  /\ recent' = {}
  /\ UNCHANGED <<file, old, entry, fresh, recency, deletedRows, user, found>>

LiveCacheBlobs ==
  /\ CleanupOrphans({entry[k] : k \in {x \in Key : Usable(x)}})
  /\ recent' = {}
  /\ UNCHANGED <<entry, fresh, recency, deletedRows, user, found>>

CacheSweep ==
  /\ \/ RemoveBlob /\ UNCHANGED recent
     \/ EndPass /\ recent' = {}
  /\ UNCHANGED <<entry, fresh, recency, deletedRows, user, found>>

CacheGC == ExpireCache \/ unreferencedCacheBlobs \/ LiveCacheBlobs \/ CacheSweep

CacheTick ==
  /\ file' = Older
  /\ fresh' = [k \in Key |-> IF fresh[k] > 0 THEN fresh[k] - 1 ELSE 0]
  /\ UNCHANGED <<pass, doomed, old, entry, recency, deletedRows, user, found,
                 recent>>

CacheNext ==
  \/ \E u \in User : \/ \E remote \in BOOLEAN : Lookup(u, remote)
                     \/ Download(u) \/ Bypass(u) \/ CacheUpload(u) \/ CommitCache(u)
                     \/ EndWithoutSave(u)
  \/ \E k \in Key : DeleteCache(k)
  \/ CacheGC
  \/ CacheTick

-----------------------------------------------------------------------------
(***************************************************************************)
(* Properties.                                                             *)
(***************************************************************************)

\* A remote job looks a key up twice, and the entry may be evicted and saved
\* anew with other content in between: what it unpacks is what the first lookup
\* described.
HitIsWhatWasFound ==
  [][\A u \in User :
       user[u] \in {"open", "fetch"} /\ user'[u] = "run" => found'[u] \in {found[u], NoDigest}
    ]_<<storeVars, cacheVars>>

\* The place in the order of use of the first entry with digest d.
FirstUse(d) == CHOOSE i \in DOMAIN kept :
                 entry[kept[i]] = d /\ \A j \in DOMAIN kept : entry[kept[j]] = d => i <= j

\* After ExpireCache the cache is within its limit, and it gave up no more than
\* it had to: what is evicted did not fit together with the content that was
\* used after it, shared content counted once.
EvictionIsFrugal ==
  [][pass = "idle" /\ pass' = "expired" =>
       LET content == {entry[k] : k \in Range(kept)}
           remains == {entry'[k] : k \in {x \in Key : entry'[x] # NoDigest}}
       IN  /\ Bytes(remains) <= MaxBytes
           /\ \A d \in content \ remains :
                Bytes({e \in content : FirstUse(e) >= FirstUse(d)}) > MaxBytes
    ]_<<storeVars, cacheVars>>

\* As with artifacts: what the collector removes is in use only by entries that
\* were committed after it had read the table, or have expired.
CollectorSparesEntries ==
  [][\A d \in Digest : Present(d) /\ file'[d] = -1 =>
        \A k \in Key : entry[k] = d => k \in recent \/ fresh[k] = 0]_<<storeVars, cacheVars>>
=============================================================================
