---------------------------- MODULE LocalProofs ----------------------------
(***************************************************************************)
(* What one process keeps in memory.  How long a revoked key may still be  *)
(* accepted, for every number of keys and requests, every TTL and every    *)
(* bound on the cache; that an answer from the settlement files is what    *)
(* the directory says, for every number of files and queries and every     *)
(* content; what the two limits let through, for every number of tenants   *)
(* and requests and every setting; which rule sets a window and how old it *)
(* may be, for every set of rules in every order.                          *)
(***************************************************************************)
EXTENDS KeyCache, Rules, Settlement, Limits, DataLemmas

-----------------------------------------------------------------------------
(* KeyCache *)

Entry == [key : Key, until : Nat]
Lookup == [key : Key, at : Nat]

KeyTypeOK ==
  /\ now \in Nat
  /\ issued \subseteq Key
  /\ revoked \subseteq Lookup
  /\ trusted \subseteq Entry
  /\ looking \in [KeyRequest -> Lookup \cup {KeyIdle}]
  /\ accepted \in [KeyRequest -> Key \cup {NoKey}]

\* A row was usable when a request read it, and that is at most Latency ago.
ReadsAreRecent ==
  \A q \in KeyRequest : looking[q] # KeyIdle =>
    /\ looking[q].key \in issued
    /\ looking[q].at <= now
    /\ now <= looking[q].at + Latency
    /\ \A e \in revoked : e.key = looking[q].key => looking[q].at <= e.at

\* Trust in a revoked key ends a TTL and a verification after the revocation.
TrustEnds ==
  /\ \A f \in trusted : f.key \in issued /\ f.until <= now + KeyTTL
  /\ \A e \in revoked : e.at <= now
  /\ \A f \in trusted, e \in revoked : e.key = f.key => f.until <= e.at + KeyTTL + Latency

KeyInv == KeyTypeOK /\ ReadsAreRecent /\ TrustEnds /\ RevocationTakesEffect

\* A new cache trusts nobody.
LEMMA KeyInvInit == now = 0 /\ KeyInit => KeyInv
BY DEF KeyInit, KeyInv, KeyTypeOK, ReadsAreRecent, TrustEnds, RevocationTakesEffect

\* Hits, lookups, verifications, revocations and time keep the bound.
LEMMA KeyInvStep == KeyInv /\ [KeyNext]_<<now, keyVars>> => KeyInv'
<1> SUFFICES ASSUME KeyInv, [KeyNext]_<<now, keyVars>> PROVE KeyInv'
  OBVIOUS
<1> USE KeyCacheAssumption, ClockAssumption DEF KeyInv
<1>1. ASSUME NEW q \in KeyRequest, StoreKey(q) PROVE KeyInv'
  <2> DEFINE k == looking[q].key
             e == [key |-> k, until |-> now + KeyTTL]
  <2>1. looking[q] # KeyIdle /\ k \in Key /\ k \in issued /\ e \in Entry
    BY <1>1 DEF StoreKey, KeyTypeOK, ReadsAreRecent, Entry, Lookup
  <2>2. trusted' \subseteq trusted \cup {e}
    BY <1>1 DEF StoreKey
  <2>3. \A x \in revoked : x.key = k => now <= x.at + Latency
    BY <2>1 DEF ReadsAreRecent, KeyTypeOK, Lookup
  <2>4. /\ looking' = [looking EXCEPT ![q] = KeyIdle]
        /\ accepted' = [accepted EXCEPT ![q] = k]
        /\ UNCHANGED <<issued, revoked, now>>
    BY <1>1 DEF StoreKey, Accept
  <2>5. KeyTypeOK'
    BY <2>1, <2>2, <2>4 DEF KeyTypeOK
  <2>6. ReadsAreRecent'
    BY <2>4 DEF ReadsAreRecent, KeyTypeOK
  <2>7. TrustEnds'
    BY <2>1, <2>2, <2>3, <2>4 DEF TrustEnds, KeyTypeOK, Entry, Lookup
  <2>8. RevocationTakesEffect'
    BY <2>1, <2>3, <2>4 DEF RevocationTakesEffect, KeyTypeOK, Lookup
  <2> QED BY <2>5, <2>6, <2>7, <2>8
<1>2. ASSUME NEW q \in KeyRequest, NEW k \in Key, FromCache(q, k) PROVE KeyInv'
  <2>1. PICK f \in trusted : f.key = k /\ now <= f.until
    BY <1>2 DEF FromCache
  <2>2. /\ accepted' = [accepted EXCEPT ![q] = k]
        /\ UNCHANGED <<issued, revoked, trusted, looking, now>>
    BY <1>2 DEF FromCache, Accept
  <2>3. KeyTypeOK' /\ ReadsAreRecent' /\ TrustEnds'
    BY <2>2 DEF KeyTypeOK, ReadsAreRecent, TrustEnds
  <2>4. RevocationTakesEffect'
    BY <2>1, <2>2 DEF RevocationTakesEffect, KeyTypeOK, TrustEnds, Entry, Lookup
  <2> QED BY <2>3, <2>4
<1>3. ASSUME NEW q \in KeyRequest, NEW k \in Key, LookupKey(q, k) PROVE KeyInv'
  <2>1. /\ accepted' = [accepted EXCEPT ![q] = NoKey]
        /\ UNCHANGED <<issued, revoked, trusted, now>>
    BY <1>3 DEF LookupKey, Accept
  <2>2. CASE Usable(k)
    <3>1. looking' = [looking EXCEPT ![q] = [key |-> k, at |-> now]]
      BY <1>3, <2>2 DEF LookupKey
    <3>2. KeyTypeOK'
      BY <2>1, <3>1 DEF KeyTypeOK, Lookup
    <3>3. ReadsAreRecent'
      BY <2>1, <2>2, <3>1 DEF ReadsAreRecent, KeyTypeOK, Usable
    <3>4. TrustEnds' /\ RevocationTakesEffect'
      BY <2>1 DEF TrustEnds, RevocationTakesEffect, KeyTypeOK
    <3> QED BY <3>2, <3>3, <3>4
  <2>3. CASE ~Usable(k)
    <3>1. UNCHANGED looking
      BY <1>3, <2>3 DEF LookupKey
    <3> QED BY <2>1, <3>1 DEF KeyTypeOK, ReadsAreRecent, TrustEnds, RevocationTakesEffect
  <2> QED BY <2>2, <2>3
<1>4. ASSUME NEW k \in Key, CreateAPIKey(k) PROVE KeyInv'
  BY <1>4 DEF CreateAPIKey, KeyTypeOK, ReadsAreRecent, TrustEnds, RevocationTakesEffect
<1>5. ASSUME NEW k \in Key, RevokeAPIKey(k) PROVE KeyInv'
  <2>1. /\ revoked' = revoked \cup {[key |-> k, at |-> now]}
        /\ UNCHANGED <<issued, trusted, looking, accepted, now>>
    BY <1>5 DEF RevokeAPIKey
  <2>2. KeyTypeOK'
    BY <2>1 DEF KeyTypeOK, Lookup
  <2>3. ReadsAreRecent'
    BY <2>1 DEF ReadsAreRecent
  <2>4. TrustEnds'
    BY <2>1 DEF TrustEnds, KeyTypeOK, Entry, Lookup
  <2>5. RevocationTakesEffect'
    BY <2>1 DEF RevocationTakesEffect, KeyTypeOK
  <2> QED BY <2>2, <2>3, <2>4, <2>5
<1>6. CASE KeyTick
  <2>1. /\ now' = now + 1
        /\ accepted' = [q \in KeyRequest |-> NoKey]
        /\ UNCHANGED <<issued, revoked, trusted, looking>>
        /\ \A q \in KeyRequest : looking[q] # KeyIdle => now < looking[q].at + Latency
    BY <1>6 DEF KeyTick, Tick
  <2>2. KeyTypeOK' /\ RevocationTakesEffect'
    BY <2>1 DEF KeyTypeOK, RevocationTakesEffect
  <2>3. ReadsAreRecent'
    BY <2>1 DEF ReadsAreRecent, KeyTypeOK, Lookup
  <2>4. TrustEnds'
    BY <2>1 DEF TrustEnds, KeyTypeOK, Entry, Lookup
  <2> QED BY <2>2, <2>3, <2>4
<1>7. CASE UNCHANGED <<now, keyVars>>
  BY <1>7 DEF keyVars, KeyTypeOK, ReadsAreRecent, TrustEnds, RevocationTakesEffect
<1> QED
  BY <1>1, <1>2, <1>3, <1>4, <1>5, <1>6, <1>7 DEF KeyNext

\* A revoked key is accepted no longer than the cache's TTL and the verification
\* that was under way at the revocation allow, whatever the traffic.
THEOREM RevocationBound == KeySpec => []RevocationTakesEffect
<1>1. KeyInv => RevocationTakesEffect
  BY DEF KeyInv
<1> QED BY <1>1, KeyInvInit, KeyInvStep, PTL DEF KeySpec

-----------------------------------------------------------------------------
(* Settlement *)

\* What a query or the provider may hold about the files it knows.
Maps(V) == UNION {[S -> V] : S \in SUBSET Path}
File == [mtime : Nat, rows : Content]

FileQuery == [at : {"rest", "changed", "glob", "lock", "stat", "parse", "answer"},
              paths : SUBSET Path, files : Maps(Content), stamps : Maps(Nat),
              since : Nat, alone : BOOLEAN]

FileTypeOK ==
  /\ now \in Nat /\ writes \in Nat
  /\ wroteAt \in 0..now
  /\ checked \in (0..now) \cup {Never}
  /\ disk \in Maps(File)
  /\ parsed \in Maps(Content)
  /\ loaded \in Maps(Nat)
  /\ query \in [Querier -> FileQuery]

\* A query under way began at most Latency ago; one that says it is alone is.
UnderWay ==
  \A q \in Querier : query[q].at # "rest" =>
    /\ query[q].since <= now
    /\ now <= query[q].since + Latency
    /\ query[q].alone => \A p \in Querier \ {q} : query[p].at = "rest"

Reads(r) == r.at \in {"lock", "stat", "parse"}

\* What was read of a file that still has the stamp it was read with is what is in it.
Known(files, stamps) ==
  /\ \A p \in DOMAIN stamps : stamps[p] <= writes
  /\ \A p \in DOMAIN files \cap DOMAIN disk :
       stamps[p] = disk[p].mtime => files[p] = disk[p].rows

\* Of the file it is about to parse, a reload has the stamp alone.
Stamped(r) ==
  /\ r.paths \cap DOMAIN r.files = {}
  /\ r.at = "parse" => r.paths # {}
  /\ DOMAIN r.stamps = DOMAIN r.files \cup IF r.at = "parse" THEN {Min(r.paths)} ELSE {}
  /\ Known(r.files, r.stamps)

StampsMatch ==
  /\ \A p \in DOMAIN disk : disk[p].mtime <= writes
  /\ DOMAIN loaded = DOMAIN parsed /\ Known(parsed, loaded)
  /\ \A q \in Querier : Reads(query[q]) => Stamped(query[q])

\* A reload that began after the last write reads what is on the disk.
OfDisk(r) ==
  r.since > wroteAt =>
    /\ DOMAIN disk = r.paths \cup DOMAIN r.files
    /\ \A p \in DOMAIN r.files : r.files[p] = disk[p].rows

ReadsDisk == \A q \in Querier : Reads(query[q]) => OfDisk(query[q])

WellFormed == \A p \in DOMAIN disk : disk[p].rows # Malformed

Finding(r) == r.at \in {"changed", "glob", "lock", "stat", "parse"}

\* Once the directory was checked after every reload that began before the last
\* write, the files are known, or the query that found out is about to read them.
Refreshed ==
  WellFormed /\ checked # Never /\ checked > wroteAt + Latency =>
    \/ parsed = OnDisk
    \/ \E q \in Querier : query[q].since >= checked /\ Finding(query[q])

\* A query whose answer is bound to be the directory's knows the files.
Bound(r) ==
  r.alone /\ r.since > wroteAt /\ r.since >= wroteAt + Refresh + Latency /\ WellFormed

AnswerKnows ==
  \A q \in Querier : query[q].at = "answer" /\ Bound(query[q]) => parsed = OnDisk

FileInv == /\ FileTypeOK /\ UnderWay /\ StampsMatch /\ ReadsDisk
           /\ Refreshed /\ AnswerKnows /\ AnswersFromDisk

\* What is in Maps: functions on some of the paths.
LEMMA MapIs ==
  ASSUME NEW V, NEW f
  PROVE  f \in Maps(V) <=> DOMAIN f \subseteq Path /\ f \in [DOMAIN f -> V]
BY DEF Maps

\* A file more is one path more.
LEMMA WithIs ==
  ASSUME NEW V, NEW f \in Maps(V), NEW p \in Path, NEW v \in V
  PROVE  /\ With(f, p, v) \in Maps(V)
         /\ DOMAIN With(f, p, v) = DOMAIN f \cup {p}
         /\ With(f, p, v)[p] = v
         /\ \A x \in DOMAIN f : x # p => With(f, p, v)[x] = f[x]
<1> DEFINE g == With(f, p, v)
<1>1. DOMAIN f \subseteq Path /\ f \in [DOMAIN f -> V]
  BY MapIs
<1>2. g = [x \in DOMAIN f \cup {p} |-> IF x = p THEN v ELSE f[x]]
  BY DEF With
<1>3. DOMAIN g = DOMAIN f \cup {p}
  BY <1>2
<1>4. g \in [DOMAIN g -> V] /\ DOMAIN g \subseteq Path
  BY <1>1, <1>2
<1>5. g \in Maps(V)
  BY <1>4, MapIs
<1> QED BY <1>2, <1>3, <1>5

\* The next path to read is one of those left.
LEMMA FirstPath ==
  ASSUME NEW S \in SUBSET Path, S # {}
  PROVE  Min(S) \in S
<1>1. S \in SUBSET Nat
  BY SettlementAssumption
<1>2. PICK m \in S : \A k \in S : m <= k
  BY <1>1, LeastNat
<1> QED BY <1>2 DEF Min

\* Nothing has been read where no file is.
LEMMA NoFilesIs ==
  ASSUME NEW V
  PROVE  NoFiles \in Maps(V) /\ DOMAIN NoFiles = {}
<1>1. DOMAIN NoFiles = {}
  BY DEF NoFiles
<1>2. NoFiles \in [{} -> V]
  BY DEF NoFiles
<1> QED BY <1>1, <1>2, MapIs

\* Two functions on the same paths are one where they agree.
LEMMA SameFiles ==
  ASSUME NEW f \in Maps(Content), disk \in Maps(File), DOMAIN f = DOMAIN disk,
         \A p \in DOMAIN f : f[p] = disk[p].rows
  PROVE  f = OnDisk
<1>1. f \in [DOMAIN f -> Content]
  BY MapIs
<1>2. f = [p \in DOMAIN f |-> f[p]]
  BY <1>1
<1> QED BY <1>2 DEF OnDisk

\* What a query at rest holds.
LEMMA RestIs ==
  /\ AtRest \in FileQuery
  /\ AtRest.at = "rest" /\ AtRest.alone /\ AtRest.paths = {} /\ AtRest.since = 0
  /\ AtRest.files = NoFiles /\ AtRest.stamps = NoFiles
BY NoFilesIs DEF AtRest, FileQuery

\* A new provider knows an empty directory.
LEMMA FileInvInit == now = 0 /\ FileInit => FileInv
<1> SUFFICES ASSUME now = 0, FileInit PROVE FileInv
  OBVIOUS
<1> USE ClockAssumption, SettlementAssumption
<1>1. /\ disk = NoFiles /\ parsed = NoFiles /\ loaded = NoFiles /\ checked = Never
      /\ writes = 0 /\ wroteAt = 0 /\ answer = NoAnswer
      /\ query = [q \in Querier |-> AtRest]
  BY DEF FileInit
<1>2. FileTypeOK
  BY <1>1, RestIs, NoFilesIs DEF FileTypeOK
<1>3. \A q \in Querier : query[q].at = "rest"
  BY <1>1, RestIs
<1>4. UnderWay /\ ReadsDisk /\ Refreshed /\ AnswerKnows
  BY <1>1, <1>3 DEF UnderWay, ReadsDisk, Refreshed, AnswerKnows, Reads
<1>5. StampsMatch
  BY <1>1, <1>3, NoFilesIs DEF StampsMatch, Known, Reads
<1>6. AnswersFromDisk
  BY <1>1 DEF AnswersFromDisk, NoAnswer
<1> QED BY <1>2, <1>4, <1>5, <1>6 DEF FileInv

\* A query's steps before its answer: what it holds changes, and nothing else.
LEMMA QueryMoves ==
  ASSUME FileInv, NEW q \in Querier, NEW r \in FileQuery,
         query[q].at # "rest",
         r.since = query[q].since, r.alone = query[q].alone,
         query' = [query EXCEPT ![q] = r],
         UNCHANGED <<disk, parsed, loaded, checked, writes, wroteAt, now>>, Unanswered,
         Reads(r) => Stamped(r) /\ OfDisk(r),
         \/ r.at \in {"glob", "lock", "stat", "parse"}
         \/ r.at = "answer" /\ parsed = OnDisk
  PROVE  FileInv'
<1> USE ClockAssumption, SettlementAssumption
<1>1. /\ disk' = disk /\ parsed' = parsed /\ loaded' = loaded /\ checked' = checked
      /\ writes' = writes /\ wroteAt' = wroteAt /\ now' = now /\ answer' = NoAnswer
  BY DEF Unanswered
<1>2. FileTypeOK
  BY DEF FileInv
<1>3. \A p \in Querier : query'[p] = IF p = q THEN r ELSE query[p]
  BY <1>2 DEF FileTypeOK
<1>4. FileTypeOK'
  BY <1>1, <1>2 DEF FileTypeOK, Never
<1>5. UnderWay'
  <2>1. UnderWay
    BY DEF FileInv
  <2> QED BY <2>1, <1>1, <1>3 DEF UnderWay
<1>6. StampsMatch'
  <2>1. StampsMatch
    BY DEF FileInv
  <2> QED BY <2>1, <1>1, <1>3 DEF StampsMatch, Known, Stamped
<1>7. ReadsDisk'
  <2>1. ReadsDisk
    BY DEF FileInv
  <2>2. \A x : OfDisk(x)' = OfDisk(x) /\ Reads(x)' = Reads(x)
    BY <1>1 DEF OfDisk, Reads
  <2> QED BY <2>1, <2>2, <1>3 DEF ReadsDisk
<1>8. Refreshed'
  <2>1. Refreshed
    BY DEF FileInv
  <2>2. OnDisk' = OnDisk /\ WellFormed' = WellFormed /\ Never' = Never
    BY <1>1 DEF OnDisk, WellFormed, Never
  <2>3. parsed = OnDisk \/ Finding(r)
    BY DEF Finding
  <2> QED BY <2>1, <2>2, <2>3, <1>1, <1>3 DEF Refreshed
<1>9. AnswerKnows'
  <2>1. AnswerKnows
    BY DEF FileInv
  <2>2. OnDisk' = OnDisk /\ WellFormed' = WellFormed
    BY <1>1 DEF OnDisk, WellFormed
  <2> QED BY <2>1, <2>2, <1>1, <1>3 DEF AnswerKnows, Bound
<1>10. AnswersFromDisk'
  BY <1>1 DEF AnswersFromDisk, NoAnswer
<1> QED BY <1>4, <1>5, <1>6, <1>7, <1>8, <1>9, <1>10 DEF FileInv

\* A query that ends, with an answer where it is due.
LEMMA QueryEnds ==
  ASSUME FileInv, NEW q \in Querier, NEW ref, NEW outcome, Give(q, ref, outcome),
         query[q].at # "rest",
         UNCHANGED <<disk, parsed, loaded, checked, writes, wroteAt, now>>,
         query[q].at = "answer" \/ ~(WellFormed /\ query[q].since > wroteAt),
         Bound(query[q]) => outcome = Outcome(OnDisk, ref, now)
  PROVE  FileInv'
<1> USE ClockAssumption, SettlementAssumption
<1>1. /\ disk' = disk /\ parsed' = parsed /\ loaded' = loaded /\ checked' = checked
      /\ writes' = writes /\ wroteAt' = wroteAt /\ now' = now
      /\ query' = [query EXCEPT ![q] = AtRest]
      /\ answer' = [ref |-> ref, outcome |-> outcome,
                    since |-> query[q].since, alone |-> query[q].alone]
  BY DEF Give
<1>2. FileTypeOK
  BY DEF FileInv
<1>3. \A p \in Querier : query'[p] = IF p = q THEN AtRest ELSE query[p]
  BY <1>1, <1>2 DEF FileTypeOK
<1>4. FileTypeOK'
  BY <1>1, <1>2, RestIs DEF FileTypeOK, Never
<1>5. UnderWay'
  <2>1. UnderWay
    BY DEF FileInv
  <2> QED BY <2>1, <1>1, <1>3, RestIs DEF UnderWay
<1>6. StampsMatch'
  <2>1. StampsMatch
    BY DEF FileInv
  <2> QED BY <2>1, <1>1, <1>3, RestIs DEF StampsMatch, Known, Stamped, Reads
<1>7. ReadsDisk'
  <2>1. ReadsDisk
    BY DEF FileInv
  <2>2. ASSUME NEW p \in Querier, Reads(query[p])' PROVE OfDisk(query[p])'
    <3>1. p # q /\ Reads(query[p]) /\ query'[p] = query[p]
      BY <1>3, <2>2, RestIs DEF Reads
    <3>2. OfDisk(query[p])
      BY <2>1, <3>1 DEF ReadsDisk
    <3> QED BY <1>1, <3>1, <3>2 DEF OfDisk
  <2> QED BY <2>2 DEF ReadsDisk
<1>11. OnDisk' = OnDisk /\ WellFormed' = WellFormed /\ Never' = Never
  BY <1>1 DEF OnDisk, WellFormed, Never
<1>8. Refreshed'
  <2> SUFFICES ASSUME WellFormed, checked # Never, checked > wroteAt + Latency, parsed # OnDisk
               PROVE  \E p \in Querier : query'[p].since >= checked /\ Finding(query'[p])
    BY <1>1, <1>11 DEF Refreshed
  <2>1. PICK p \in Querier : query[p].since >= checked /\ Finding(query[p])
    BY DEF FileInv, Refreshed
  <2>2. query[p].since > wroteAt
    BY <2>1, <1>2 DEF FileTypeOK, FileQuery
  <2>3. p # q
    BY <2>1, <2>2 DEF Finding
  <2> QED BY <2>1, <2>3, <1>3
<1>9. AnswerKnows'
  <2>1. AnswerKnows
    BY DEF FileInv
  <2> QED BY <2>1, <1>11, <1>1, <1>3, RestIs DEF AnswerKnows, Bound
<1>10. AnswersFromDisk'
  <2>1. Outcome(OnDisk, ref, now)' = Outcome(OnDisk, ref, now)
    BY <1>1 DEF Outcome, Absent, OnDisk
  <2> HIDE DEF Outcome
  <2>2. Bound(query[q]) => outcome = Outcome(OnDisk, ref, now)'
    BY <2>1
  <2> QED BY <2>2, <1>1 DEF AnswersFromDisk, Bound, WellFormed
<1> QED BY <1>4, <1>5, <1>6, <1>7, <1>8, <1>9, <1>10 DEF FileInv

\* A query starts: it checks the directory when that is due, or it answers.
LEMMA StartKeeps ==
  ASSUME FileInv, NEW q \in Querier, StartQuery(q)
  PROVE  FileInv'
<1> USE ClockAssumption, SettlementAssumption
<1> DEFINE due == checked = Never \/ now >= checked + Refresh
           alone == \A p \in Querier \ {q} : query[p].at = "rest"
           r == [AtRest EXCEPT !.at = IF due THEN "changed" ELSE "answer",
                               !.since = now, !.alone = alone]
<1>1. /\ disk' = disk /\ parsed' = parsed /\ loaded' = loaded
      /\ writes' = writes /\ wroteAt' = wroteAt /\ now' = now /\ answer' = NoAnswer
      /\ checked' = IF due THEN now ELSE checked
      /\ query[q].at = "rest"
  BY DEF StartQuery, Unanswered
<1>2. FileTypeOK
  BY DEF FileInv
<1>3. query' = [p \in Querier |->
         IF p = q THEN r ELSE IF query[p].at = "rest" THEN AtRest
         ELSE [query[p] EXCEPT !.alone = FALSE]]
  BY DEF StartQuery
<1>4. /\ r \in FileQuery /\ r.at = (IF due THEN "changed" ELSE "answer")
      /\ r.since = now /\ r.alone = alone
      /\ r.alone => \A p \in Querier \ {q} : query[p].at = "rest"
  BY <1>2, RestIs DEF FileTypeOK, FileQuery
<1>5. query'[q] = r
  BY <1>3
<1>6. ASSUME NEW p \in Querier \ {q}
      PROVE  /\ query'[p] \in FileQuery
             /\ query'[p].at = query[p].at /\ query'[p].since \in {0, query[p].since}
             /\ query[p].at # "rest" =>
                  /\ query'[p].since = query[p].since /\ ~query'[p].alone
                  /\ query'[p].paths = query[p].paths /\ query'[p].files = query[p].files
                  /\ query'[p].stamps = query[p].stamps
  <2>1. query[p] \in FileQuery
    BY <1>2 DEF FileTypeOK
  <2>2. query'[p] = IF query[p].at = "rest" THEN AtRest ELSE [query[p] EXCEPT !.alone = FALSE]
    BY <1>3
  <2> QED BY <2>1, <2>2, RestIs DEF FileQuery
<1> HIDE DEF r, due
<1>7. FileTypeOK'
  <2>1. query' \in [Querier -> FileQuery]
    BY <1>3, <1>4, <1>5, <1>6
  <2> QED BY <1>1, <1>2, <2>1 DEF FileTypeOK, Never
<1>8. UnderWay'
  <2>1. UnderWay
    BY DEF FileInv
  <2>2. now \in Nat /\ Latency \in Nat
    BY <1>2 DEF FileTypeOK
  <2> SUFFICES ASSUME NEW p \in Querier, query'[p].at # "rest"
               PROVE  /\ query'[p].since <= now /\ now <= query'[p].since + Latency
                      /\ query'[p].alone => \A o \in Querier \ {p} : query'[o].at = "rest"
    BY <1>1 DEF UnderWay
  <2>3. CASE p = q
    <3>1. query'[p].since = now
      BY <2>3, <1>4, <1>5
    <3>2. query'[p].alone => \A o \in Querier \ {p} : query[o].at = "rest"
      BY <2>3, <1>4, <1>5
    <3>3. \A o \in Querier \ {p} : query'[o].at = query[o].at
      BY <2>3, <1>6
    <3> QED BY <2>2, <3>1, <3>2, <3>3
  <2>4. CASE p # q
    BY <2>1, <2>4, <1>6 DEF UnderWay
  <2> QED BY <2>3, <2>4
<1>9. StampsMatch' /\ ReadsDisk'
  <2>1. StampsMatch /\ ReadsDisk
    BY DEF FileInv
  <2>2. ASSUME NEW p \in Querier, Reads(query[p])'
        PROVE  Stamped(query[p])' /\ OfDisk(query[p])'
    <3>1. p # q
      BY <2>2, <1>4, <1>5 DEF Reads
    <3>2. Reads(query[p])
      BY <2>2, <3>1, <1>6 DEF Reads
    <3>3. Stamped(query[p]) /\ OfDisk(query[p]) /\ query[p].at # "rest"
      BY <3>2, <2>1 DEF StampsMatch, ReadsDisk, Reads
    <3>4. Stamped(query[p])' /\ OfDisk(query[p])'
      BY <3>1, <3>3, <1>1, <1>6 DEF Stamped, OfDisk, Known
    <3> QED BY <3>4
  <2>4. Known(parsed, loaded)' /\ DOMAIN loaded' = DOMAIN parsed'
        /\ \A p \in DOMAIN disk' : disk'[p].mtime <= writes'
    BY <2>1, <1>1 DEF StampsMatch, Known
  <2> QED BY <2>2, <2>4 DEF StampsMatch, ReadsDisk
<1>10. OnDisk' = OnDisk /\ WellFormed' = WellFormed /\ Never' = Never
  BY <1>1 DEF OnDisk, WellFormed, Never
<1>11. Refreshed'
  <2>1. CASE due
    <3>1. query'[q].since >= checked' /\ Finding(query'[q])
      BY <2>1, <1>1, <1>2, <1>4, <1>5 DEF Finding, FileTypeOK
    <3> QED BY <3>1 DEF Refreshed, Finding
  <2>2. CASE ~due
    <3> SUFFICES ASSUME WellFormed, checked # Never, checked > wroteAt + Latency, parsed # OnDisk
                 PROVE  \E p \in Querier : query'[p].since >= checked /\ Finding(query'[p])
      BY <2>2, <1>1, <1>10 DEF Refreshed, Finding
    <3>1. PICK p \in Querier : query[p].since >= checked /\ Finding(query[p])
      BY DEF FileInv, Refreshed
    <3>2. p # q /\ query[p].at # "rest"
      BY <3>1, <1>1 DEF Finding
    <3> QED BY <3>1, <3>2, <1>6 DEF Finding
  <2> QED BY <2>1, <2>2
<1>12. AnswerKnows'
  <2> SUFFICES ASSUME NEW p \in Querier, query'[p].at = "answer", query'[p].alone,
                      query'[p].since > wroteAt, query'[p].since >= wroteAt + Refresh + Latency,
                      WellFormed
               PROVE  parsed = OnDisk
    BY <1>1, <1>10 DEF AnswerKnows, Bound
  <2>1. p = q
    BY <1>6
  <2>2. ~due /\ now >= wroteAt + Refresh + Latency /\ alone
    BY <2>1, <1>4, <1>5
  <2>3. checked # Never /\ checked > wroteAt + Latency
    BY <2>2, <1>2 DEF due, FileTypeOK
  <2>4. \A o \in Querier : query[o].at = "rest"
    BY <2>2, <1>1
  <2> QED BY <2>3, <2>4 DEF FileInv, Refreshed, Finding
<1>13. AnswersFromDisk'
  BY <1>1 DEF AnswersFromDisk, NoAnswer
<1> QED BY <1>7, <1>8, <1>9, <1>11, <1>12, <1>13 DEF FileInv

\* A check that finds every stamp unchanged has found the files unchanged.
LEMMA ChangedKeeps ==
  ASSUME FileInv, NEW q \in Querier, Changed(q)
  PROVE  FileInv'
<1> DEFINE same == /\ DOMAIN disk = DOMAIN loaded
                   /\ \A p \in DOMAIN loaded : disk[p].mtime = loaded[p]
<1>1. /\ query[q].at = "changed"
      /\ UNCHANGED <<disk, parsed, loaded, checked, writes, wroteAt, now>> /\ Unanswered
      /\ query' = [query EXCEPT ![q].at = IF same THEN "answer" ELSE "glob"]
  BY DEF Changed, Go
<1>2. FileTypeOK /\ query[q] \in FileQuery /\ query \in [Querier -> FileQuery]
  BY DEF FileInv, FileTypeOK
<1>3. PICK r : r = [query[q] EXCEPT !.at = IF same THEN "answer" ELSE "glob"]
  OBVIOUS
<1>4. query' = [query EXCEPT ![q] = r]
  BY <1>1, <1>2, <1>3
<1>5. /\ r \in FileQuery /\ r.since = query[q].since /\ r.alone = query[q].alone
      /\ r.at = IF same THEN "answer" ELSE "glob"
  BY <1>2, <1>3 DEF FileQuery
<1>6. ASSUME same PROVE parsed = OnDisk
  <2>1. parsed \in Maps(Content) /\ disk \in Maps(File)
    BY <1>2 DEF FileTypeOK
  <2>2. DOMAIN parsed = DOMAIN disk /\ \A p \in DOMAIN parsed : parsed[p] = disk[p].rows
    BY <1>6 DEF FileInv, StampsMatch, Known
  <2> QED BY <2>1, <2>2, SameFiles
<1>7. ~Reads(r)
  BY <1>5 DEF Reads
<1>8. r.at \in {"glob", "lock", "stat", "parse"} \/ (r.at = "answer" /\ parsed = OnDisk)
  BY <1>5, <1>6
<1>9. query[q].at # "rest"
  BY <1>1
<1> HIDE DEF same
<1> QED BY <1>1, <1>4, <1>5, <1>7, <1>8, <1>9, QueryMoves

\* The listing is of the directory as it is.
LEMMA GlobKeeps ==
  ASSUME FileInv, NEW q \in Querier, ReloadGlob(q)
  PROVE  FileInv'
<1>1. /\ query[q].at = "glob"
      /\ UNCHANGED <<disk, parsed, loaded, checked, writes, wroteAt, now>> /\ Unanswered
      /\ query' = [query EXCEPT ![q].at = "lock", ![q].paths = DOMAIN disk,
                                ![q].files = NoFiles, ![q].stamps = NoFiles]
  BY DEF ReloadGlob
<1>2. FileTypeOK /\ query[q] \in FileQuery /\ query \in [Querier -> FileQuery]
  BY DEF FileInv, FileTypeOK
<1>3. PICK r : r = [query[q] EXCEPT !.at = "lock", !.paths = DOMAIN disk,
                                    !.files = NoFiles, !.stamps = NoFiles]
  OBVIOUS
<1>4. query' = [query EXCEPT ![q] = r]
  BY <1>1, <1>2, <1>3
<1>5. DOMAIN disk \in SUBSET Path
  BY <1>2, MapIs DEF FileTypeOK
<1>6. /\ r \in FileQuery /\ r.since = query[q].since /\ r.alone = query[q].alone
      /\ r.at = "lock" /\ r.paths = DOMAIN disk /\ r.files = NoFiles /\ r.stamps = NoFiles
  BY <1>2, <1>3, <1>5, NoFilesIs DEF FileQuery
<1>7. Stamped(r) /\ OfDisk(r)
  BY <1>6, NoFilesIs DEF Stamped, OfDisk, Known
<1>9. query[q].at # "rest"
  BY <1>1
<1> QED BY <1>1, <1>4, <1>6, <1>7, <1>9, QueryMoves

\* Waiting for the lock changes nothing of what is read.
LEMMA LockKeeps ==
  ASSUME FileInv, NEW q \in Querier, ReloadLock(q)
  PROVE  FileInv'
<1>1. /\ query[q].at = "lock"
      /\ UNCHANGED <<disk, parsed, loaded, checked, writes, wroteAt, now>> /\ Unanswered
      /\ query' = [query EXCEPT ![q].at = "stat"]
  BY DEF ReloadLock, Go
<1>2. FileTypeOK /\ query[q] \in FileQuery /\ query \in [Querier -> FileQuery]
  BY DEF FileInv, FileTypeOK
<1>3. PICK r : r = [query[q] EXCEPT !.at = "stat"]
  OBVIOUS
<1>4. query' = [query EXCEPT ![q] = r]
  BY <1>1, <1>2, <1>3
<1>5. /\ r \in FileQuery /\ r.since = query[q].since /\ r.alone = query[q].alone
      /\ r.at = "stat" /\ r.paths = query[q].paths
      /\ r.files = query[q].files /\ r.stamps = query[q].stamps
  BY <1>2, <1>3 DEF FileQuery
<1>6. Stamped(query[q]) /\ OfDisk(query[q])
  BY <1>1 DEF FileInv, StampsMatch, ReadsDisk, Reads
<1>7. Stamped(r) /\ OfDisk(r)
  BY <1>1, <1>5, <1>6 DEF Stamped, OfDisk
<1>9. query[q].at # "rest"
  BY <1>1
<1> QED BY <1>1, <1>4, <1>5, <1>7, <1>9, QueryMoves

\* What a reload has read replaces what was known.
LEMMA ReloadEnds ==
  ASSUME FileInv, NEW q \in Querier, query[q].at = "stat", query[q].paths = {},
         query' = [query EXCEPT ![q].at = "answer"],
         parsed' = query[q].files, loaded' = query[q].stamps,
         UNCHANGED <<disk, checked, writes, wroteAt, now>>, Unanswered
  PROVE  FileInv'
<1> USE ClockAssumption, SettlementAssumption
<1>1. /\ disk' = disk /\ checked' = checked /\ writes' = writes /\ wroteAt' = wroteAt
      /\ now' = now /\ answer' = NoAnswer
  BY DEF Unanswered
<1>2. FileTypeOK /\ UnderWay /\ StampsMatch /\ ReadsDisk /\ Refreshed /\ AnswerKnows
  BY DEF FileInv
<1>3. query[q] \in FileQuery /\ query \in [Querier -> FileQuery]
  BY <1>2 DEF FileTypeOK
<1>4. PICK r : r = [query[q] EXCEPT !.at = "answer"]
  OBVIOUS
<1>5. \A p \in Querier : query'[p] = IF p = q THEN r ELSE query[p]
  BY <1>3, <1>4
<1>6. /\ r \in FileQuery /\ r.at = "answer" /\ r.since = query[q].since
      /\ r.alone = query[q].alone
  BY <1>3, <1>4 DEF FileQuery
<1>7. Stamped(query[q]) /\ OfDisk(query[q])
  BY <1>2 DEF StampsMatch, ReadsDisk, Reads
<1>8. parsed' \in Maps(Content) /\ loaded' \in Maps(Nat)
  BY <1>3 DEF FileQuery
<1>9. FileTypeOK'
  <2>1. query' \in [Querier -> FileQuery]
    BY <1>3, <1>4, <1>6
  <2> QED BY <1>1, <1>2, <1>8, <2>1 DEF FileTypeOK, Never
<1>10. UnderWay'
  BY <1>1, <1>2, <1>5, <1>6 DEF UnderWay
<1>11. StampsMatch'
  <2>1. DOMAIN loaded' = DOMAIN parsed' /\ Known(query[q].files, query[q].stamps)
    BY <1>7 DEF Stamped
  <2>2. Known(parsed, loaded)'
    BY <1>1, <2>1 DEF Known
  <2>3. \A p \in Querier : Reads(query'[p]) => p # q /\ Reads(query[p])
    BY <1>5, <1>6 DEF Reads
  <2>4. ASSUME NEW p \in Querier, Reads(query[p])' PROVE Stamped(query[p])'
    <3>1. p # q /\ Reads(query[p]) /\ query'[p] = query[p]
      BY <1>5, <1>6, <2>4 DEF Reads
    <3>2. Stamped(query[p])
      BY <1>2, <3>1 DEF StampsMatch
    <3> QED BY <1>1, <3>1, <3>2 DEF Stamped, Known
  <2> QED BY <1>1, <1>2, <2>1, <2>2, <2>4 DEF StampsMatch
<1>12. ReadsDisk'
  <2>1. ASSUME NEW p \in Querier, Reads(query[p])' PROVE OfDisk(query[p])'
    <3>1. p # q /\ Reads(query[p]) /\ query'[p] = query[p]
      BY <1>5, <1>6, <2>1 DEF Reads
    <3>2. OfDisk(query[p])
      BY <1>2, <3>1 DEF ReadsDisk
    <3> QED BY <1>1, <3>1, <3>2 DEF OfDisk
  <2> QED BY <2>1 DEF ReadsDisk
<1>13. query[q].since > wroteAt => parsed' = OnDisk
  <2>1. SUFFICES ASSUME query[q].since > wroteAt PROVE query[q].files = OnDisk
    OBVIOUS
  <2>2. query[q].files \in Maps(Content) /\ disk \in Maps(File)
    BY <1>2, <1>3 DEF FileTypeOK, FileQuery
  <2>3. DOMAIN query[q].files = DOMAIN disk
        /\ \A p \in DOMAIN query[q].files : query[q].files[p] = disk[p].rows
    BY <1>7, <2>1 DEF OfDisk
  <2> QED BY <2>2, <2>3, SameFiles
<1>14. OnDisk' = OnDisk /\ WellFormed' = WellFormed /\ Never' = Never
  BY <1>1 DEF OnDisk, WellFormed, Never
<1>15. Refreshed'
  <2>1. SUFFICES ASSUME checked # Never, checked > wroteAt + Latency PROVE parsed' = OnDisk
    BY <1>1, <1>14 DEF Refreshed
  <2>2. now <= query[q].since + Latency /\ query[q].since \in Nat /\ now \in Nat
        /\ wroteAt \in Nat /\ checked <= now /\ checked \in Nat
    BY <1>2, <1>3, <2>1 DEF UnderWay, FileTypeOK, FileQuery
  <2>3. query[q].since > wroteAt
    BY <2>1, <2>2
  <2> QED BY <1>13, <2>3
<1>16. AnswerKnows'
  <2> SUFFICES ASSUME NEW p \in Querier, query'[p].at = "answer", query'[p].alone,
                      query'[p].since > wroteAt
               PROVE  parsed' = OnDisk
    BY <1>1, <1>14 DEF AnswerKnows, Bound
  <2>1. CASE p = q
    BY <1>5, <1>6, <1>13, <2>1
  <2>2. CASE p # q
    <3>1. query[p].at = "answer" /\ query[p].alone
      BY <1>5, <2>2
    <3>2. query[q].at = "rest"
      BY <1>2, <2>2, <3>1 DEF UnderWay
    <3> QED BY <3>2
  <2> QED BY <2>1, <2>2
<1>17. AnswersFromDisk'
  BY <1>1 DEF AnswersFromDisk, NoAnswer
<1> QED BY <1>9, <1>10, <1>11, <1>12, <1>15, <1>16, <1>17 DEF FileInv

\* A reload takes the stamp of the next file, and after the last one it is over.
LEMMA StatKeeps ==
  ASSUME FileInv, NEW q \in Querier, ReloadStat(q)
  PROVE  FileInv'
<1> DEFINE p == Min(query[q].paths)
<1>1. /\ query[q].at = "stat"
      /\ UNCHANGED <<disk, checked, writes, wroteAt, now>> /\ Unanswered
  BY DEF ReloadStat
<1>2. FileTypeOK /\ query[q] \in FileQuery /\ query \in [Querier -> FileQuery]
  BY DEF FileInv, FileTypeOK
<1>3. Stamped(query[q]) /\ OfDisk(query[q])
  BY <1>1 DEF FileInv, StampsMatch, ReadsDisk, Reads
<1>4. query[q].paths \in SUBSET Path /\ query[q].files \in Maps(Content) /\ query[q].stamps \in Maps(Nat)
  BY <1>2 DEF FileQuery
<1>5. query[q].at # "rest"
  BY <1>1
<1>6. CASE query[q].paths # {} /\ p \in DOMAIN disk
  <2>1. p \in query[q].paths /\ p \in Path
    BY <1>4, <1>6, FirstPath
  <2>2. /\ query' = [query EXCEPT ![q].at = "parse", ![q].stamps = With(@, p, disk[p].mtime)]
        /\ UNCHANGED <<parsed, loaded>>
    BY <1>6 DEF ReloadStat
  <2>3. PICK s : s = With(query[q].stamps, p, disk[p].mtime)
    OBVIOUS
  <2>4. disk[p] \in File /\ disk[p].mtime \in Nat /\ disk[p].mtime <= writes
    <3>1. disk \in [DOMAIN disk -> File]
      BY <1>2, MapIs DEF FileTypeOK
    <3> QED BY <3>1, <1>6 DEF File, FileInv, StampsMatch
  <2>5. /\ s \in Maps(Nat) /\ DOMAIN s = DOMAIN query[q].stamps \cup {p}
        /\ s[p] = disk[p].mtime
        /\ \A x \in DOMAIN query[q].stamps : x # p => s[x] = query[q].stamps[x]
    <3> HIDE DEF p
    <3>1. PICK old, m : old = query[q].stamps /\ m = disk[p].mtime
      OBVIOUS
    <3>2. PICK V : V = Nat
      OBVIOUS
    <3>4. old \in Maps(V) /\ m \in V /\ s = With(old, p, m) /\ p \in Path
      BY <1>4, <2>1, <2>3, <2>4, <3>1, <3>2
    <3>5. /\ s \in Maps(V) /\ DOMAIN s = DOMAIN old \cup {p} /\ s[p] = m
          /\ \A x \in DOMAIN old : x # p => s[x] = old[x]
      BY <3>4, WithIs, SMTT(60)
    <3> QED BY <3>1, <3>2, <3>5
  <2>6. PICK r : r = [query[q] EXCEPT !.at = "parse", !.stamps = s]
    OBVIOUS
  <2>7. query' = [query EXCEPT ![q] = r]
    BY <2>2, <2>3, <2>6, <1>2
  <2>8. /\ r \in FileQuery /\ r.since = query[q].since /\ r.alone = query[q].alone
        /\ r.at = "parse" /\ r.paths = query[q].paths
        /\ r.files = query[q].files /\ r.stamps = s
    BY <1>2, <2>5, <2>6 DEF FileQuery
  <2>9. Stamped(r)
    <3>1. DOMAIN query[q].stamps = DOMAIN query[q].files /\ p \notin DOMAIN query[q].files
      BY <1>1, <1>3, <2>1 DEF Stamped
    <3>2. DOMAIN s = DOMAIN query[q].files \cup {p}
      BY <2>5, <3>1
    <3>3. Known(query[q].files, s)
      <4> HIDE DEF p
      <4> QED BY <1>3, <2>4, <2>5, <3>1 DEF Stamped, Known
    <3> QED BY <1>3, <1>6, <2>8, <3>2, <3>3 DEF Stamped
  <2>10. OfDisk(r)
    BY <1>3, <2>8 DEF OfDisk
  <2> QED BY <1>1, <1>5, <2>2, <2>7, <2>8, <2>9, <2>10, QueryMoves
<1>7. CASE query[q].paths # {} /\ p \notin DOMAIN disk
  <2>1. p \in query[q].paths /\ p \in Path
    BY <1>4, <1>7, FirstPath
  <2>2. /\ query' = [query EXCEPT ![q].paths = @ \ {p}]
        /\ UNCHANGED <<parsed, loaded>>
    BY <1>7 DEF ReloadStat
  <2>3. PICK r : r = [query[q] EXCEPT !.paths = query[q].paths \ {p}]
    OBVIOUS
  <2>4. query' = [query EXCEPT ![q] = r]
    BY <2>2, <2>3, <1>2
  <2>5. /\ r \in FileQuery /\ r.since = query[q].since /\ r.alone = query[q].alone
        /\ r.at = "stat" /\ r.paths = query[q].paths \ {p}
        /\ r.files = query[q].files /\ r.stamps = query[q].stamps
    BY <1>1, <1>2, <2>3 DEF FileQuery
  <2>6. Stamped(r)
    BY <1>1, <1>3, <2>5 DEF Stamped
  <2>7. OfDisk(r)
    BY <1>3, <1>7, <2>1, <2>5 DEF OfDisk
  <2> QED BY <1>1, <1>5, <2>2, <2>4, <2>5, <2>6, <2>7, QueryMoves
<1>8. CASE query[q].paths = {}
  <2>1. /\ query' = [query EXCEPT ![q].at = "answer"]
        /\ parsed' = query[q].files /\ loaded' = query[q].stamps
    BY <1>8 DEF ReloadStat, Go
  <2> QED BY <1>1, <1>8, <2>1, ReloadEnds
<1> QED BY <1>6, <1>7, <1>8

\* A file that is read as it is, or the end of the reload and of the query.
LEMMA ParseKeeps ==
  ASSUME FileInv, NEW q \in Querier, ReloadParse(q)
  PROVE  FileInv'
<1> DEFINE p == Min(query[q].paths)
<1>1. /\ query[q].at = "parse"
      /\ UNCHANGED <<disk, parsed, loaded, checked, writes, wroteAt, now>>
  BY DEF ReloadParse
<1>2. FileTypeOK /\ query[q] \in FileQuery /\ query \in [Querier -> FileQuery]
  BY DEF FileInv, FileTypeOK
<1>3. Stamped(query[q]) /\ OfDisk(query[q])
  BY <1>1 DEF FileInv, StampsMatch, ReadsDisk, Reads
<1>4. query[q].paths \in SUBSET Path /\ query[q].files \in Maps(Content) /\ query[q].stamps \in Maps(Nat)
  BY <1>2 DEF FileQuery
<1>5. query[q].at # "rest"
  BY <1>1
<1>6. p \in query[q].paths /\ p \in Path
  <2>1. query[q].paths # {}
    BY <1>1, <1>3 DEF Stamped
  <2> QED BY <2>1, <1>4, FirstPath
<1>7. CASE p \in DOMAIN disk /\ disk[p].rows # Malformed
  <2>1. /\ query' = [query EXCEPT ![q].at = "stat", ![q].paths = @ \ {p},
                                  ![q].files = With(@, p, disk[p].rows)]
        /\ Unanswered
    BY <1>7 DEF ReloadParse
  <2>2. PICK f : f = With(query[q].files, p, disk[p].rows)
    OBVIOUS
  <2>3. disk[p].rows \in Content
    <3>1. disk \in [DOMAIN disk -> File]
      BY <1>2, MapIs DEF FileTypeOK
    <3> QED BY <3>1, <1>7 DEF File
  <2>4. /\ f \in Maps(Content) /\ DOMAIN f = DOMAIN query[q].files \cup {p}
        /\ f[p] = disk[p].rows
        /\ \A x \in DOMAIN query[q].files : x # p => f[x] = query[q].files[x]
    <3> HIDE DEF p
    <3>1. PICK old, v : old = query[q].files /\ v = disk[p].rows
      OBVIOUS
    <3>2. old \in Maps(Content) /\ v \in Content /\ f = With(old, p, v)
      BY <1>4, <2>2, <2>3, <3>1
    <3>3. /\ f \in Maps(Content) /\ DOMAIN f = DOMAIN old \cup {p} /\ f[p] = v
          /\ \A x \in DOMAIN old : x # p => f[x] = old[x]
      BY <1>6, <3>2, WithIs, SMTT(60)
    <3> QED BY <3>1, <3>3
  <2>5. PICK r : r = [query[q] EXCEPT !.at = "stat", !.paths = query[q].paths \ {p}, !.files = f]
    OBVIOUS
  <2>6. query' = [query EXCEPT ![q] = r]
    BY <1>2, <2>1, <2>2, <2>5
  <2>7. /\ r \in FileQuery /\ r.since = query[q].since /\ r.alone = query[q].alone
        /\ r.at = "stat" /\ r.paths = query[q].paths \ {p}
        /\ r.files = f /\ r.stamps = query[q].stamps
    BY <1>2, <2>4, <2>5 DEF FileQuery
  <2>8. Stamped(r)
    <3>1. DOMAIN query[q].stamps = DOMAIN f
      BY <1>1, <1>3, <2>4 DEF Stamped
    <3>2. Known(f, query[q].stamps)
      <4> HIDE DEF p
      <4> QED BY <1>3, <2>4 DEF Stamped, Known
    <3> QED BY <1>3, <2>4, <2>7, <3>1, <3>2 DEF Stamped
  <2>9. OfDisk(r)
    <3> HIDE DEF p
    <3> QED BY <1>3, <1>6, <2>4, <2>7 DEF OfDisk
  <2> QED BY <1>1, <1>5, <2>1, <2>6, <2>7, <2>8, <2>9, QueryMoves
<1>8. CASE ~(p \in DOMAIN disk /\ disk[p].rows # Malformed)
  <2>1. PICK ref \in Ref : Give(q, ref, "unknown")
    BY <1>8 DEF ReloadParse
  <2>2. ~(WellFormed /\ query[q].since > wroteAt)
    BY <1>3, <1>6, <1>8 DEF WellFormed, OfDisk
  <2>3. ~Bound(query[q])
    BY <2>2 DEF Bound
  <2> HIDE DEF p
  <2> QED BY <1>1, <1>5, <2>1, <2>2, <2>3, QueryEnds
<1> QED BY <1>7, <1>8

\* The answer is from what the provider knows.
LEMMA AnswerKeeps ==
  ASSUME FileInv, NEW q \in Querier, Answer(q)
  PROVE  FileInv'
<1>1. /\ query[q].at = "answer"
      /\ UNCHANGED <<disk, parsed, loaded, checked, writes, wroteAt, now>>
  BY DEF Answer
<1>2. PICK ref \in Ref : Give(q, ref, Outcome(parsed, ref, now))
  BY DEF Answer
<1>3. Bound(query[q]) => parsed = OnDisk
  BY <1>1 DEF FileInv, AnswerKnows
<1>4. PICK outcome : outcome = Outcome(parsed, ref, now)
  OBVIOUS
<1>5. Bound(query[q]) => outcome = Outcome(OnDisk, ref, now)
  BY <1>3, <1>4
<1>6. Give(q, ref, outcome) /\ query[q].at # "rest"
  BY <1>1, <1>2, <1>4
<1> QED BY <1>1, <1>5, <1>6, QueryEnds

\* A write leaves a stamp nobody has seen; what was begun before it does not count.
LEMMA WritesKeep ==
  ASSUME FileInv, writes' = writes + 1, wroteAt' = now, disk' \in Maps(File),
         \A p \in DOMAIN disk' :
           disk'[p].mtime = writes' \/ (p \in DOMAIN disk /\ disk'[p] = disk[p]),
         UNCHANGED <<parsed, loaded, checked, query, now>>, Unanswered
  PROVE  FileInv'
<1> USE ClockAssumption, SettlementAssumption
<1>1. /\ parsed' = parsed /\ loaded' = loaded /\ checked' = checked
      /\ query' = query /\ now' = now /\ answer' = NoAnswer
  BY DEF Unanswered
<1>2. FileTypeOK /\ UnderWay /\ StampsMatch
  BY DEF FileInv
<1>3. now \in Nat /\ writes \in Nat /\ wroteAt \in 0..now
  BY <1>2 DEF FileTypeOK
<1>4. FileTypeOK'
  BY <1>1, <1>2 DEF FileTypeOK, Never
<1>5. UnderWay'
  BY <1>1, <1>2 DEF UnderWay
<1>6. ASSUME NEW f, NEW s \in Maps(Nat), DOMAIN f \subseteq DOMAIN s, Known(f, s)
      PROVE  Known(f, s)'
  <2>1. s \in [DOMAIN s -> Nat]
    BY MapIs
  <2> QED BY <1>3, <1>6, <2>1 DEF Known
<1>7. \A q \in Querier : query[q] \in FileQuery /\ query[q].stamps \in Maps(Nat)
  BY <1>2 DEF FileTypeOK, FileQuery
<1>8. StampsMatch'
  <2>1. \A p \in DOMAIN disk' : disk'[p].mtime <= writes'
    <3>1. disk \in [DOMAIN disk -> File]
      BY <1>2, MapIs DEF FileTypeOK
    <3> QED BY <1>2, <1>3, <3>1 DEF StampsMatch, File
  <2>2. DOMAIN loaded = DOMAIN parsed /\ Known(parsed, loaded)'
    BY <1>1, <1>2, <1>6 DEF StampsMatch, FileTypeOK
  <2>3. ASSUME NEW q \in Querier, Reads(query[q]) PROVE Stamped(query[q])'
    <3>1. Stamped(query[q])
      BY <1>2, <2>3 DEF StampsMatch
    <3>2. DOMAIN query[q].files \subseteq DOMAIN query[q].stamps
      BY <3>1 DEF Stamped
    <3>3. PICK r : r = query[q]
      OBVIOUS
    <3>4. Known(r.files, r.stamps)'
      BY <1>6, <1>7, <3>1, <3>2, <3>3 DEF Stamped
    <3>5. Stamped(r)'
      BY <3>1, <3>3, <3>4 DEF Stamped
    <3> QED BY <1>1, <3>3, <3>5
  <2> QED BY <1>1, <2>1, <2>2, <2>3 DEF StampsMatch, Reads
<1>9. ReadsDisk'
  <2>1. ASSUME NEW q \in Querier, Reads(query[q]) PROVE OfDisk(query[q])'
    <3>1. query[q].since <= now /\ query[q].since \in Nat
      BY <1>2, <1>7, <2>1 DEF UnderWay, Reads, FileQuery
    <3> QED BY <1>1, <1>3, <3>1 DEF OfDisk
  <2> QED BY <1>1, <2>1 DEF ReadsDisk, Reads
<1>10. Refreshed'
  <2>1. checked # Never => checked <= now
    BY <1>2 DEF FileTypeOK
  <2> QED BY <1>1, <1>2, <1>3, <2>1 DEF Refreshed, Never, FileTypeOK
<1>11. AnswerKnows'
  <2>1. ASSUME NEW q \in Querier, query[q].at = "answer" PROVE ~Bound(query[q])'
    <3>1. query[q].since <= now /\ query[q].since \in Nat
      BY <1>2, <1>7, <2>1 DEF UnderWay, FileQuery
    <3> QED BY <1>1, <1>3, <3>1 DEF Bound
  <2> QED BY <1>1, <2>1 DEF AnswerKnows
<1>12. AnswersFromDisk'
  BY <1>1 DEF AnswersFromDisk, NoAnswer
<1> QED BY <1>4, <1>5, <1>8, <1>9, <1>10, <1>11, <1>12 DEF FileInv

\* A delivery or a rewrite.
LEMMA WriteFileKeeps ==
  ASSUME FileInv, NEW p \in Path, NEW rows \in Content, WriteFile(p, rows)
  PROVE  FileInv'
<1>1. /\ writes' = writes + 1 /\ wroteAt' = now
      /\ disk' = With(disk, p, [mtime |-> writes', rows |-> rows])
      /\ UNCHANGED <<parsed, loaded, checked, query, now>> /\ Unanswered
  BY DEF WriteFile
<1>2. disk \in Maps(File) /\ writes \in Nat
  BY DEF FileInv, FileTypeOK
<1>3. PICK f : f = [mtime |-> writes', rows |-> rows]
  OBVIOUS
<1>4. f \in File /\ f.mtime = writes'
  BY <1>1, <1>2, <1>3 DEF File
<1>5. /\ disk' \in Maps(File) /\ DOMAIN disk' = DOMAIN disk \cup {p} /\ disk'[p] = f
      /\ \A x \in DOMAIN disk : x # p => disk'[x] = disk[x]
  BY <1>1, <1>2, <1>3, <1>4, WithIs
<1>6. \A x \in DOMAIN disk' :
        disk'[x].mtime = writes' \/ (x \in DOMAIN disk /\ disk'[x] = disk[x])
  BY <1>4, <1>5
<1> QED BY <1>1, <1>5, <1>6, WritesKeep

\* A removal.
LEMMA RemoveFileKeeps ==
  ASSUME FileInv, NEW p \in Path, RemoveFile(p)
  PROVE  FileInv'
<1>1. /\ writes' = writes + 1 /\ wroteAt' = now
      /\ disk' = [x \in DOMAIN disk \ {p} |-> disk[x]]
      /\ UNCHANGED <<parsed, loaded, checked, query, now>> /\ Unanswered
  BY DEF RemoveFile
<1>2. DOMAIN disk \subseteq Path /\ disk \in [DOMAIN disk -> File]
  BY MapIs DEF FileInv, FileTypeOK
<1>3. disk' \in Maps(File)
  <2>1. DOMAIN disk' = DOMAIN disk \ {p}
    BY <1>1
  <2>2. disk' \in [DOMAIN disk' -> File] /\ DOMAIN disk' \subseteq Path
    BY <1>1, <1>2, <2>1
  <2> QED BY <2>2, MapIs
<1>4. \A x \in DOMAIN disk' :
        disk'[x].mtime = writes' \/ (x \in DOMAIN disk /\ disk'[x] = disk[x])
  BY <1>1
<1> QED BY <1>1, <1>3, <1>4, WritesKeep

\* Time waits for the queries under way.
LEMMA FileTickKeeps ==
  ASSUME FileInv, FileTick
  PROVE  FileInv'
<1> USE ClockAssumption, SettlementAssumption
<1>1. /\ disk' = disk /\ parsed' = parsed /\ loaded' = loaded /\ checked' = checked
      /\ query' = query /\ writes' = writes /\ wroteAt' = wroteAt /\ answer' = NoAnswer
      /\ now' = now + 1
      /\ \A q \in Querier : query[q].at # "rest" => now < query[q].since + Latency
  BY DEF FileTick, Tick, Unanswered
<1>2. FileTypeOK /\ UnderWay /\ StampsMatch /\ ReadsDisk /\ Refreshed /\ AnswerKnows
  BY DEF FileInv
<1>3. FileTypeOK'
  BY <1>1, <1>2 DEF FileTypeOK, Never
<1>4. UnderWay'
  <2>1. now \in Nat /\ \A q \in Querier : query[q].since \in Nat
    BY <1>2 DEF FileTypeOK, FileQuery
  <2> QED BY <1>1, <1>2, <2>1 DEF UnderWay
<1>5. StampsMatch' /\ ReadsDisk' /\ Refreshed' /\ AnswerKnows'
  BY <1>1, <1>2 DEF StampsMatch, ReadsDisk, Refreshed, AnswerKnows, Stamped, OfDisk, Known,
                    Reads, Bound, WellFormed, OnDisk, Finding, Never
<1>6. AnswersFromDisk'
  BY <1>1 DEF AnswersFromDisk, NoAnswer
<1> QED BY <1>3, <1>4, <1>5, <1>6 DEF FileInv

\* Every step keeps the invariant.
LEMMA FileInvStep == FileInv /\ [FileNext]_<<now, fileVars>> => FileInv'
<1>1. CASE UNCHANGED <<now, fileVars>>
  <2>1. /\ disk' = disk /\ parsed' = parsed /\ loaded' = loaded /\ checked' = checked
        /\ query' = query /\ writes' = writes /\ wroteAt' = wroteAt /\ answer' = answer
        /\ now' = now
    BY <1>1 DEF fileVars
  <2>2. FileTypeOK' <=> FileTypeOK
    BY <2>1 DEF FileTypeOK, Never
  <2>3. (UnderWay /\ StampsMatch /\ ReadsDisk)' <=> UnderWay /\ StampsMatch /\ ReadsDisk
    BY <2>1 DEF UnderWay, StampsMatch, ReadsDisk, Stamped, OfDisk, Known, Reads
  <2>4. (Refreshed /\ AnswerKnows)' <=> Refreshed /\ AnswerKnows
    BY <2>1 DEF Refreshed, AnswerKnows, Bound, WellFormed, OnDisk, Finding, Never
  <2>5. AnswersFromDisk' <=> AnswersFromDisk
    BY <2>1 DEF AnswersFromDisk, OnDisk, Outcome, Absent
  <2> QED BY <2>2, <2>3, <2>4, <2>5 DEF FileInv
<1> QED
  BY <1>1, StartKeeps, ChangedKeeps, GlobKeeps, LockKeeps, StatKeeps, ParseKeeps, AnswerKeeps,
     WriteFileKeeps, RemoveFileKeeps, FileTickKeeps DEF FileNext

\* An undisturbed query that starts a refresh interval and the longest reload after
\* the last write answers what the directory says, whatever was under way before.
THEOREM DirectoryAnswers == FileSpec => []AnswersFromDisk
<1>1. FileInv => AnswersFromDisk
  BY DEF FileInv
<1> QED BY <1>1, FileInvInit, FileInvStep, PTL DEF FileSpec

-----------------------------------------------------------------------------
(* Limits: the token bucket *)

Bucket == [parts : 0..(Burst * Unit), last : 0..now]

Full == Burst * Unit * Span
Piece == Unit * Span

\* What a bucket would hold if it gained so much that it is full when it may be
\* dropped, in parts of which Span make one.
Topped(b) == Min({Full, b.parts * Span + (now - b.last) * Gain})

\* What a call may find, now or after the bucket is dropped.
Level(k) == IF k \in DOMAIN bucket THEN Topped(bucket[k]) ELSE Full

BucketTypeOK ==
  /\ now \in Instants
  /\ DOMAIN bucket \subseteq Tenant
  /\ bucket \in [DOMAIN bucket -> Bucket]
  /\ granted \in [Tenant -> [Instants -> Nat]]
  /\ \A k \in Tenant, i \in Instants : i > now => granted[k][i] = 0

\* What has been granted since s and what could be granted now.
Covered ==
  \A k \in Tenant, s \in 0..now :
    SumFunctionOnSet(granted[k], s..now) * Piece + Level(k) <= Full + Gain * (now - s)

BudgetInv == BucketTypeOK /\ Covered

\* The smaller of two numbers.
LEMMA MinTwo ==
  ASSUME NEW a \in Nat, NEW b \in Nat
  PROVE  /\ Min({a, b}) \in {a, b}
         /\ Min({a, b}) <= a /\ Min({a, b}) <= b
<1>1. \E x \in {a, b} : \A y \in {a, b} : x =< y
  OBVIOUS
<1> DEFINE P(x) == \A y \in {a, b} : x =< y
<1>2. Min({a, b}) = CHOOSE x \in {a, b} : P(x)
  BY DEF Min
<1>3. \E x \in {a, b} : P(x)
  BY <1>1
<1> HIDE DEF P
<1>4. Min({a, b}) \in {a, b} /\ P(Min({a, b}))
  BY <1>2, <1>3
<1> QED BY <1>4 DEF P

\* The larger of two numbers.
LEMMA MaxTwo ==
  ASSUME NEW a \in Nat, NEW b \in Nat
  PROVE  Max({a, b}) \in Nat /\ a <= Max({a, b}) /\ b <= Max({a, b})
<1>1. \E x \in {a, b} : \A y \in {a, b} : x >= y
  OBVIOUS
<1> DEFINE P(x) == \A y \in {a, b} : x >= y
<1>2. Max({a, b}) = CHOOSE x \in {a, b} : P(x)
  BY DEF Max
<1>3. \E x \in {a, b} : P(x)
  BY <1>1
<1> HIDE DEF P
<1>4. Max({a, b}) \in {a, b} /\ P(Max({a, b}))
  BY <1>2, <1>3
<1> QED BY <1>4 DEF P

\* What is summed over some instants is a number.
LEMMA InstantSums ==
  ASSUME NEW f \in [Instants -> Nat], NEW S \in SUBSET Instants
  PROVE  IsFiniteSet(S) /\ SumFunctionOnSet(f, S) \in Nat
<1>1. IsFiniteSet(Instants)
  BY ClockAssumption, FS_Interval DEF Instants
<1>2. IsFiniteSet(S) /\ \A x \in S : f[x] \in Nat
  BY <1>1, FS_Subset
<1> QED BY <1>2, SumType

\* One more in an instant.
LEMMA OneMore ==
  ASSUME NEW f \in [Instants -> Nat], NEW S \in SUBSET Instants, NEW n \in Instants
  PROVE  /\ n \in S => SumFunctionOnSet([f EXCEPT ![n] = @ + 1], S) = SumFunctionOnSet(f, S) + 1
         /\ n \notin S => SumFunctionOnSet([f EXCEPT ![n] = @ + 1], S) = SumFunctionOnSet(f, S)
<1>1. IsFiniteSet(S) /\ \A x \in S : f[x] \in Nat
  BY InstantSums
<1> DEFINE g == [f EXCEPT ![n] = @ + 1]
<1>2. g[n] = f[n] + 1 /\ \A x \in Instants \ {n} : g[x] = f[x]
  OBVIOUS
<1> HIDE DEF g
<1>3. ASSUME n \in S PROVE SumFunctionOnSet(g, S) = SumFunctionOnSet(f, S) + 1
  BY <1>1, <1>2, <1>3, SumBump
<1>4. ASSUME n \notin S PROVE SumFunctionOnSet(g, S) = SumFunctionOnSet(f, S)
  BY <1>1, <1>2, <1>4, SumSame
<1> QED BY <1>3, <1>4 DEF g

\* One more call at the end of a span of time, and a span that ends an instant later.
LEMMA SpanSums ==
  ASSUME NEW f \in [Instants -> Nat], NEW n \in Instants, NEW s \in 0..n
  PROVE  /\ SumFunctionOnSet(f, s..n) \in Nat
         /\ SumFunctionOnSet([f EXCEPT ![n] = @ + 1], s..n) = SumFunctionOnSet(f, s..n) + 1
         /\ n + 1 \in Instants /\ f[n + 1] = 0
              => SumFunctionOnSet(f, s..(n + 1)) = SumFunctionOnSet(f, s..n)
<1> USE ClockAssumption DEF Instants
<1>1. s..n \subseteq Instants /\ n \in s..n /\ n \in Int /\ s \in Int
  OBVIOUS
<1>2. IsFiniteSet(s..n)
  BY <1>1, FS_Interval
<1>3. \A x \in s..n : f[x] \in Nat
  BY <1>1
<1>4. SumFunctionOnSet(f, s..n) \in Nat
  BY <1>2, <1>3, SumType
<1>5. SumFunctionOnSet([f EXCEPT ![n] = @ + 1], s..n) = SumFunctionOnSet(f, s..n) + 1
  <2>1. PICK S : S = s..n
    OBVIOUS
  <2> HIDE DEF Instants
  <2>2. SumFunctionOnSet([f EXCEPT ![n] = @ + 1], S) = SumFunctionOnSet(f, S) + 1
    BY <1>1, <2>1, OneMore
  <2> QED BY <2>1, <2>2
<1>6. ASSUME n + 1 \in Instants, f[n + 1] = 0
      PROVE  SumFunctionOnSet(f, s..(n + 1)) = SumFunctionOnSet(f, s..n)
  <2>1. PICK y : y = n + 1
    OBVIOUS
  <2>2. PICK S : S = s..n
    OBVIOUS
  <2>3. s..(n + 1) = S \cup {y} /\ y \notin S
    BY <1>1, <2>1, <2>2
  <2>4. IsFiniteSet(S) /\ \A x \in S \cup {y} : f[x] \in Nat
    BY <1>2, <1>3, <1>6, <2>1, <2>2
  <2>5. SumFunctionOnSet(f, S \cup {y}) = f[y] + SumFunctionOnSet(f, S)
    BY <2>3, <2>4, SumAdd
  <2>6. SumFunctionOnSet(f, S) \in Nat /\ f[y] = 0
    BY <1>4, <1>6, <2>1, <2>2
  <2>7. SumFunctionOnSet(f, S \cup {y}) = SumFunctionOnSet(f, S)
    BY <2>5, <2>6
  <2>8. SumFunctionOnSet(f, s..(n + 1)) = SumFunctionOnSet(f, S \cup {y})
    BY <2>3
  <2> QED BY <2>2, <2>7, <2>8
<1> QED BY <1>4, <1>5, <1>6

\* What is gained: no less in a longer time, an instant's worth in an instant.
LEMMA Times ==
  ASSUME NEW g \in Nat, NEW a \in Nat, NEW b \in Nat
  PROVE  /\ a * g \in Nat /\ g * a = a * g
         /\ (a + 1) * g = a * g + g
         /\ (a + b) * g = a * g + b * g
         /\ a <= b => a * g <= b * g
OBVIOUS

\* The sizes of things; a bucket gains no less than the rate gives, and all it
\* holds in the time after which it may be dropped.
LEMMA Sizes ==
  /\ Burst * Unit \in Nat /\ Unit \in Nat /\ Span \in Nat /\ Span = Idle + 1
  /\ Full \in Nat /\ Piece \in Nat /\ Gain \in Nat
  /\ Rate * Span <= Gain /\ Full <= Span * Gain
<1>1. Burst * Unit \in Nat /\ Unit \in Nat /\ Span \in Nat /\ Rate \in Nat /\ Span = Idle + 1
  BY LimitsAssumption DEF LimitsAssumption, Span
<1>2. PICK x, y : x = Rate * Span /\ y = Burst * Unit
  OBVIOUS
<1>3. x \in Nat /\ y \in Nat
  BY <1>1, <1>2, Times
<1>4. Gain = Max({x, y})
  BY <1>2 DEF Gain
<1>5. Gain \in Nat /\ x <= Gain /\ y <= Gain
  BY <1>3, <1>4, MaxTwo
<1>6. Full = y * Span /\ Full \in Nat /\ Piece \in Nat
  BY <1>1, <1>2, <1>3, Times DEF Full, Piece
<1>7. y * Span <= Gain * Span /\ Gain * Span = Span * Gain
  BY <1>1, <1>3, <1>5, Times
<1> QED BY <1>1, <1>2, <1>5, <1>6, <1>7

LEMMA PieceTimes ==
  ASSUME NEW a \in Nat
  PROVE  a * Piece \in Nat /\ (a + 1) * Piece = a * Piece + Piece
BY Sizes, Times

\* A topped bucket, the parts of the smaller of its two bounds.
LEMMA ToppedIs ==
  ASSUME NEW p \in 0..(Burst * Unit), NEW t \in Nat, now \in Nat, t <= now
  PROVE  LET b == [parts |-> p, last |-> t]
             had == p * Span
             gain == (now - t) * Gain IN
         /\ had \in Nat /\ had <= Full /\ gain \in Nat
         /\ Topped(b) = Min({Full, had + gain})
         /\ Topped(b) \in {Full, had + gain} /\ Topped(b) <= Full /\ Topped(b) <= had + gain
<1> DEFINE b == [parts |-> p, last |-> t]
           had == p * Span
           gain == (now - t) * Gain
<1>1. Topped(b) = Min({Full, had + gain})
  BY DEF Topped
<1>2. had \in Nat /\ had <= Full
  <2>1. p \in Nat /\ p <= Burst * Unit
    BY Sizes
  <2> QED BY <2>1, Sizes, Times DEF Full
<1>3. gain \in Nat
  <2>1. now - t \in Nat
    OBVIOUS
  <2> QED BY <2>1, Sizes, Times
<1> HIDE DEF had, gain, b
<1>4. /\ Min({Full, had + gain}) \in {Full, had + gain}
      /\ Min({Full, had + gain}) <= Full /\ Min({Full, had + gain}) <= had + gain
  BY <1>2, <1>3, Sizes, MinTwo
<1>5. /\ had \in Nat /\ had <= Full /\ gain \in Nat
      /\ Topped(b) = Min({Full, had + gain})
      /\ Topped(b) \in {Full, had + gain} /\ Topped(b) <= Full /\ Topped(b) <= had + gain
  BY <1>1, <1>2, <1>3, <1>4
<1> QED BY <1>5 DEF had, gain, b

\* What a call finds in a bucket is no more than in the topped one.
LEMMA RefilledIs ==
  ASSUME NEW p \in 0..(Burst * Unit), NEW t \in Nat, now \in Nat, t <= now
  PROVE  /\ Refilled([parts |-> p, last |-> t]) \in 0..(Burst * Unit)
         /\ Refilled([parts |-> p, last |-> t]) * Span <= Topped([parts |-> p, last |-> t])
<1> DEFINE b == [parts |-> p, last |-> t]
           all == Burst * Unit
           gain == (now - t) * Rate
<1>1. Refilled(b) = Min({all, p + gain})
  BY DEF Refilled
<1>2. now - t \in Nat /\ Rate \in Nat
  BY LimitsAssumption DEF LimitsAssumption
<1>3. all \in Nat /\ gain \in Nat /\ p \in Nat
  BY <1>2, Sizes, Times
<1>4. gain * Span <= (now - t) * Gain
  <2>1. PICK n : n = now - t
    OBVIOUS
  <2>2. n \in Nat /\ gain = n * Rate
    BY <1>2, <2>1
  <2>3. gain * Span = n * (Rate * Span)
    BY <1>2, <2>2, Sizes
  <2>4. PICK x : x = Rate * Span
    OBVIOUS
  <2>5. x \in Nat /\ x <= Gain
    BY <1>2, <2>4, Sizes, Times
  <2>6. x * n <= Gain * n /\ x * n = n * x /\ Gain * n = n * Gain
    BY <2>2, <2>5, Sizes, Times
  <2> QED BY <2>1, <2>3, <2>4, <2>6
<1>5. Full = all * Span
  BY DEF Full
<1>6. (p + gain) * Span = p * Span + gain * Span
  BY <1>3, Sizes, Times
<1>7. Topped(b) \in {Full, p * Span + (now - t) * Gain}
  BY ToppedIs
<1> HIDE DEF all, gain, b
<1>8. /\ Refilled(b) \in {all, p + gain} /\ Refilled(b) <= all /\ Refilled(b) <= p + gain
  BY <1>1, <1>3, MinTwo
<1>9. Refilled(b) \in Nat
  BY <1>3, <1>8
<1>10. Refilled(b) * Span <= all * Span /\ Refilled(b) * Span <= (p + gain) * Span
  BY <1>3, <1>8, <1>9, Sizes, Times
<1>11. Refilled(b) * Span <= Topped(b)
  <2>1. /\ p * Span \in Nat /\ gain * Span \in Nat /\ (now - t) * Gain \in Nat
        /\ Refilled(b) * Span \in Nat
    BY <1>2, <1>3, <1>9, Sizes, Times
  <2> QED BY <1>4, <1>5, <1>6, <1>7, <1>10, <2>1, Sizes
<1>12. Refilled(b) \in 0..all
  BY <1>3, <1>8, <1>9
<1> QED BY <1>11, <1>12 DEF all, b

\* A bucket in use is one with so many parts, last used then.
LEMMA BucketIs ==
  ASSUME NEW b \in Bucket, now \in Nat
  PROVE  /\ b = [parts |-> b.parts, last |-> b.last]
         /\ b.parts \in 0..(Burst * Unit) /\ b.last \in Nat /\ b.last <= now
BY Sizes DEF Bucket

\* The level of a tenant is a number of parts.
LEMMA LevelType ==
  ASSUME BucketTypeOK, NEW k \in Tenant
  PROVE  Level(k) \in Nat /\ Level(k) <= Full
<1>1. CASE k \in DOMAIN bucket
  <2>1. PICK b : b = bucket[k]
    OBVIOUS
  <2>2. b \in Bucket /\ now \in Nat
    BY <1>1, <2>1 DEF BucketTypeOK, Instants
  <2>3. PICK p, t : p = b.parts /\ t = b.last
    OBVIOUS
  <2>4. b = [parts |-> p, last |-> t] /\ p \in 0..(Burst * Unit) /\ t \in Nat /\ t <= now
    BY <2>2, <2>3, BucketIs
  <2>5. Topped(b) \in Nat /\ Topped(b) <= Full
    <3> DEFINE had == p * Span
               gain == (now - t) * Gain
    <3>1. /\ had \in Nat /\ gain \in Nat
          /\ Topped(b) \in {Full, had + gain} /\ Topped(b) <= Full
      BY <2>2, <2>4, ToppedIs
    <3> HIDE DEF had, gain
    <3> QED BY <3>1, Sizes
  <2>6. Level(k) = Topped(b)
    BY <1>1, <2>1 DEF Level
  <2> QED BY <2>4, <2>5, <2>6
<1>2. CASE k \notin DOMAIN bucket
  BY <1>2, Sizes DEF Level
<1> QED BY <1>1, <1>2

\* At first no bucket is there and nothing has been granted.
LEMMA BudgetInvInit == now = 0 /\ LimitInit => BudgetInv
<1> SUFFICES ASSUME now = 0, LimitInit PROVE BudgetInv
  OBVIOUS
<1>1. BucketTypeOK
  BY ClockAssumption DEF LimitInit, BucketTypeOK, Instants
<1>2. ASSUME NEW k \in Tenant, NEW s \in 0..now
      PROVE  SumFunctionOnSet(granted[k], s..now) * Piece + Level(k)
               <= Full + Gain * (now - s)
  <2>1. s = 0 /\ s..now = {0} \cup {} /\ now - s = 0
    <3>1. now = 0 /\ s \in 0..0
      BY <1>2
    <3>2. s = 0 /\ 0..0 = {0}
      BY <3>1
    <3> QED BY <3>1, <3>2
  <2>2. granted[k][0] = 0
    <3>1. 0 \in Instants
      BY ClockAssumption DEF Instants
    <3> QED BY <3>1 DEF LimitInit
  <2>3. SumFunctionOnSet(granted[k], {0} \cup {}) = granted[k][0] + SumFunctionOnSet(granted[k], {})
    BY <2>2, FS_EmptySet, SumAdd
  <2>4. SumFunctionOnSet(granted[k], {}) = 0
    BY SumEmpty
  <2>5. SumFunctionOnSet(granted[k], {0} \cup {}) = 0
    BY <2>2, <2>3, <2>4
  <2>6. SumFunctionOnSet(granted[k], s..now) = 0
    BY <2>1, <2>5
  <2>7. Level(k) = Full
    BY DEF Level, LimitInit
  <2>8. Gain * (now - s) = 0 /\ 0 * Piece = 0
    BY <2>1, Sizes
  <2> QED BY <2>6, <2>7, <2>8, Sizes
<1> QED BY <1>1, <1>2 DEF BudgetInv, Covered

\* A bucket used now holds what it says, and one that may be dropped is full.
LEMMA ToppedAt ==
  ASSUME NEW p \in 0..(Burst * Unit), NEW t \in Nat, now \in Nat, t <= now
  PROVE  /\ t = now => Topped([parts |-> p, last |-> t]) = p * Span
         /\ now - t > Idle => Topped([parts |-> p, last |-> t]) = Full
<1> DEFINE had == p * Span
           gain == (now - t) * Gain
           top == Topped([parts |-> p, last |-> t])
<1>1. /\ had \in Nat /\ had <= Full /\ gain \in Nat /\ Full \in Nat
      /\ top \in {Full, had + gain} /\ top <= Full /\ top <= had + gain
  BY ToppedIs, Sizes
<1>2. t = now => gain = 0
  BY Sizes
<1>3. now - t > Idle => gain >= Full
  <2> SUFFICES ASSUME now - t > Idle PROVE gain >= Full
    OBVIOUS
  <2>1. now - t \in Nat /\ Span <= now - t
    BY Sizes, LimitsAssumption DEF LimitsAssumption
  <2>2. Span * Gain <= gain /\ Span * Gain \in Nat
    BY <2>1, Sizes, Times
  <2> HIDE DEF gain
  <2> QED BY <1>1, <2>2, Sizes
<1> HIDE DEF had, gain, top
<1>4. (t = now => top = had) /\ (now - t > Idle => top = Full)
  BY <1>1, <1>2, <1>3
<1> QED BY <1>4 DEF had, top

\* The buckets a call finds are its tenant's and others'; none is fuller or emptier
\* for a bucket's being made, or for an idle one's being dropped.
LEMMA BucketsAre ==
  ASSUME BucketTypeOK, NEW k \in Tenant
  PROVE  /\ k \in DOMAIN Buckets(k) /\ DOMAIN Buckets(k) \subseteq Tenant
         /\ Buckets(k) \in [DOMAIN Buckets(k) -> Bucket]
         /\ \A x \in Tenant :
              Level(x) = IF x \in DOMAIN Buckets(k) THEN Topped(Buckets(k)[x]) ELSE Full
<1>0. now \in Nat /\ Burst * Unit \in 0..(Burst * Unit) /\ bucket \in [DOMAIN bucket -> Bucket]
      /\ DOMAIN bucket \subseteq Tenant
  BY Sizes DEF BucketTypeOK, Instants
<1>1. CASE k \in DOMAIN bucket
  <2>1. Buckets(k) = bucket
    BY <1>1 DEF Buckets
  <2> QED BY <1>0, <1>1, <2>1 DEF Level
<1>2. CASE k \notin DOMAIN bucket
  <2> DEFINE full == [parts |-> Burst * Unit, last |-> now]
             all == [x \in DOMAIN bucket \cup {k} |-> IF x = k THEN full ELSE bucket[x]]
             kept == {x \in DOMAIN all : now - all[x].last <= Idle}
  <2>1. full \in Bucket /\ full.last = now
    BY <1>0 DEF Bucket
  <2>2. Topped(full) = Full
    BY <1>0, ToppedAt, Sizes DEF Full
  <2>3. Buckets(k) = all \/ Buckets(k) = [x \in kept |-> all[x]]
    BY <1>2 DEF Buckets, Restrict
  <2> HIDE DEF full
  <2>4. /\ DOMAIN all = DOMAIN bucket \cup {k} /\ all[k] = full
        /\ \A x \in DOMAIN bucket : all[x] = bucket[x]
        /\ all \in [DOMAIN bucket \cup {k} -> Bucket]
    BY <1>0, <1>2, <2>1
  <2>5. k \in kept
    BY <1>0, <2>1, <2>4, LimitsAssumption DEF LimitsAssumption
  <2>6. \A x \in Tenant : Level(x) = IF x \in DOMAIN all THEN Topped(all[x]) ELSE Full
    BY <1>2, <2>2, <2>4 DEF Level
  <2>7. \A x \in DOMAIN all \ kept : Topped(all[x]) = Full
    <3> SUFFICES ASSUME NEW x \in DOMAIN all \ kept PROVE Topped(all[x]) = Full
      OBVIOUS
    <3> DEFINE b == all[x]
    <3>1. b \in Bucket
      BY <2>4
    <3>2. ~(now - b.last <= Idle)
      OBVIOUS
    <3>3. b.parts \in 0..(Burst * Unit) /\ b.last \in Nat /\ b.last <= now /\ now - b.last > Idle
      BY <1>0, <3>1, <3>2, LimitsAssumption DEF Bucket, LimitsAssumption
    <3>4. b = [parts |-> b.parts, last |-> b.last]
      BY <3>1 DEF Bucket
    <3> HIDE DEF b
    <3>5. Topped([parts |-> b.parts, last |-> b.last]) = Full
      BY <1>0, <3>3, ToppedAt
    <3>6. Topped(b) = Full
      BY <3>4, <3>5
    <3> QED BY <3>6 DEF b
  <2>8. kept \subseteq DOMAIN all
    OBVIOUS
  <2>9. DOMAIN all \subseteq Tenant
    BY <1>0, <2>4
  <2> HIDE DEF all, kept
  <2>10. CASE Buckets(k) = all
    BY <2>4, <2>6, <2>9, <2>10
  <2>11. CASE Buckets(k) = [x \in kept |-> all[x]]
    <3> DEFINE r == [x \in kept |-> all[x]]
    <3>1. DOMAIN r = kept /\ (\A x \in kept : r[x] = all[x]) /\ r \in [kept -> Bucket]
      BY <2>4, <2>8
    <3>2. Buckets(k) = r
      BY <2>11
    <3> HIDE DEF r
    <3>3. \A x \in Tenant : Level(x) = IF x \in kept THEN Topped(r[x]) ELSE Full
      BY <2>6, <2>7, <2>8, <3>1
    <3> QED BY <2>5, <2>8, <2>9, <3>1, <3>2, <3>3
  <2> QED BY <2>3, <2>10, <2>11
<1> QED BY <1>1, <1>2

\* A call takes from a bucket what it adds to the calls allowed.
LEMMA AllowKeepsBudget ==
  ASSUME BudgetInv, NEW k \in Tenant, Allow(k)
  PROVE  BudgetInv'
<1> DEFINE all == Buckets(k)
           parts == Refilled(all[k])
           ok == parts >= Unit
           left == IF ok THEN parts - Unit ELSE parts
<1>1. /\ k \in DOMAIN all /\ DOMAIN all \subseteq Tenant /\ all \in [DOMAIN all -> Bucket]
      /\ \A x \in Tenant : Level(x) = IF x \in DOMAIN all THEN Topped(all[x]) ELSE Full
  BY BucketsAre DEF BudgetInv
<1>2. /\ bucket' = [all EXCEPT ![k] = [parts |-> left, last |-> now]]
      /\ granted' = IF ok THEN [granted EXCEPT ![k][now] = @ + 1] ELSE granted
      /\ now' = now
  BY DEF Allow
<1>3. now \in Instants /\ now \in Nat /\ granted \in [Tenant -> [Instants -> Nat]]
      /\ \A x \in Tenant, i \in Instants : i > now => granted[x][i] = 0
  BY DEF BudgetInv, BucketTypeOK, Instants
<1>4. parts * Span <= Level(k) /\ parts \in 0..(Burst * Unit)
  <2>1. PICK b : b = all[k]
    OBVIOUS
  <2>2. b \in Bucket /\ Level(k) = Topped(b) /\ parts = Refilled(b)
    BY <1>1, <2>1
  <2>3. PICK p, t : p = b.parts /\ t = b.last
    OBVIOUS
  <2>4. b = [parts |-> p, last |-> t] /\ p \in 0..(Burst * Unit) /\ t \in Nat /\ t <= now
    BY <1>3, <2>2, <2>3, BucketIs
  <2>5. /\ Refilled([parts |-> p, last |-> t]) \in 0..(Burst * Unit)
        /\ Refilled([parts |-> p, last |-> t]) * Span <= Topped([parts |-> p, last |-> t])
    BY <1>3, <2>4, RefilledIs
  <2> QED BY <2>2, <2>4, <2>5
<1> HIDE DEF all, parts
<1>5. left \in 0..(Burst * Unit) /\ left + (IF ok THEN Unit ELSE 0) = parts
  BY <1>4, Sizes
<1> HIDE DEF left
<1>6. [parts |-> left, last |-> now] \in Bucket
  BY <1>3, <1>5 DEF Bucket
<1>7. /\ DOMAIN bucket' = DOMAIN all
      /\ bucket'[k] = [parts |-> left, last |-> now]
      /\ \A x \in DOMAIN all \ {k} : bucket'[x] = all[x]
      /\ bucket' \in [DOMAIN all -> Bucket]
  BY <1>1, <1>2, <1>6
<1>8. Topped([parts |-> left, last |-> now]) = left * Span
  BY <1>3, <1>5, ToppedAt
<1>9. \A b : Topped(b)' = Topped(b)
  BY <1>2 DEF Topped
<1>10. Level(k)' = left * Span /\ \A x \in Tenant \ {k} : Level(x)' = Level(x)
  <2>1. \A x \in Tenant : Level(x)' = IF x \in DOMAIN bucket' THEN Topped(bucket'[x]) ELSE Full
    BY <1>2 DEF Level, Topped
  <2> QED BY <1>1, <1>7, <1>8, <2>1
<1>11. /\ granted' \in [Tenant -> [Instants -> Nat]]
       /\ granted'[k] = IF ok THEN [granted[k] EXCEPT ![now] = @ + 1] ELSE granted[k]
       /\ \A x \in Tenant \ {k} : granted'[x] = granted[x]
       /\ \A x \in Tenant, i \in Instants : i > now => granted'[x][i] = granted[x][i]
  <2>1. CASE ok
    <3> DEFINE row == [granted[k] EXCEPT ![now] = @ + 1]
    <3>1. row \in [Instants -> Nat] /\ \A i \in Instants : i > now => row[i] = granted[k][i]
      BY <1>3
    <3>2. granted' = [granted EXCEPT ![k] = row]
      BY <1>2, <2>1
    <3> HIDE DEF row
    <3>3. granted'[k] = row /\ \A x \in Tenant \ {k} : granted'[x] = granted[x]
      BY <1>3, <3>2
    <3>4. granted' \in [Tenant -> [Instants -> Nat]]
      BY <1>3, <3>1, <3>2
    <3>5. \A x \in Tenant, i \in Instants : i > now => granted'[x][i] = granted[x][i]
      BY <3>1, <3>3
    <3> QED BY <2>1, <3>3, <3>4, <3>5 DEF row
  <2>2. CASE ~ok
    BY <1>2, <1>3, <2>2
  <2> QED BY <2>1, <2>2
<1>12. BucketTypeOK'
  <2>1. Bucket' = Bucket
    BY <1>2 DEF Bucket
  <2>2. bucket' \in [DOMAIN bucket' -> Bucket]
    BY <1>7
  <2>3. DOMAIN bucket' \subseteq Tenant /\ bucket' \in [DOMAIN bucket' -> Bucket']
    BY <1>1, <1>7, <2>1, <2>2
  <2> QED BY <1>2, <1>3, <1>11, <2>3 DEF BucketTypeOK
<1>13. ASSUME NEW x \in Tenant, NEW s \in 0..now
       PROVE  SumFunctionOnSet(granted'[x], s..now) * Piece + Level(x)'
                <= Full + Gain * (now - s)
  <2> DEFINE total == SumFunctionOnSet(granted[x], s..now)
             total2 == SumFunctionOnSet(granted'[x], s..now)
             room == Full + Gain * (now - s)
  <2>1. total * Piece + Level(x) <= room
    BY DEF BudgetInv, Covered
  <2>2. granted[x] \in [Instants -> Nat]
    BY <1>3
  <2>3. /\ total \in Nat
        /\ SumFunctionOnSet([granted[x] EXCEPT ![now] = @ + 1], s..now) = total + 1
    BY <1>3, <2>2, SpanSums
  <2>4. room \in Int
    <3>1. now - s \in Nat
      BY <1>3
    <3> QED BY <3>1, Sizes, Times
  <2>5. CASE x # k
    BY <1>10, <1>11, <2>1, <2>5
  <2>6. CASE x = k /\ ok
    <3>1. total2 = total + 1
      BY <1>11, <2>3, <2>6
    <3>2. total2 * Piece = total * Piece + Piece /\ total * Piece \in Nat
      BY <2>3, <3>1, PieceTimes
    <3>3. Level(x)' = left * Span /\ left + Unit = parts /\ parts * Span <= Level(x)
      BY <1>4, <1>5, <1>10, <2>6
    <3>4. left * Span + Piece = parts * Span /\ left * Span \in Nat
      <4>1. left \in Nat
        BY <1>5, Sizes
      <4>2. (left + Unit) * Span = left * Span + Unit * Span /\ left * Span \in Nat
        BY <4>1, Sizes, Times
      <4> QED BY <3>3, <4>2 DEF Piece
    <3>5. Level(x) \in Nat
      BY LevelType DEF BudgetInv
    <3> HIDE DEF total, total2, room
    <3>6. total2 * Piece + Level(x)' <= room
      BY <2>1, <2>4, <3>2, <3>3, <3>4, <3>5, Sizes
    <3> QED BY <3>6 DEF total2, room
  <2>7. CASE x = k /\ ~ok
    <3>1. total2 = total
      BY <1>11, <2>7
    <3>2. Level(x)' = left * Span /\ left = parts /\ parts * Span <= Level(x)
      <4>1. left \in Nat /\ parts \in Nat
        BY <1>4, <1>5, Sizes
      <4> QED BY <1>4, <1>5, <1>10, <2>7, <4>1
    <3>4. Level(x) \in Nat /\ Level(x)' \in Nat /\ total * Piece \in Nat
      <4>1. left \in Nat
        BY <1>5, Sizes
      <4> QED BY <2>3, <3>2, <4>1, LevelType, Sizes, Times, PieceTimes DEF BudgetInv
    <3> HIDE DEF total, total2, room
    <3>3. total2 * Piece + Level(x)' <= room
      BY <2>1, <2>4, <3>1, <3>2, <3>4
    <3> QED BY <3>3 DEF total2, room
  <2> QED BY <2>5, <2>6, <2>7
<1>14. Covered'
  <2>1. \A x \in Tenant, s \in 0..now' :
          SumFunctionOnSet(granted'[x], s..now') * Piece + Level(x)'
            <= Full + Gain * (now' - s)
    BY <1>2, <1>13
  <2> QED BY <2>1 DEF Covered
<1> QED BY <1>12, <1>14 DEF BudgetInv

\* As time passes nothing is granted, and no bucket gains more than Gain.
LEMMA TickKeepsBudget ==
  ASSUME BudgetInv, LimitTick
  PROVE  BudgetInv'
<1>1. /\ now \in Instants /\ now \in Nat /\ now' = now + 1 /\ now' \in Instants
      /\ bucket' = bucket /\ granted' = granted
  BY ClockAssumption DEF BudgetInv, BucketTypeOK, Instants, LimitTick, Tick, limitVars
<1>2. BucketTypeOK'
  <2>1. Bucket \subseteq Bucket'
    BY <1>1 DEF Bucket
  <2>2. bucket' \in [DOMAIN bucket' -> Bucket']
    BY <1>1, <2>1 DEF BudgetInv, BucketTypeOK
  <2>3. \A x \in Tenant, i \in Instants : i > now' => granted'[x][i] = 0
    BY <1>1 DEF BudgetInv, BucketTypeOK, Instants
  <2> QED BY <1>1, <2>2, <2>3 DEF BudgetInv, BucketTypeOK
<1>3. BucketTypeOK /\ Full \in Nat /\ Gain \in Nat
  BY Sizes DEF BudgetInv
<1>4. ASSUME NEW x \in Tenant
      PROVE  Level(x)' \in Nat /\ Level(x)' <= Full /\ Level(x)' <= Level(x) + Gain
  <2>1. CASE x \notin DOMAIN bucket
    BY <1>1, <1>3, <2>1 DEF Level
  <2>2. CASE x \in DOMAIN bucket
    <3>1. PICK b : b = bucket[x]
      OBVIOUS
    <3>2. b \in Bucket
      BY <2>2, <3>1, <1>3 DEF BucketTypeOK
    <3>3. PICK p, t : p = b.parts /\ t = b.last
      OBVIOUS
    <3>4. b = [parts |-> p, last |-> t] /\ p \in 0..(Burst * Unit) /\ t \in Nat /\ t <= now
      BY <1>1, <3>2, <3>3, BucketIs
    <3> DEFINE had == p * Span
               gain == (now - t) * Gain
    <3>5. /\ had \in Nat /\ had <= Full /\ gain \in Nat
          /\ Topped(b) \in {Full, had + gain} /\ Topped(b) <= Full /\ Topped(b) <= had + gain
      BY <1>1, <3>4, ToppedIs
    <3>6. (now' - t) * Gain = gain + Gain
      <4>1. now - t \in Nat /\ now' - t = (now - t) + 1
        BY <1>1, <3>4
      <4> QED BY <1>3, <4>1, Times
    <3>7. Level(x) = Topped(b) /\ Level(x)' = Min({Full, had + (gain + Gain)})
      <4>1. Level(x)' = Min({Full, had + (now' - t) * Gain})
        BY <1>1, <2>2, <3>1, <3>3 DEF Level, Topped
      <4> QED BY <2>2, <3>1, <3>6, <4>1 DEF Level
    <3> HIDE DEF had, gain
    <3>8. /\ Level(x)' \in {Full, had + (gain + Gain)} /\ Level(x)' <= Full
          /\ Level(x)' <= had + (gain + Gain)
      BY <1>3, <3>5, <3>7, MinTwo
    <3> QED BY <1>3, <3>5, <3>7, <3>8
  <2> QED BY <2>1, <2>2
<1>5. ASSUME NEW x \in Tenant, NEW s \in 0..now'
      PROVE  SumFunctionOnSet(granted[x], s..now') * Piece + Level(x)'
               <= Full + Gain * (now' - s)
  <2>1. granted[x] \in [Instants -> Nat] /\ granted[x][now'] = 0
    BY <1>1, <1>3 DEF BucketTypeOK
  <2>2. Level(x) \in Nat /\ Level(x)' \in Nat /\ Level(x)' <= Level(x) + Gain
        /\ Level(x)' <= Full
    BY <1>3, <1>4, LevelType
  <2>3. CASE s \in 0..now
    <3> DEFINE total == SumFunctionOnSet(granted[x], s..now)
               gain == Gain * (now - s)
    <3>1. total \in Nat /\ SumFunctionOnSet(granted[x], s..(now + 1)) = total
      BY <1>1, <2>1, <2>3, SpanSums
    <3>2. SumFunctionOnSet(granted[x], s..now') = total
      BY <1>1, <3>1
    <3>3. total * Piece + Level(x) <= Full + gain /\ total * Piece \in Nat
      BY <2>3, <3>1, PieceTimes DEF BudgetInv, Covered
    <3>4. now' - s = (now - s) + 1 /\ now - s \in Nat
      BY <1>1, <2>3
    <3>5. Gain * ((now - s) + 1) = gain + Gain /\ gain \in Nat
      <4>1. /\ Gain * (now - s) = (now - s) * Gain
            /\ ((now - s) + 1) * Gain = (now - s) * Gain + Gain
            /\ (now - s) * Gain \in Nat
        BY <1>3, <3>4, Times
      <4>2. Gain * ((now - s) + 1) = ((now - s) + 1) * Gain
        BY <1>3, <3>4, Times
      <4> QED BY <4>1, <4>2
    <3>6. Gain * (now' - s) = gain + Gain
      BY <3>4, <3>5
    <3> HIDE DEF total, gain
    <3>7. total * Piece + Level(x)' <= Full + (gain + Gain)
      BY <1>3, <2>2, <3>3, <3>5
    <3> QED BY <3>2, <3>6, <3>7
  <2>4. CASE s = now'
    <3>1. PICK y : y = now'
      OBVIOUS
    <3>2. s..now' = {} \cup {y} /\ now' - s = 0
      BY <1>1, <2>4, <3>1
    <3>3. SumFunctionOnSet(granted[x], {} \cup {y}) = granted[x][y] + SumFunctionOnSet(granted[x], {})
      BY <2>1, <3>1, FS_EmptySet, SumAdd
    <3>4. SumFunctionOnSet(granted[x], {}) = 0
      BY SumEmpty
    <3>5. SumFunctionOnSet(granted[x], {} \cup {y}) = 0
      BY <2>1, <3>1, <3>3, <3>4
    <3>6. SumFunctionOnSet(granted[x], s..now') = 0
      BY <3>2, <3>5
    <3>7. Gain * (now' - s) = 0 /\ 0 * Piece = 0
      BY <3>2, Sizes
    <3> QED BY <1>3, <2>2, <3>6, <3>7
  <2> QED BY <1>1, <2>3, <2>4
<1>6. Covered'
  <2>1. \A x \in Tenant, s \in 0..now' :
          SumFunctionOnSet(granted'[x], s..now') * Piece + Level(x)'
            <= Full + Gain * (now' - s)
    BY <1>1, <1>5
  <2> QED BY <2>1 DEF Covered
<1> QED BY <1>2, <1>6 DEF BudgetInv

\* Calls and time keep the budget.
LEMMA BudgetInvStep == BudgetInv /\ [BucketNext]_<<now, limitVars>> => BudgetInv'
<1> SUFFICES ASSUME BudgetInv, [BucketNext]_<<now, limitVars>> PROVE BudgetInv'
  OBVIOUS
<1>1. CASE UNCHANGED <<now, limitVars>>
  <2>1. now' = now /\ bucket' = bucket /\ granted' = granted
    BY <1>1 DEF limitVars
  <2> QED BY <2>1 DEF BudgetInv, BucketTypeOK, Covered, Bucket, Level, Topped
<1> QED BY <1>1, AllowKeepsBudget, TickKeepsBudget DEF BucketNext

\* No tenant is allowed more, in any stretch of time, than a burst and what the rate
\* gives in it or, where that is more, a burst for each time that its bucket may have
\* been dropped (Limiter.Allow, evict), whatever rate, burst and idle time are.
THEOREM BudgetIsKept == BucketSpec => []BudgetHolds
<1>1. BudgetInv => BudgetHolds
  <2> SUFFICES ASSUME BudgetInv, NEW k \in Tenant, NEW s \in 0..now
               PROVE  SumFunctionOnSet(granted[k], s..now) * Piece <= Full + Gain * (now - s)
    BY DEF BudgetHolds, Piece, Full
  <2> DEFINE total == SumFunctionOnSet(granted[k], s..now)
             gain == Gain * (now - s)
  <2>1. total * Piece + Level(k) <= Full + gain
    BY DEF BudgetInv, Covered
  <2>2. granted[k] \in [Instants -> Nat] /\ now \in Instants /\ now - s \in Nat
    BY DEF BudgetInv, BucketTypeOK, Instants
  <2>3. total * Piece \in Nat
    BY <2>2, SpanSums, PieceTimes
  <2>4. gain \in Nat /\ Full \in Nat /\ Level(k) \in Nat
    BY <2>2, Sizes, Times, LevelType DEF BudgetInv
  <2> HIDE DEF total, gain
  <2>5. total * Piece <= Full + gain
    BY <2>1, <2>3, <2>4
  <2> QED BY <2>5 DEF total, gain
<1> QED BY <1>1, BudgetInvInit, BudgetInvStep, PTL DEF BucketSpec

-----------------------------------------------------------------------------
(* Limits: the sign-ins of an address *)

WindowOf(s) == {i \in Instants : s <= i /\ i < s + Window}

\* Sign-ins under way that may yet fail in the window.
Pending(s) == IF now < s + Window THEN Cardinality(signing) ELSE 0

SignInTypeOK ==
  /\ now \in Instants
  /\ failures \in [Instants -> Nat]
  /\ signing \subseteq Attempt
  /\ \A i \in Instants : i > now => failures[i] = 0

\* The failures of a window, with those that may be added, are fewer than the bound.
Counted ==
  \A s \in Instants :
    SumFunctionOnSet(failures, WindowOf(s)) + Pending(s) < MaxFails + Cardinality(Attempt)

SignInInv == SignInTypeOK /\ Counted

\* The sizes the limit speaks of are numbers.
LEMMA SignInNumbers ==
  ASSUME SignInTypeOK
  PROVE  /\ now \in Nat /\ MaxFails \in Nat \ {0} /\ Window \in Nat \ {0}
         /\ IsFiniteSet(signing) /\ Cardinality(signing) \in Nat
         /\ Cardinality(Attempt) \in Nat /\ Cardinality(signing) <= Cardinality(Attempt)
<1>1. now \in Nat /\ MaxFails \in Nat \ {0} /\ Window \in Nat \ {0} /\ IsFiniteSet(Attempt)
  BY LimitsAssumption DEF SignInTypeOK, Instants, LimitsAssumption
<1>2. IsFiniteSet(signing) /\ Cardinality(signing) <= Cardinality(Attempt)
  BY <1>1, FS_Subset DEF SignInTypeOK
<1> QED BY <1>1, <1>2, FS_CardinalityType

\* At first nobody has failed.
LEMMA SignInInvInit == now = 0 /\ LimitInit => SignInInv
<1> SUFFICES ASSUME now = 0, LimitInit PROVE SignInInv
  OBVIOUS
<1>1. SignInTypeOK
  BY ClockAssumption DEF LimitInit, SignInTypeOK, Instants
<1>2. ASSUME NEW s \in Instants
      PROVE  SumFunctionOnSet(failures, WindowOf(s)) + Pending(s) < MaxFails + Cardinality(Attempt)
  <2>1. WindowOf(s) \in SUBSET Instants /\ \A i \in Instants : failures[i] = 0
    BY DEF WindowOf, LimitInit
  <2>2. IsFiniteSet(WindowOf(s))
    BY <1>1, <2>1, InstantSums DEF SignInTypeOK
  <2>3. SumFunctionOnSet(failures, WindowOf(s)) = SumFunctionOnSet(failures, {})
    <3>1. (\A x \in WindowOf(s) : failures[x] \in Nat) /\ {} \in SUBSET WindowOf(s)
          /\ \A x \in WindowOf(s) \ {} : failures[x] = 0
      BY <2>1
    <3> QED BY <2>2, <3>1, SumZero
  <2>4. SumFunctionOnSet(failures, {}) = 0
    BY SumEmpty
  <2>5. Pending(s) = 0
    BY FS_EmptySet DEF Pending, LimitInit
  <2> QED BY <1>1, <2>3, <2>4, <2>5, SignInNumbers
<1> QED BY <1>1, <1>2 DEF SignInInv, Counted

\* What has failed in a window that has not ended failed recently.
LEMMA WindowIsRecent ==
  ASSUME SignInTypeOK, NEW s \in Instants, now < s + Window
  PROVE  SumFunctionOnSet(failures, WindowOf(s)) <= Recent(now)
<1> DEFINE R == {i \in Instants : i <= now /\ i + Window > now}
           past == {i \in WindowOf(s) : i <= now}
<1>1. R \in SUBSET Instants /\ WindowOf(s) \in SUBSET Instants
  BY DEF WindowOf
<1>2. past \in SUBSET WindowOf(s)
  OBVIOUS
<1>3. past \in SUBSET R
  <2> SUFFICES ASSUME NEW i \in past PROVE i \in R
    OBVIOUS
  <2>1. i \in Instants /\ s <= i /\ i <= now /\ i \in Nat /\ s \in Nat
    BY DEF WindowOf, Instants
  <2> QED BY <2>1, SignInNumbers
<1>4. \A i \in WindowOf(s) \ past : failures[i] = 0
  <2> SUFFICES ASSUME NEW i \in WindowOf(s) \ past PROVE failures[i] = 0
    OBVIOUS
  <2>1. i \in Instants /\ ~(i <= now) /\ i \in Nat
    BY DEF WindowOf, Instants
  <2> QED BY <2>1, SignInNumbers DEF SignInTypeOK
<1>5. IsFiniteSet(R) /\ IsFiniteSet(WindowOf(s)) /\ \A i \in Instants : failures[i] \in Nat
  <2> HIDE DEF R
  <2> QED BY <1>1, InstantSums DEF SignInTypeOK
<1>6. Recent(now) = SumFunctionOnSet(failures, R)
  BY DEF Recent
<1> HIDE DEF R, past
<1>7. SumFunctionOnSet(failures, WindowOf(s)) = SumFunctionOnSet(failures, past)
  <2>1. \A i \in WindowOf(s) : failures[i] \in Nat
    BY <1>1, <1>5
  <2> QED BY <1>2, <1>4, <1>5, <2>1, SumZero
<1>8. SumFunctionOnSet(failures, past) <= SumFunctionOnSet(failures, R)
  <2>1. \A i \in R : failures[i] \in Nat
    BY <1>1, <1>5
  <2> QED BY <1>3, <1>5, <2>1, SumSubset
<1> QED BY <1>6, <1>7, <1>8

\* A sign-in is let in only where it still fits in every window.
LEMMA AllowKeepsCount ==
  ASSUME SignInInv, NEW a \in Attempt, AllowSignIn(a)
  PROVE  SignInInv'
<1>1. /\ Recent(now) < MaxFails /\ signing' = signing \cup {a}
      /\ failures' = failures /\ now' = now
  BY DEF AllowSignIn
<1>2. SignInTypeOK /\ SignInTypeOK'
  BY <1>1 DEF SignInInv, SignInTypeOK
<1>3. /\ now \in Nat /\ MaxFails \in Nat \ {0} /\ Cardinality(Attempt) \in Nat
      /\ Cardinality(signing') \in Nat /\ Cardinality(signing') <= Cardinality(Attempt)
  <2>1. IsFiniteSet(Attempt) /\ signing' \in SUBSET Attempt
    BY <1>2, LimitsAssumption DEF LimitsAssumption, SignInTypeOK
  <2>2. IsFiniteSet(signing') /\ Cardinality(signing') <= Cardinality(Attempt)
    BY <2>1, FS_Subset
  <2> QED BY <1>2, <2>2, SignInNumbers, FS_CardinalityType
<1>4. ASSUME NEW s \in Instants
      PROVE  SumFunctionOnSet(failures, WindowOf(s)) + Pending(s)' < MaxFails + Cardinality(Attempt)
  <2> DEFINE total == SumFunctionOnSet(failures, WindowOf(s))
  <2>1. total \in Nat
    <3>1. WindowOf(s) \in SUBSET Instants
      BY DEF WindowOf
    <3> QED BY <1>2, <3>1, InstantSums DEF SignInTypeOK
  <2>2. CASE now < s + Window
    <3>1. total <= Recent(now) /\ Recent(now) \in Nat
      <4>1. total <= Recent(now)
        BY <1>2, <2>2, WindowIsRecent
      <4> DEFINE R == {i \in Instants : i <= now /\ i + Window > now}
      <4>2. R \in SUBSET Instants /\ Recent(now) = SumFunctionOnSet(failures, R)
        BY DEF Recent
      <4> HIDE DEF R
      <4>3. Recent(now) \in Nat
        BY <1>2, <4>2, InstantSums DEF SignInTypeOK
      <4> QED BY <4>1, <4>3
    <3>2. Pending(s)' = Cardinality(signing')
      BY <1>1, <2>2 DEF Pending
    <3> HIDE DEF total
    <3>3. total + Pending(s)' < MaxFails + Cardinality(Attempt)
      BY <1>1, <1>3, <2>1, <3>1, <3>2
    <3> QED BY <3>3 DEF total
  <2>3. CASE ~(now < s + Window)
    <3>1. Pending(s)' = Pending(s)
      BY <1>1, <2>3 DEF Pending
    <3> QED BY <3>1 DEF SignInInv, Counted
  <2> QED BY <2>2, <2>3
<1>5. Counted'
  BY <1>1, <1>4 DEF Counted, WindowOf
<1> QED BY <1>2, <1>5 DEF SignInInv

\* A sign-in that ends is a failure at most.
LEMMA EndKeepsCount ==
  ASSUME SignInInv, NEW a \in Attempt, NEW failed \in BOOLEAN, EndSignIn(a, failed)
  PROVE  SignInInv'
<1>1. /\ a \in signing /\ signing' = signing \ {a} /\ now' = now
      /\ failures' = IF failed THEN [failures EXCEPT ![now] = @ + 1] ELSE failures
  BY DEF EndSignIn
<1>2. SignInTypeOK /\ now \in Instants /\ now \in Nat /\ failures \in [Instants -> Nat]
  BY SignInNumbers DEF SignInInv, SignInTypeOK
<1>3. SignInTypeOK'
  <2>1. failures' \in [Instants -> Nat]
    BY <1>1, <1>2
  <2>2. \A i \in Instants : i > now => failures'[i] = failures[i]
    BY <1>1, <1>2
  <2> QED BY <1>1, <1>2, <2>1, <2>2 DEF SignInTypeOK
<1>4. /\ Cardinality(signing) \in Nat
      /\ Cardinality(signing') = Cardinality(signing) - 1
      /\ Cardinality(signing') \in Nat
      /\ MaxFails \in Nat /\ Cardinality(Attempt) \in Nat
  <2>1. IsFiniteSet(signing) /\ Cardinality(signing) \in Nat /\ MaxFails \in Nat
        /\ Cardinality(Attempt) \in Nat
    BY <1>2, SignInNumbers
  <2>2. Cardinality(signing') = Cardinality(signing) - 1 /\ IsFiniteSet(signing')
    BY <1>1, <2>1, FS_RemoveElement
  <2> QED BY <2>1, <2>2, FS_CardinalityType
<1>5. ASSUME NEW s \in Instants
      PROVE  SumFunctionOnSet(failures', WindowOf(s)) + Pending(s)' < MaxFails + Cardinality(Attempt)
  <2> DEFINE total == SumFunctionOnSet(failures, WindowOf(s))
             total2 == SumFunctionOnSet(failures', WindowOf(s))
  <2>1. WindowOf(s) \in SUBSET Instants
    BY DEF WindowOf
  <2>2. total \in Nat /\ total + Pending(s) < MaxFails + Cardinality(Attempt)
        /\ IsFiniteSet(WindowOf(s))
    BY <1>2, <2>1, InstantSums DEF SignInInv, Counted
  <2>3. total2 = IF failed /\ now \in WindowOf(s) THEN total + 1 ELSE total
    <3> DEFINE W == WindowOf(s)
    <3>1. W \in SUBSET Instants /\ IsFiniteSet(W)
      BY <2>1, <2>2
    <3> HIDE DEF W
    <3> DEFINE more == [failures EXCEPT ![now] = @ + 1]
    <3>2. /\ now \in W => SumFunctionOnSet(more, W) = SumFunctionOnSet(failures, W) + 1
          /\ now \notin W => SumFunctionOnSet(more, W) = SumFunctionOnSet(failures, W)
      <4>1. failures \in [Instants -> Nat] /\ now \in Instants
        BY <1>2
      <4> QED BY <3>1, <4>1, OneMore
    <3>3. CASE failed
      <4>1. failures' = more
        BY <1>1, <3>3
      <4> HIDE DEF more
      <4> QED BY <3>2, <3>3, <4>1 DEF W
    <3>4. CASE ~failed
      BY <1>1, <3>4
    <3> QED BY <3>3, <3>4
  <2>4. now \in WindowOf(s) => now < s + Window
    BY DEF WindowOf
  <2>5. CASE now < s + Window
    <3>1. Pending(s) = Cardinality(signing) /\ Pending(s)' = Cardinality(signing')
      BY <1>1, <2>5 DEF Pending
    <3> HIDE DEF total, total2
    <3>2. total2 + Pending(s)' < MaxFails + Cardinality(Attempt)
      BY <1>4, <2>2, <2>3, <3>1
    <3> QED BY <3>2 DEF total2
  <2>6. CASE ~(now < s + Window)
    <3>1. Pending(s) = 0 /\ Pending(s)' = 0
      BY <1>1, <2>6 DEF Pending
    <3>2. total2 = total
      BY <2>3, <2>4, <2>6
    <3> HIDE DEF total, total2
    <3>3. total2 + Pending(s)' < MaxFails + Cardinality(Attempt)
      BY <2>2, <3>1, <3>2
    <3> QED BY <3>3 DEF total2
  <2> QED BY <2>5, <2>6
<1>6. Counted'
  BY <1>1, <1>5 DEF Counted, WindowOf
<1> QED BY <1>3, <1>6 DEF SignInInv

\* Sign-ins that begin and end, and time, keep the count.
LEMMA SignInInvStep == SignInInv /\ [SignInNext]_<<now, limitVars>> => SignInInv'
<1> SUFFICES ASSUME SignInInv, [SignInNext]_<<now, limitVars>> PROVE SignInInv'
  OBVIOUS
<1>1. CASE LimitTick
  <2>1. /\ now \in Nat /\ now' = now + 1 /\ now' \in Instants
        /\ failures' = failures /\ signing' = signing
    BY <1>1, ClockAssumption DEF LimitTick, Tick, limitVars, SignInInv, SignInTypeOK, Instants
  <2>2. SignInTypeOK'
    BY <2>1 DEF SignInInv, SignInTypeOK, Instants
  <2>3. ASSUME NEW s \in Instants
        PROVE  SumFunctionOnSet(failures, WindowOf(s)) + Pending(s)' < MaxFails + Cardinality(Attempt)
    <3> DEFINE total == SumFunctionOnSet(failures, WindowOf(s))
    <3>1. WindowOf(s) \in SUBSET Instants /\ failures \in [Instants -> Nat] /\ SignInTypeOK
      BY DEF WindowOf, SignInInv, SignInTypeOK
    <3>2. total \in Nat /\ total + Pending(s) < MaxFails + Cardinality(Attempt)
      BY <3>1, InstantSums DEF SignInInv, Counted
    <3>3. s \in Nat /\ Window \in Nat /\ MaxFails \in Nat /\ Cardinality(Attempt) \in Nat
          /\ Cardinality(signing) \in Nat
      BY <3>1, SignInNumbers DEF Instants
    <3>4. now' < s + Window => now < s + Window
      BY <2>1, <3>3
    <3>5. Pending(s) \in Nat /\ Pending(s)' \in Nat /\ Pending(s)' <= Pending(s)
      BY <2>1, <3>3, <3>4 DEF Pending
    <3> HIDE DEF total
    <3>6. total + Pending(s)' < MaxFails + Cardinality(Attempt)
      BY <3>2, <3>3, <3>5
    <3> QED BY <3>6 DEF total
  <2>4. Counted'
    BY <2>1, <2>3 DEF Counted, WindowOf
  <2> QED BY <2>2, <2>4 DEF SignInInv
<1>2. CASE UNCHANGED <<now, limitVars>>
  <2>1. now' = now /\ failures' = failures /\ signing' = signing
    BY <1>2 DEF limitVars
  <2> QED BY <2>1 DEF SignInInv, SignInTypeOK, Counted, WindowOf, Pending
<1> QED BY <1>1, <1>2, AllowKeepsCount, EndKeepsCount DEF SignInNext

\* No window of time, wherever it starts, holds more failed sign-ins of an address
\* than the limit and one for each that was already past it, however they overlap.
THEOREM FailuresAreFew == SignInSpec => []FailuresHold
<1>1. SignInInv => FailuresHold
  <2> SUFFICES ASSUME SignInInv, NEW s \in Instants
               PROVE  SumFunctionOnSet(failures, WindowOf(s)) < MaxFails + Cardinality(Attempt)
    BY DEF FailuresHold, WindowOf
  <2> DEFINE total == SumFunctionOnSet(failures, WindowOf(s))
  <2>1. WindowOf(s) \in SUBSET Instants /\ failures \in [Instants -> Nat] /\ SignInTypeOK
    BY DEF WindowOf, SignInInv, SignInTypeOK
  <2>2. total \in Nat /\ total + Pending(s) < MaxFails + Cardinality(Attempt)
    BY <2>1, InstantSums DEF SignInInv, Counted
  <2>3. Pending(s) \in Nat /\ MaxFails \in Nat /\ Cardinality(Attempt) \in Nat
    BY <2>1, SignInNumbers DEF Pending
  <2> HIDE DEF total
  <2>4. total < MaxFails + Cardinality(Attempt)
    BY <2>2, <2>3
  <2> QED BY <2>4 DEF total
<1> QED BY <1>1, SignInInvInit, SignInInvStep, PTL DEF SignInSpec

-----------------------------------------------------------------------------
(* Rules: the best one *)

\* There are five criteria.
LEMMA SpecificityBound == \A r : Specificity(r) \in 0..5
<1> SUFFICES ASSUME NEW r PROVE Specificity(r) \in 0..5
  OBVIOUS
<1>1. IsFiniteSet(Criteria) /\ Cardinality(Criteria) = 3
  <2>1. IsFiniteSet({"type"}) /\ Cardinality({"type"}) = 1
    BY FS_Singleton
  <2>2. IsFiniteSet({"type", "provider"}) /\ Cardinality({"type", "provider"}) = 2
    <3>1. {"type", "provider"} = {"type"} \cup {"provider"} /\ "provider" \notin {"type"}
      OBVIOUS
    <3> QED BY <3>1, <2>1, FS_AddElement
  <2>3. /\ {"type", "provider", "currency"} = {"type", "provider"} \cup {"currency"}
        /\ "currency" \notin {"type", "provider"}
    OBVIOUS
  <2> QED BY <2>2, <2>3, FS_AddElement DEF Criteria
<1>2. IsFiniteSet({"min", "max"}) /\ Cardinality({"min", "max"}) = 2
  <2>1. IsFiniteSet({"min"}) /\ Cardinality({"min"}) = 1
    BY FS_Singleton
  <2>2. {"min", "max"} = {"min"} \cup {"max"} /\ "max" \notin {"min"}
    OBVIOUS
  <2> QED BY <2>1, <2>2, FS_AddElement
<1>3. PICK C : C = {c \in Criteria : r.want[c] # Unset}
  OBVIOUS
<1>4. PICK B : B = {b \in {"min", "max"} : r[b] # Unset}
  OBVIOUS
<1>5. C \in SUBSET Criteria /\ B \in SUBSET {"min", "max"}
  BY <1>3, <1>4
<1>6. Cardinality(C) \in 0..3
  <2>1. IsFiniteSet(C) /\ Cardinality(C) <= 3
    BY <1>1, <1>5, FS_Subset
  <2> QED BY <2>1, FS_CardinalityType
<1>7. Cardinality(B) \in 0..2
  <2>1. IsFiniteSet(B) /\ Cardinality(B) <= 2
    BY <1>2, <1>5, FS_Subset
  <2> QED BY <2>1, FS_CardinalityType
<1>8. Specificity(r) = Cardinality(C) + Cardinality(B)
  BY <1>3, <1>4 DEF Specificity
<1> QED BY <1>6, <1>7, <1>8

\* The comparison of rules.go is the order by priority, criteria and age.
LEMMA BetterIsBeats ==
  ASSUME NEW r \in Rule, NEW s \in Rule
  PROVE  Better(r, s) <=> Beats(r, s)
<1>1. Specificity(r) \in 0..5 /\ Specificity(s) \in 0..5
  BY SpecificityBound
<1>2. r.priority \in Int /\ s.priority \in Int /\ r.id \in Nat /\ s.id \in Nat
  BY RulesAssumption
<1> QED BY <1>1, <1>2 DEF Better, Beats

\* It is a strict total order, since no two rules have an id.
LEMMA BeatsIsOrder ==
  ASSUME NEW r \in Rule, NEW s \in Rule, NEW u \in Rule
  PROVE  /\ r # s => Beats(r, s) \/ Beats(s, r)
         /\ ~(Beats(r, s) /\ Beats(s, r))
         /\ Beats(r, s) /\ Beats(s, u) => Beats(r, u)
<1>1. Specificity(r) \in 0..5 /\ Specificity(s) \in 0..5 /\ Specificity(u) \in 0..5
  BY SpecificityBound
<1>2. /\ r.priority \in Int /\ s.priority \in Int /\ u.priority \in Int
      /\ r.id \in Nat /\ s.id \in Nat /\ u.id \in Nat
      /\ r # s => r.id # s.id
  BY RulesAssumption
<1> QED BY <1>1, <1>2 DEF Beats

Best(r, those) == r \in those /\ \A s \in those \ {r} : Beats(r, s)
BestOrNone(r, those) == IF those = {} THEN r = NoRule ELSE Best(r, those)

\* So the best is the only one.
LEMMA BestIsUnique ==
  ASSUME NEW those \in SUBSET Rule, NEW r, Best(r, those)
  PROVE  r = CHOOSE x \in those : \A s \in those \ {x} : Beats(x, s)
<1> DEFINE c == CHOOSE x \in those : \A s \in those \ {x} : Beats(x, s)
<1>1. Best(c, those)
  BY DEF Best
<1> HIDE DEF c
<1>2. c = r
  BY <1>1, BeatsIsOrder DEF Best
<1> QED BY <1>2 DEF c

\* One step of Resolve: the best of the first n rules.
BestStep(set, t, g, n) ==
  IF n = 0 THEN NoRule
  ELSE IF Wins(set[n], t, g[n - 1]) THEN set[n] ELSE g[n - 1]

Resolves(set, t, g, m) == g = [n \in 0..m |-> BestStep(set, t, g, n)]

\* The recursion is well defined.
LEMMA ResolveExists ==
  ASSUME NEW set \in Seq(Rule), NEW t
  PROVE  \E g : Resolves(set, t, g, Len(set))
<1> DEFINE Bad == {m \in 0..Len(set) : ~\E g : Resolves(set, t, g, m)}
<1>0. Len(set) \in 0..Len(set) /\ Bad \in SUBSET Nat
  OBVIOUS
<1>1. SUFFICES ASSUME Bad # {} PROVE FALSE
  BY <1>0
<1>2. PICK m \in Bad : \A k \in Bad : m <= k
  <2> HIDE DEF Bad
  <2> QED BY <1>0, <1>1, LeastNat
<1>3. m \in 0..Len(set) /\ ~\E g : Resolves(set, t, g, m)
  OBVIOUS
<1>4. CASE m = 0
  <2> DEFINE h == [n \in 0..0 |-> NoRule]
  <2>1. h = [n \in 0..0 |-> BestStep(set, t, h, n)]
    BY DEF BestStep
  <2> HIDE DEF h
  <2> QED BY <2>1, <1>3, <1>4 DEF Resolves
<1>5. CASE m # 0
  <2>1. m - 1 \in 0..Len(set) /\ m \in Nat /\ ~(m <= m - 1)
    BY <1>3, <1>5
  <2>2. PICK g : Resolves(set, t, g, m - 1)
    BY <1>2, <2>1
  <2> DEFINE h == [n \in 0..m |-> IF n = m THEN BestStep(set, t, g, m) ELSE g[n]]
  <2>3. ASSUME NEW n \in 0..m PROVE h[n] = BestStep(set, t, h, n)
    <3>1. CASE n = 0
      BY <3>1, <2>1, <2>2, <1>5 DEF Resolves, BestStep
    <3>2. CASE n # 0
      <4>1. n - 1 \in 0..(m - 1) /\ n - 1 # m /\ n - 1 \in 0..m
        BY <3>2, <2>1
      <4>2. h[n - 1] = g[n - 1]
        BY <4>1
      <4>3. BestStep(set, t, h, n) = BestStep(set, t, g, n)
        BY <3>2, <4>2 DEF BestStep
      <4>4. CASE n = m
        BY <4>3, <4>4
      <4>5. CASE n # m
        <5>1. n \in 0..(m - 1)
          BY <4>5, <2>1
        <5>2. g[n] = BestStep(set, t, g, n)
          BY <5>1, <2>2 DEF Resolves
        <5> QED BY <5>2, <4>3, <4>5
      <4> QED BY <4>4, <4>5
    <3> QED BY <3>1, <3>2
  <2>4. h = [n \in 0..m |-> h[n]]
    OBVIOUS
  <2>5. Resolves(set, t, h, m)
    <3> HIDE DEF h
    <3>1. [n \in 0..m |-> h[n]] = [n \in 0..m |-> BestStep(set, t, h, n)]
      BY <2>3
    <3> QED BY <3>1, <2>4 DEF Resolves
  <2> QED BY <2>5, <1>3
<1> QED BY <1>4, <1>5

\* One rule more: the pass keeps the best of those it has seen.
LEMMA BestOfOneMore ==
  ASSUME NEW those \in SUBSET Rule, NEW r \in Rule, NEW t, NEW best,
         BestOrNone(best, those),
         NEW next, next = IF Wins(r, t, best) THEN r ELSE best,
         NEW more, more = IF Matches(r, t) THEN those \cup {r} ELSE those
  PROVE  BestOrNone(next, more)
<1> USE DEF BestOrNone
<1>1. \A x \in Rule : x # NoRule
  <2>1. NoRule.id = 0
    BY DEF NoRule
  <2> QED BY <2>1, RulesAssumption
<1>2. CASE ~Matches(r, t)
  BY <1>2 DEF Wins
<1>3. CASE Matches(r, t) /\ those = {}
  BY <1>3 DEF Wins, Best
<1>4. CASE Matches(r, t) /\ those # {}
  <2>1. best \in those /\ best \in Rule /\ best # NoRule /\ Best(best, those)
    BY <1>1, <1>4 DEF Best
  <2>2. Wins(r, t, best) <=> Beats(r, best)
    BY <1>4, <2>1, BetterIsBeats DEF Wins
  <2>3. CASE Beats(r, best)
    <3>1. ASSUME NEW s \in those PROVE Beats(r, s)
      <4>1. CASE s = best
        BY <4>1, <2>3
      <4>2. CASE s # best
        <5>1. Beats(best, s) /\ s \in Rule
          BY <4>2, <2>1 DEF Best
        <5> QED BY <5>1, <2>1, <2>3, BeatsIsOrder
      <4> QED BY <4>1, <4>2
    <3> QED BY <1>4, <2>2, <2>3, <3>1 DEF Best
  <2>4. CASE ~Beats(r, best)
    <3>1. r # best => Beats(best, r)
      BY <2>1, <2>4, BeatsIsOrder
    <3> QED BY <1>4, <2>1, <2>2, <2>4, <3>1 DEF Best
  <2> QED BY <2>3, <2>4
<1> QED BY <1>2, <1>3, <1>4

\* One pass, in whatever order, ends with the best of the rules that match.
LEMMA ResolveIsBest ==
  ASSUME NEW set \in Seq(Rule), NEW t
  PROVE  Resolve(set, t) = BestOf(Range(set), t)
<1> DEFINE g == CHOOSE g : Resolves(set, t, g, Len(set))
<1>1. Resolve(set, t) = g[Len(set)]
  BY DEF Resolve, Resolves, BestStep
<1>2. Resolves(set, t, g, Len(set))
  BY ResolveExists
<1> HIDE DEF g
<1> DEFINE Those(n) == {r \in Rule : (\E i \in 1..n : r = set[i]) /\ Matches(r, t)}
           Good(n) == BestOrNone(g[n], Those(n))
           Bad == {n \in 0..Len(set) : ~Good(n)}
<1>3. ASSUME Bad # {} PROVE FALSE
  <2>1. PICK m \in Bad : \A k \in Bad : m <= k
    <3>1. Bad \in SUBSET Nat
      OBVIOUS
    <3> HIDE DEF Bad
    <3> QED BY <1>3, <3>1, LeastNat
  <2>2. m \in 0..Len(set) /\ ~Good(m) /\ Len(set) \in Nat
    OBVIOUS
  <2>3. g[m] = BestStep(set, t, g, m)
    BY <1>2, <2>2 DEF Resolves
  <2>4. CASE m = 0
    <3>1. Those(0) = {}
      OBVIOUS
    <3>2. g[0] = NoRule
      BY <2>3, <2>4 DEF BestStep
    <3>3. Good(0)
      BY <3>1, <3>2 DEF BestOrNone
    <3> QED BY <2>2, <2>4, <3>3
  <2>5. CASE m # 0
    <3>1. m - 1 \in 0..Len(set) /\ ~(m <= m - 1) /\ m \in 1..Len(set)
      BY <2>2, <2>5
    <3>2. Good(m - 1)
      <4> HIDE DEF Good
      <4> QED BY <2>1, <3>1
    <3>3. set[m] \in Rule
      BY <3>1
    <3>4. Those(m) = IF Matches(set[m], t) THEN Those(m - 1) \cup {set[m]} ELSE Those(m - 1)
      <4>1. \A i : i \in 1..m <=> i \in 1..(m - 1) \/ i = m
        BY <3>1
      <4> QED BY <4>1, <3>3
    <3>5. g[m] = IF Wins(set[m], t, g[m - 1]) THEN set[m] ELSE g[m - 1]
      BY <2>3, <2>5 DEF BestStep
    <3>6. PICK those : those = Those(m - 1)
      OBVIOUS
    <3>7. those \in SUBSET Rule
      BY <3>6
    <3>8. BestOrNone(g[m - 1], those)
      BY <3>2, <3>6
    <3>9. Those(m) = IF Matches(set[m], t) THEN those \cup {set[m]} ELSE those
      BY <3>4, <3>6
    <3>10. PICK more : more = Those(m)
      OBVIOUS
    <3>11. more = IF Matches(set[m], t) THEN those \cup {set[m]} ELSE those
      BY <3>9, <3>10
    <3>12. BestOrNone(g[m], more)
      <4> HIDE DEF Those, Good, Bad
      <4>1. PICK r, best, next : r = set[m] /\ best = g[m - 1] /\ next = g[m]
        OBVIOUS
      <4>2. /\ r \in Rule
            /\ next = IF Wins(r, t, best) THEN r ELSE best
            /\ more = IF Matches(r, t) THEN those \cup {r} ELSE those
            /\ BestOrNone(best, those)
        BY <4>1, <3>3, <3>5, <3>8, <3>11
      <4>3. BestOrNone(next, more)
        BY <4>2, <3>7, BestOfOneMore
      <4> QED BY <4>1, <4>3
    <3>13. Good(m)
      BY <3>10, <3>12 DEF Good
    <3> QED BY <3>13, <2>2
  <2> QED BY <2>4, <2>5
<1>4. Good(Len(set))
  <2>1. Len(set) \in 0..Len(set)
    OBVIOUS
  <2> QED BY <2>1, <1>3
<1>5. Those(Len(set)) = {r \in Range(set) : Matches(r, t)}
  <2>1. Range(set) = {set[i] : i \in 1..Len(set)} /\ \A i \in 1..Len(set) : set[i] \in Rule
    BY DEF Range
  <2> QED BY <2>1
<1>6. PICK those : those = {r \in Range(set) : Matches(r, t)}
  OBVIOUS
<1>7. those \in SUBSET Rule /\ those = Those(Len(set))
  BY <1>5, <1>6
<1>8. BestOrNone(g[Len(set)], those)
  BY <1>4, <1>7
<1>9. BestOf(Range(set), t)
      = IF those = {} THEN NoRule ELSE CHOOSE r \in those : \A s \in those \ {r} : Beats(r, s)
  BY <1>6 DEF BestOf
<1> HIDE DEF Those
<1> QED BY <1>1, <1>7, <1>8, <1>9, BestIsUnique DEF BestOrNone

-----------------------------------------------------------------------------
(* Rules: how old they may be *)

RuleEntry == [set : Seq(Rule), until : Nat]

RuleTypeOK ==
  /\ now \in Nat
  /\ table \subseteq Rule /\ IsFiniteSet(table) /\ table \in DOMAIN lastHeld
  /\ \A s \in DOMAIN lastHeld : lastHeld[s] \in 0..now
  /\ rcache \in RuleEntry
  /\ loading \in [RuleRequest -> [set : Seq(Rule), at : Nat, old : RuleEntry, busy : BOOLEAN]]
  /\ served \in [set : Seq(Rule), how : {"none", "fresh", "stale"}]

\* The enabled rows of the table, as it was at some instant no earlier than at.
From(set, at) ==
  \E s \in DOMAIN lastHeld :
    /\ Elements(set) = {r \in s : r.enabled}
    /\ s = table \/ at <= lastHeld[s]

\* What a request loads was in the table when it asked, and that is at most Latency
\* ago; what is cached was there Latency before it was stored.
LoadsAreRecent ==
  \A q \in RuleRequest : loading[q].busy =>
    /\ loading[q].at <= now /\ now <= loading[q].at + Latency
    /\ From(loading[q].set, loading[q].at)

EntryIsRecent ==
  rcache # NoEntry =>
    /\ rcache.until <= now + RuleTTL
    /\ From(rcache.set, rcache.until - RuleTTL - Latency)

RuleInv == RuleTypeOK /\ LoadsAreRecent /\ EntryIsRecent /\ RulesTakeEffect

\* A set made from the rows, in any order, has the enabled ones.
LEMMA NewSetIs ==
  ASSUME RuleTypeOK, NEW rows \in ListRules
  PROVE  NewSet(rows) \in Seq(Rule) /\ Elements(NewSet(rows)) = {r \in table : r.enabled}
<1> DEFINE n == Cardinality(table)
<1>1. IsFiniteSet(table) /\ table \in SUBSET Rule /\ n \in Nat
  BY FS_CardinalityType DEF RuleTypeOK
<1>2. rows \in [1..n -> table] /\ \A i, j \in 1..n : i # j => rows[i] # rows[j]
  BY DEF ListRules, SetToSeqs
<1>3. rows \in Injection(1..n, table)
  BY <1>2 DEF Injection, IsInjective
<1>4. Cardinality(1..n) = n
  BY <1>1, FS_Interval
<1>5. rows \in Surjection(1..n, table)
  BY <1>1, <1>3, <1>4, FS_Injection
<1>6. rows \in Seq(Rule) /\ Len(rows) = n
  <2>1. rows \in [1..n -> Rule]
    BY <1>1, <1>2
  <2> QED BY <1>1, <2>1
<1>7. Elements(rows) = table
  BY <1>2, <1>5, <1>6 DEF Elements, Surjection
<1>8. PICK off : off = {r \in table : ~r.enabled}
  OBVIOUS
<1>9. Without(rows, off) \in Seq(Rule) /\ Elements(Without(rows, off)) = table \ off
  BY <1>6, <1>7, WithoutIs
<1> QED BY <1>8, <1>9 DEF NewSet

\* What was there at an instant was there no earlier than one before.
LEMMA FromEarlier ==
  ASSUME RuleTypeOK, NEW set, NEW a \in Int, NEW b \in Int, From(set, a), b <= a
  PROVE  From(set, b)
BY DEF From, RuleTypeOK

\* The table's changes are remembered.
LEMMA FromStays ==
  ASSUME RuleTypeOK, NEW set, NEW at \in Int, at <= now, From(set, at), NEW rows, Change(rows)
  PROVE  From(set, at)'
<1>1. PICK s \in DOMAIN lastHeld :
        Elements(set) = {r \in s : r.enabled} /\ (s = table \/ at <= lastHeld[s])
  BY DEF From
<1>2. lastHeld' = [x \in DOMAIN lastHeld \cup {table, rows} |->
                     IF x \in {table, rows} THEN now ELSE lastHeld[x]]
  BY DEF Change
<1>3. s \in DOMAIN lastHeld' /\ at <= lastHeld'[s]
  BY <1>1, <1>2
<1> QED BY <1>1, <1>3 DEF From

\* A new table is a table.
LEMMA ChangeType ==
  ASSUME RuleTypeOK, NEW rows \in SUBSET Rule, IsFiniteSet(rows), Change(rows)
  PROVE  RuleTypeOK'
<1>1. lastHeld' = [x \in DOMAIN lastHeld \cup {table, rows} |->
                     IF x \in {table, rows} THEN now ELSE lastHeld[x]]
      /\ table' = rows /\ served' = NotServed /\ UNCHANGED <<rcache, loading, now>>
  BY DEF Change
<1>2. rows \in DOMAIN lastHeld' /\ \A s \in DOMAIN lastHeld' : lastHeld'[s] \in 0..now
  BY <1>1 DEF RuleTypeOK
<1>3. served' \in [set : Seq(Rule), how : {"none", "fresh", "stale"}]
  BY <1>1 DEF NotServed
<1> QED BY <1>1, <1>2, <1>3 DEF RuleTypeOK

\* Changes of the table leave what is loaded and cached as recent as it was.
LEMMA ChangeKeeps ==
  ASSUME RuleInv, NEW rows \in SUBSET Rule, IsFiniteSet(rows), Change(rows)
  PROVE  RuleInv'
<1> USE DEF RuleInv
<1>1. RuleTypeOK'
  BY ChangeType
<1>2. UNCHANGED <<rcache, loading, now>> /\ served' = NotServed
  BY DEF Change
<1>3. ASSUME NEW q \in RuleRequest, loading[q].busy
      PROVE  /\ loading[q].at <= now /\ now <= loading[q].at + Latency
             /\ From(loading[q].set, loading[q].at)'
  <2>1. PICK set, at : set = loading[q].set /\ at = loading[q].at
    OBVIOUS
  <2>2. at \in Nat /\ at <= now /\ now <= at + Latency /\ From(set, at)
    BY <1>3, <2>1 DEF LoadsAreRecent, RuleTypeOK
  <2>3. From(set, at)'
    BY <2>2, FromStays
  <2>4. From(set, at)' => From(loading[q].set, loading[q].at)'
    BY <1>2, <2>1 DEF From
  <2> QED BY <2>1, <2>2, <2>3, <2>4
<1>4. LoadsAreRecent'
  BY <1>2, <1>3 DEF LoadsAreRecent
<1>5. EntryIsRecent'
  <2> SUFFICES ASSUME rcache # NoEntry PROVE EntryIsRecent'
    BY <1>2 DEF EntryIsRecent, NoEntry
  <2>1. PICK set, at : set = rcache.set /\ at = rcache.until - RuleTTL - Latency
    OBVIOUS
  <2>2. at \in Int /\ at <= now /\ rcache.until <= now + RuleTTL /\ From(set, at)
    BY <2>1, RulesAssumption, ClockAssumption DEF EntryIsRecent, RuleTypeOK, RuleEntry
  <2>3. From(set, at)'
    BY <2>2, FromStays
  <2> QED BY <1>2, <2>1, <2>2, <2>3 DEF EntryIsRecent
<1>6. RulesTakeEffect'
  BY <1>2 DEF RulesTakeEffect, NotServed
<1> QED BY <1>1, <1>4, <1>5, <1>6

\* What was recent still is when neither the table nor the clock moves.
LEMMA FromSame ==
  ASSUME UNCHANGED <<table, lastHeld>>, NEW set, NEW at
  PROVE  From(set, at)' <=> From(set, at)
BY DEF From

\* A set that was the table's a TTL and a load ago, at most, may be resolved with.
LEMMA RecentTakesEffect ==
  ASSUME RuleTypeOK, NEW set \in Seq(Rule), NEW at \in Int, From(set, at),
         now <= at + RuleTTL + Latency
  PROVE  \E s \in DOMAIN lastHeld :
           /\ Range(set) = {r \in s : r.enabled}
           /\ s = table \/ now <= lastHeld[s] + RuleTTL + Latency
<1>1. Range(set) = Elements(set)
  BY DEF Range, Elements
<1>2. PICK s \in DOMAIN lastHeld :
        Elements(set) = {r \in s : r.enabled} /\ (s = table \/ at <= lastHeld[s])
  BY DEF From
<1>3. s = table \/ now <= lastHeld[s] + RuleTTL + Latency
  BY <1>2, RulesAssumption, ClockAssumption DEF RuleTypeOK
<1> QED BY <1>1, <1>2, <1>3

\* An empty table and no entry.
LEMMA RuleInvInit == now = 0 /\ RuleInit => RuleInv
<1> SUFFICES ASSUME now = 0, RuleInit PROVE RuleInv
  OBVIOUS
<1>1. NoEntry \in RuleEntry /\ <<>> \in Seq(Rule)
  BY DEF NoEntry, RuleEntry
<1>2. RuleTypeOK
  BY <1>1, FS_EmptySet DEF RuleInit, RuleTypeOK, NotLoading, NotServed
<1> QED BY <1>2 DEF RuleInit, RuleInv, LoadsAreRecent, EntryIsRecent, RulesTakeEffect,
                    NotLoading, NotServed

\* Hits, loads, failures and changes keep it.
LEMMA RuleInvStep == RuleInv /\ [RuleNext]_<<now, ruleVars>> => RuleInv'
<1> SUFFICES ASSUME RuleInv, [RuleNext]_<<now, ruleVars>> PROVE RuleInv'
  OBVIOUS
<1> USE RulesAssumption, ClockAssumption DEF RuleInv
<1>1. ASSUME NEW q \in RuleRequest, ResolveHit(q) PROVE RuleInv'
  <2>1. /\ rcache # NoEntry /\ now < rcache.until
        /\ served' = [set |-> rcache.set, how |-> "fresh"]
        /\ UNCHANGED <<table, rcache, loading, lastHeld, now>>
    BY <1>1 DEF ResolveHit
  <2>2. RuleTypeOK'
    BY <2>1 DEF RuleTypeOK, RuleEntry
  <2>3. LoadsAreRecent' /\ EntryIsRecent'
    BY <2>1 DEF LoadsAreRecent, EntryIsRecent, From
  <2>4. PICK set, at : set = rcache.set /\ at = rcache.until - RuleTTL - Latency
    OBVIOUS
  <2>5. /\ set \in Seq(Rule) /\ at \in Int /\ From(set, at)
        /\ now <= at + RuleTTL + Latency
    BY <2>1, <2>4 DEF EntryIsRecent, RuleTypeOK, RuleEntry
  <2>6. \E s \in DOMAIN lastHeld :
          /\ Range(set) = {r \in s : r.enabled}
          /\ s = table \/ now <= lastHeld[s] + RuleTTL + Latency
    BY <2>5, RecentTakesEffect
  <2>7. RulesTakeEffect'
    BY <2>1, <2>4, <2>6 DEF RulesTakeEffect
  <2> QED BY <2>2, <2>3, <2>7
<1>2. ASSUME NEW q \in RuleRequest, LoadRules(q) PROVE RuleInv'
  <2>1. PICK rows \in ListRules :
          loading' = [loading EXCEPT ![q] = [set |-> NewSet(rows), at |-> now, old |-> rcache, busy |-> TRUE]]
    BY <1>2 DEF LoadRules
  <2>2. served' = NotServed /\ UNCHANGED <<table, rcache, lastHeld, now>>
    BY <1>2 DEF LoadRules
  <2>3. NewSet(rows) \in Seq(Rule) /\ Elements(NewSet(rows)) = {r \in table : r.enabled}
    BY NewSetIs
  <2>4. PICK k : k = [set |-> NewSet(rows), at |-> now, old |-> rcache, busy |-> TRUE]
    OBVIOUS
  <2>5. /\ k \in [set : Seq(Rule), at : Nat, old : RuleEntry, busy : BOOLEAN]
        /\ k.at = now /\ From(k.set, now)
    BY <2>3, <2>4 DEF RuleTypeOK, From
  <2>6. loading' = [loading EXCEPT ![q] = k]
    BY <2>1, <2>4
  <2>7. RuleTypeOK'
    BY <2>2, <2>5, <2>6 DEF RuleTypeOK, NotServed
  <2>8. EntryIsRecent' /\ RulesTakeEffect'
    BY <2>2 DEF EntryIsRecent, RulesTakeEffect, NotServed, From
  <2>9. ASSUME NEW p \in RuleRequest, loading'[p].busy
        PROVE  /\ loading'[p].at <= now /\ now <= loading'[p].at + Latency
               /\ From(loading'[p].set, loading'[p].at)
    <3>1. CASE p = q
      <4>1. loading'[p] = k
        BY <3>1, <2>6 DEF RuleTypeOK
      <4> QED BY <4>1, <2>5 DEF RuleTypeOK
    <3>2. CASE p # q
      <4>1. loading'[p] = loading[p]
        BY <3>2, <2>6 DEF RuleTypeOK
      <4> QED BY <4>1, <2>9 DEF LoadsAreRecent
    <3> QED BY <3>1, <3>2
  <2>10. LoadsAreRecent'
    BY <2>2, <2>9, FromSame DEF LoadsAreRecent
  <2> QED BY <2>7, <2>8, <2>10
<1>3. ASSUME NEW q \in RuleRequest, loading' = [loading EXCEPT ![q] = NotLoading],
             UNCHANGED <<table, lastHeld, now>>
      PROVE  /\ loading' \in [RuleRequest -> [set : Seq(Rule), at : Nat, old : RuleEntry, busy : BOOLEAN]]
             /\ LoadsAreRecent'
  <2>1. NotLoading \in [set : Seq(Rule), at : Nat, old : RuleEntry, busy : BOOLEAN]
        /\ ~NotLoading.busy
    BY DEF NotLoading, NoEntry, RuleEntry
  <2>2. \A p \in RuleRequest : loading'[p] = loading[p] \/ loading'[p] = NotLoading
    BY <1>3 DEF RuleTypeOK
  <2>3. LoadsAreRecent'
    BY <1>3, <2>1, <2>2, FromSame DEF LoadsAreRecent
  <2> QED BY <1>3, <2>1, <2>3 DEF RuleTypeOK
<1>4. ASSUME NEW q \in RuleRequest, LoadFails(q) PROVE RuleInv'
  <2>1. /\ loading' = [loading EXCEPT ![q] = NotLoading]
        /\ UNCHANGED <<table, rcache, lastHeld, now>>
        /\ served' = IF loading[q].old = NoEntry THEN NotServed
                     ELSE [set |-> loading[q].old.set, how |-> "stale"]
    BY <1>4 DEF LoadFails
  <2>2. served' \in [set : Seq(Rule), how : {"none", "fresh", "stale"}] /\ served'.how # "fresh"
    <3>1. loading[q].old.set \in Seq(Rule)
      BY DEF RuleTypeOK, RuleEntry
    <3> QED BY <2>1, <3>1 DEF NotServed
  <2>3. RuleTypeOK' /\ LoadsAreRecent'
    BY <1>3, <2>1, <2>2 DEF RuleTypeOK
  <2>4. EntryIsRecent' /\ RulesTakeEffect'
    BY <2>1, <2>2 DEF EntryIsRecent, RulesTakeEffect, From
  <2> QED BY <2>3, <2>4
<1>5. ASSUME NEW q \in RuleRequest, StoreRules(q) PROVE RuleInv'
  <2>1. PICK set, at, until : set = loading[q].set /\ at = loading[q].at /\ until = now + RuleTTL
    OBVIOUS
  <2>2. /\ loading[q].busy
        /\ rcache' = [set |-> set, until |-> until]
        /\ served' = [set |-> set, how |-> "fresh"]
        /\ loading' = [loading EXCEPT ![q] = NotLoading]
        /\ UNCHANGED <<table, lastHeld, now>>
    BY <1>5, <2>1 DEF StoreRules
  <2>3. set \in Seq(Rule) /\ at \in Nat /\ until \in Nat /\ now \in Nat
    BY <2>1 DEF RuleTypeOK
  <2>4. at <= now /\ now <= at + Latency /\ From(set, at)
    BY <2>1, <2>2 DEF LoadsAreRecent
  <2>5. RuleTypeOK' /\ LoadsAreRecent'
    BY <1>3, <2>2, <2>3 DEF RuleTypeOK, RuleEntry
  <2>6. EntryIsRecent'
    <3>1. From(set, until - RuleTTL - Latency)
      <4>1. until - RuleTTL - Latency \in Int /\ until - RuleTTL - Latency <= at
        BY <2>1, <2>3, <2>4
      <4> QED BY <4>1, <2>3, <2>4, FromEarlier
    <3>2. From(set, until - RuleTTL - Latency)'
      BY <2>2, <3>1, FromSame
    <3>3. rcache'.set = set /\ rcache'.until = until /\ until <= now' + RuleTTL
      BY <2>1, <2>2, <2>3
    <3> QED BY <3>2, <3>3 DEF EntryIsRecent
  <2>7. \E s \in DOMAIN lastHeld :
          /\ Range(set) = {r \in s : r.enabled}
          /\ s = table \/ now <= lastHeld[s] + RuleTTL + Latency
    BY <2>3, <2>4, RecentTakesEffect
  <2>8. RulesTakeEffect'
    BY <2>2, <2>7 DEF RulesTakeEffect
  <2> QED BY <2>5, <2>6, <2>8
<1>6. CASE CreateRule
  <2>1. PICK r \in Rule : Change(table \cup {r})
    BY <1>6 DEF CreateRule
  <2>2. table \cup {r} \in SUBSET Rule /\ IsFiniteSet(table \cup {r})
    BY FS_AddElement DEF RuleTypeOK
  <2> QED BY <2>1, <2>2, ChangeKeeps
<1>7. CASE DeleteRule
  <2>1. PICK r \in table : Change(table \ {r})
    BY <1>7 DEF DeleteRule
  <2>2. table \ {r} \in SUBSET Rule /\ IsFiniteSet(table \ {r})
    BY FS_RemoveElement DEF RuleTypeOK
  <2> QED BY <2>1, <2>2, ChangeKeeps
<1>8. CASE RuleTick
  <2>1. /\ now' = now + 1 /\ served' = NotServed
        /\ UNCHANGED <<table, rcache, loading, lastHeld>>
        /\ \A q \in RuleRequest : loading[q].busy => now < loading[q].at + Latency
    BY <1>8 DEF RuleTick, Tick
  <2>2. RuleTypeOK'
    <3>1. now' \in Nat /\ \A s \in DOMAIN lastHeld : lastHeld[s] \in 0..now'
      BY <2>1 DEF RuleTypeOK
    <3> QED BY <2>1, <3>1 DEF RuleTypeOK, NotServed
  <2>3. LoadsAreRecent'
    <3>1. ASSUME NEW q \in RuleRequest, loading[q].busy
          PROVE  /\ loading[q].at <= now' /\ now' <= loading[q].at + Latency
                 /\ From(loading[q].set, loading[q].at)
      <4>1. loading[q].at \in Nat /\ now \in Nat /\ loading[q].at <= now
            /\ From(loading[q].set, loading[q].at)
        BY <3>1 DEF LoadsAreRecent, RuleTypeOK
      <4> QED BY <4>1, <3>1, <2>1
    <3> QED BY <2>1, <3>1 DEF LoadsAreRecent, From
  <2>4. EntryIsRecent' /\ RulesTakeEffect'
    BY <2>1 DEF EntryIsRecent, RulesTakeEffect, NotServed, From, RuleTypeOK, RuleEntry
  <2> QED BY <2>2, <2>3, <2>4
<1>9. CASE UNCHANGED <<now, ruleVars>>
  BY <1>9 DEF ruleVars, RuleTypeOK, LoadsAreRecent, EntryIsRecent, RulesTakeEffect, From
<1> QED
  BY <1>1, <1>2, <1>4, <1>5, <1>6, <1>7, <1>8, <1>9 DEF RuleNext

\* A debit is given a window from rules that were the tenant's at most a TTL and a
\* load ago, unless the store could not be read just then.
THEOREM RulesAreFresh == RuleSpec => []RulesTakeEffect
<1>1. RuleInv => RulesTakeEffect
  BY DEF RuleInv
<1> QED BY RuleInvInit, RuleInvStep, <1>1, PTL DEF RuleSpec

\* Whatever order the rows were scanned in, every transaction gets the window of
\* the best rule of the set it is resolved with.
THEOREM BestRuleIsFound == RuleSpec => []BestRuleWins
<1>1. RuleInv => BestRuleWins
  BY ResolveIsBest DEF RuleInv, RuleTypeOK, BestRuleWins
<1> QED BY RuleInvInit, RuleInvStep, <1>1, PTL DEF RuleSpec
=============================================================================
