-------------------------------- MODULE Front --------------------------------
(***************************************************************************)
(* What stands between a request to the coordinator and its core: the      *)
(* bearer extractor, the RouteLimits, the GeoIP cross-check with its       *)
(* hot-swapped database, and the append-only audit log on disk.  The       *)
(* route handlers of server.rs still answer 503 before they make these     *)
(* calls; the order of the calls is the one their documentation gives.     *)
(***************************************************************************)
EXTENDS Integers, Sequences, FiniteSets

CONSTANTS
    Handlers,      \* requests served at a time
    Peers, Ips,    \* who asks, and from where
    Regions,       \* declared regions, as sequences of their segments; << >> is the empty one
    Databases,     \* GeoIP databases, from Ips to a country, "none" or "error"
    NoDatabase,    \* no mmdb_path is configured
    Allowlist,     \* addresses in mismatch_allowlist_cidrs
    IpQuota, PeerQuota,  \* requests per minute; PeerQuota has no entry for a route without one
    Salts,         \* random parts of a ULID
    MaxMs, MaxMinutes, MaxCrashes, MaxRequests   \* bounds on the clock, the windows, crashes and requests

Routes == {"register", "match", "heartbeat", "disconnect"}
Authenticated == Routes \ {"register"}
Sites == {"register", "heartbeat"}          \* where a region is declared and checked
Recorded == {"Admission", "InviteRedeemed"} \* the entries of a match

ASSUME FrontQuotas ==
    /\ Peers \cap Ips = {}
    /\ IpQuota \in [Routes -> Nat \ {0}]
    /\ DOMAIN PeerQuota \subseteq Routes /\ \A r \in DOMAIN PeerQuota : PeerQuota[r] \in Nat \ {0}
ASSUME FrontDatabases == NoDatabase \notin Databases /\ Allowlist \subseteq Ips
ASSUME FrontBounds == MaxMs \in Nat /\ MaxMinutes \in Nat /\ MaxCrashes \in Nat /\ MaxRequests \in Nat

VARIABLES
    ready,    \* the ReadyLatch
    ms,       \* the wall clock, in milliseconds
    table,    \* operator_audit on disk: from ULIDs to entries
    cells,    \* per route and key, what its limiter still lets through in this minute
    geo,      \* the database inside the GeoipReader
    call,     \* per handler, the request it serves
    ledger    \* what happened so far; no part of the program

frontVars == <<ready, ms, table, cells, geo, call, ledger>>

Free == [at |-> "free"]
FullCells == [r \in Routes |-> [k \in Peers \cup Ips |->
                IF k \in Ips THEN IpQuota[r] ELSE IF r \in DOMAIN PeerQuota THEN PeerQuota[r] ELSE 0]]
Unspent == [r \in Routes |-> [k \in Peers \cup Ips |-> 0]]

-----------------------------------------------------------------------------
(* XMutant is a deliberately wrong X for the mutation runs; nothing else   *)
(* uses it.                                                                *)

Goes(h, at) == call' = [call EXCEPT ![h].at = at]
Answers(h) == call' = [call EXCEPT ![h] = Free]

\* A request; one that a route wants authenticated and that has no bearer credential ends with 401.
Arrive(h) ==
    /\ ready /\ call[h] = Free /\ ledger.requests < MaxRequests
    /\ \E route \in Routes, bearer \in BOOLEAN, p \in Peers, i \in Ips :
       \E region \in IF route \in Sites THEN Regions ELSE {<< >>} :
        IF route \in Authenticated /\ ~bearer THEN call' = call
        ELSE call' = [call EXCEPT ![h] = [at |-> "ip", id |-> ledger.requests, route |-> route,
                                          peer |-> p, ip |-> i, region |-> region]]
    /\ ledger' = [ledger EXCEPT !.requests = @ + 1]
    /\ UNCHANGED <<ready, ms, table, cells, geo>>

\* The cell of the limiter that a route keeps for a key.
CellMutant(route, k) == <<IF k \in Peers /\ route = "heartbeat" THEN "match" ELSE route, k>>
Cell(route, k) == <<route, k>>

\* check_key of governor: one request of the key's quota, or Err.
CheckKey(h, k, quota, next) ==
    LET route == call[h].route
        c == Cell(route, k) IN
    IF cells[c[1]][c[2]] = 0
    THEN /\ Answers(h) /\ cells' = cells
         /\ ledger' = [ledger EXCEPT !.unearned = @ \/ ledger.passed[route][k] < quota]
    ELSE /\ Goes(h, next)
         /\ cells' = [cells EXCEPT ![c[1]][c[2]] = @ - 1]
         /\ ledger' = [ledger EXCEPT !.passed[route][k] = @ + 1]

CheckIp(h) ==
    /\ call[h].at = "ip"
    /\ CheckKey(h, call[h].ip, IpQuota[call[h].route], "peer")
    /\ UNCHANGED <<ready, ms, table, geo>>

\* check_peer: Ok at once on a route without a per-peer quota.
CheckPeer(h) ==
    /\ call[h].at = "peer"
    /\ IF call[h].route \in DOMAIN PeerQuota
       THEN CheckKey(h, call[h].peer, PeerQuota[call[h].route], "handle")
       ELSE Goes(h, "handle") /\ UNCHANGED <<cells, ledger>>
    /\ UNCHANGED <<ready, ms, table, geo>>

-----------------------------------------------------------------------------
(* The cross-check                                                         *)

\* pull_observed_country: nothing to compare with, or the country under the reader's read lock.
Allowlisted(c) == c.ip \in Allowlist
Silent(c) == geo = NoDatabase \/ c.region = << >> \/ Allowlisted(c)
Observed(c) == IF Silent(c) THEN "none" ELSE geo[c.ip]

RegionMatchesCountry(region, country) == region[1] = country

Mismatch(c) == Observed(c) \notin {"none", "error"} /\ ~RegionMatchesCountry(c.region, Observed(c))

\* An entry of the audit log before it has a key: whom it is about, its kind and its instant.
Entry(c, kind) == [at |-> "append", id |-> c.id, kind |-> kind, entry |-> ms]

\* dispatch: every outcome but Mismatch answers at once, a failed lookup with a line in the log
\* only.  A mismatch takes the instant of its audit entry.
CrossCheck(h) ==
    /\ call[h].at = "handle" /\ call[h].route \in Sites
    /\ IF Mismatch(call[h])
       THEN call' = [call EXCEPT ![h] = Entry(@, "RegionMismatch")]
       ELSE Answers(h)
    /\ UNCHANGED <<ready, ms, table, cells, geo, ledger>>

\* The other routes have no cross-check: a match is recorded through audit_event! or one of the
\* record_ methods, a disconnect is not.
Serve(h) ==
    /\ call[h].at = "handle" /\ call[h].route \notin Sites
    /\ \/ call[h].route = "disconnect" /\ Answers(h)
       \/ /\ call[h].route = "match"
          /\ \E kind \in Recorded : call' = [call EXCEPT ![h] = Entry(@, kind)]
    /\ UNCHANGED <<ready, ms, table, cells, geo, ledger>>

\* reload that succeeds; the file is opened first, and one that does not open changes nothing.
Reload ==
    /\ ready /\ geo # NoDatabase
    /\ \E fresh \in Databases : geo' = fresh
    /\ UNCHANGED <<ready, ms, table, cells, call, ledger>>

-----------------------------------------------------------------------------
(* The audit log                                                           *)

\* Ulid::new: the millisecond and 80 random bits, which no two keys of a millisecond share.
Drawn == DOMAIN table \cup {call[h].key : h \in {g \in Handlers : call[g].at = "commit"}}
NewKeysMutant == {<<ms, CHOOSE s \in Salts : TRUE>>}
NewKeys == {<<ms, s>> : s \in Salts} \ Drawn

TakeKey(h) ==
    /\ call[h].at = "append"
    /\ \E key \in NewKeys :
        call' = [call EXCEPT ![h] = [at |-> "commit", id |-> @.id, kind |-> @.kind, entry |-> @.entry,
                                     key |-> key]]
    /\ UNCHANGED <<ready, ms, table, cells, geo, ledger>>

Told(h, failed) == ledger' = [ledger EXCEPT !.told = @ \cup {[id |-> call[h].id, kind |-> call[h].kind,
                                                             failed |-> failed]}]

\* One write transaction: insert replaces the row of an equal key.
Commit(h) ==
    /\ call[h].at = "commit"
    /\ LET row == [id |-> call[h].id, kind |-> call[h].kind, at |-> call[h].entry] IN
        table' = [k \in DOMAIN table \cup {call[h].key} |-> IF k = call[h].key THEN row ELSE table[k]]
    /\ Told(h, FALSE) /\ Answers(h)
    /\ UNCHANGED <<ready, ms, cells, geo>>

\* The error is logged, and the answer is the same.
AppendFails(h) ==
    /\ call[h].at \in {"append", "commit"}
    /\ Told(h, TRUE) /\ Answers(h)
    /\ UNCHANGED <<ready, ms, table, cells, geo>>

-----------------------------------------------------------------------------
(* The process and its surroundings                                        *)

\* Bring-up: the log's file is opened or created, then the listener binds and the latch flips.
Open == table

BringUp ==
    /\ ~ready /\ ready' = TRUE
    /\ table' = Open
    /\ geo' \in Databases \cup {NoDatabase}
    /\ UNCHANGED <<ms, cells, call, ledger>>

\* The process ends; what it had not committed is lost, and the limiters start full.
Crash ==
    /\ ready /\ ready' = FALSE /\ ledger.crashes < MaxCrashes
    /\ call' = [h \in Handlers |-> Free]
    /\ cells' = FullCells
    /\ ledger' = [ledger EXCEPT !.crashes = @ + 1, !.passed = Unspent]
    /\ UNCHANGED <<ms, table, geo>>

Millisecond ==
    /\ ms < MaxMs /\ ms' = ms + 1
    /\ UNCHANGED <<ready, table, cells, geo, call, ledger>>

Minute ==
    /\ ledger.minutes < MaxMinutes
    /\ cells' = FullCells
    /\ ledger' = [ledger EXCEPT !.minutes = @ + 1, !.passed = Unspent]
    /\ UNCHANGED <<ready, ms, table, geo, call>>

-----------------------------------------------------------------------------

FrontInit ==
    /\ ready = FALSE /\ ms = 0 /\ table = <<>> /\ cells = FullCells /\ geo = NoDatabase
    /\ call = [h \in Handlers |-> Free]
    /\ ledger = [requests |-> 0, minutes |-> 0, crashes |-> 0, passed |-> Unspent, unearned |-> FALSE,
                 told |-> {}]

FrontNext ==
    \/ \E h \in Handlers : \/ Arrive(h) \/ CheckIp(h) \/ CheckPeer(h) \/ CrossCheck(h) \/ Serve(h)
                           \/ TakeKey(h) \/ Commit(h) \/ AppendFails(h)
    \/ Reload \/ BringUp \/ Crash \/ Millisecond \/ Minute

FrontSpec == FrontInit /\ [][FrontNext]_frontVars

-----------------------------------------------------------------------------
(* Properties                                                              *)

\* What a handler holds: a request, an entry without and with its key.
Who == Peers \cup Ips
Kinds == Recorded \cup {"RegionMismatch"}
Asking == [at : {"ip", "peer", "handle"}, id : Nat, route : Routes, peer : Peers, ip : Ips,
           region : Regions \cup {<< >>}]
Waiting == [at : {"append"}, id : Nat, kind : Kinds, entry : Nat]
Committing == [at : {"commit"}, id : Nat, kind : Kinds, entry : Nat, key : Nat \X Salts]
Calls == {Free} \cup Asking \cup Waiting \cup Committing

\* Type invariant.
FrontTypeOK ==
    /\ ready \in BOOLEAN /\ ms \in 0..MaxMs /\ geo \in Databases \cup {NoDatabase}
    /\ DOMAIN table \subseteq (0..MaxMs) \X Salts
    /\ \A k \in DOMAIN table : table[k] \in [id : Nat, kind : Kinds, at : 0..MaxMs]
    /\ \A r \in Routes, k \in Who : cells[r][k] \in 0..FullCells[r][k]
    /\ call \in [Handlers -> Calls]

\* rate_limit.rs, "a flood against match cannot starve a peer's heartbeat budget": who is denied
\* has used the whole quota of that route in this minute himself.
DenialsEarned == ~ledger.unearned

\* audit.rs and region_verify.rs: whatever was admitted or found to mismatch has a row of its own
\* in the log, unless the append failed; neither another append in the same millisecond nor a
\* crash takes it away.
AnswersAudited ==
    \A t \in ledger.told : t.failed \/ \E k \in DOMAIN table : table[k].id = t.id /\ table[k].kind = t.kind

\* audit.rs, "rows sort chronologically": an entry with an earlier instant has the smaller key.
RowsInOrder == \A j, k \in DOMAIN table : table[j].at < table[k].at => j[1] < k[1]
=============================================================================
