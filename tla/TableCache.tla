------------------------------ MODULE TableCache ------------------------------
(***************************************************************************)
(* The clearing of the table cache (gobackendkit/redis/redis_cache.go):    *)
(* for each of three patterns a loop of SCAN and DEL until the cursor is   *)
(* zero again.  Other clients set and delete keys meanwhile, and other     *)
(* clearings run.  Redis is modelled from its use: a scan returns every    *)
(* key that is there from its first call to its last, and any others, any  *)
(* number of times, in any portions, empty ones included.  Without a       *)
(* client there is no cache, and the calls return at once.                 *)
(*                                                                         *)
(* A key has a family (its prefix) and a table.  The two older families    *)
(* have no separator that a table name cannot have.                        *)
(***************************************************************************)
EXTENDS Integers, Sequences, FiniteSets

CONSTANTS
    Clearers,       \* the calls of the clearing functions
    Keys,           \* the keys in use: [family, table]
    Goals,          \* the tables that are cleared
    Extends,        \* <<t, u>>: the name u begins with t
    ExtendsWord,    \* <<t, u>>: the name u begins with t and an underscore
    MaxAdded        \* the most keys set by other clients

ASSUME CacheAssumption ==
    /\ IsFiniteSet(Keys)
    /\ \A k \in Keys : k.family \in {"ft", "handler", "findTable"}
    /\ ExtendsWord \subseteq Extends
    /\ "all" \notin Goals
    /\ MaxAdded \in Nat

VARIABLES
    cached,     \* the keys in Redis
    kpc,        \* "idle", "scan", "del", "ok" or "error"
    goal,       \* the table to clear, or "all"
    pattern,    \* the number of the pattern
    unseen,     \* the keys this scan must still return
    batch,      \* keys, the portion at hand
    cursorZero, \* next = 0
    total,
    fresh,      \* the keys set since the call began
    added       \* the number of keys set

cacheVars == <<cached, kpc, goal, pattern, unseen, batch, cursorZero, total, fresh, added>>
where == <<goal, pattern>>

\* The patterns of a call, in their order: ft:t:*, findTableNameHandler_t* and
\* findTable_t_*, or without the t.
Patterns == <<"ft", "handler", "findTable">>

Matches(k, g, family) ==
    /\ k.family = family
    /\ \/ g = "all" \/ g = k.table
       \/ family = "handler" /\ <<g, k.table>> \in Extends
       \/ family = "findTable" /\ <<g, k.table>> \in ExtendsWord

Matching(g, n) == {k \in Keys : Matches(k, g, Patterns[n])}

CacheInit ==
    /\ cached = Keys
    /\ kpc = [c \in Clearers |-> "idle"] /\ goal = [c \in Clearers |-> "all"]
    /\ pattern = [c \in Clearers |-> 1] /\ unseen = [c \in Clearers |-> {}]
    /\ batch = [c \in Clearers |-> {}] /\ cursorZero = [c \in Clearers |-> FALSE]
    /\ total = [c \in Clearers |-> 0] /\ fresh = [c \in Clearers |-> {}]
    /\ added = 0

\* A scan begins: what is there must be returned, unless it goes first.
ScanPattern(c, g, n) ==
    /\ kpc' = [kpc EXCEPT ![c] = "scan"]
    /\ goal' = [goal EXCEPT ![c] = g] /\ pattern' = [pattern EXCEPT ![c] = n]
    /\ unseen' = [unseen EXCEPT ![c] = cached \intersect Matching(g, n)]

\* ClearFindTableCacheForTable or ClearAllFindTableCaches is called.
Begin(c) ==
    /\ kpc[c] = "idle"
    /\ \E g \in Goals \union {"all"} : ScanPattern(c, g, 1)
    /\ fresh' = [fresh EXCEPT ![c] = {}]
    /\ UNCHANGED <<cached, batch, cursorZero, total, added>>

\* SCAN returns a portion of the keys, and the cursor.
Scan(c) ==
    /\ kpc[c] = "scan"
    /\ \E keys \in SUBSET (cached \intersect Matching(goal[c], pattern[c])), zero \in BOOLEAN :
        /\ zero => unseen[c] \subseteq keys
        /\ batch' = [batch EXCEPT ![c] = keys]
        /\ cursorZero' = [cursorZero EXCEPT ![c] = zero]
        /\ unseen' = [unseen EXCEPT ![c] = @ \ keys]
    /\ kpc' = [kpc EXCEPT ![c] = "del"]
    /\ UNCHANGED <<cached, where, total, fresh, added>>

\* The keys are gone, and no scan has to return them any more.
Gone(keys) ==
    /\ cached' = cached \ keys
    /\ unseen' = [c \in Clearers |-> unseen[c] \ keys]

\* Mutant: the keys of the portion are counted, not the keys that were there.
DelCountsBatch(c) ==
    /\ kpc[c] = "del" /\ batch[c] # {}
    /\ Gone(batch[c])
    /\ total' = [total EXCEPT ![c] = @ + Cardinality(batch[c])]
    /\ batch' = [batch EXCEPT ![c] = {}]
    /\ UNCHANGED <<kpc, where, cursorZero, fresh, added>>

\* DEL, unless the portion is empty, counts the keys it finds.
Del(c) ==
    /\ kpc[c] = "del" /\ batch[c] # {}
    /\ Gone(batch[c])
    /\ total' = [total EXCEPT ![c] = @ + Cardinality(batch[c] \intersect cached)]
    /\ batch' = [batch EXCEPT ![c] = {}]
    /\ UNCHANGED <<kpc, where, cursorZero, fresh, added>>

\* Mutant: the loop ends after one portion.
AfterFirstPortion(c) ==
    /\ kpc[c] = "del" /\ batch[c] = {}
    /\ IF pattern[c] < Len(Patterns) THEN ScanPattern(c, goal[c], pattern[c] + 1)
       ELSE kpc' = [kpc EXCEPT ![c] = "ok"] /\ UNCHANGED <<where, unseen>>
    /\ UNCHANGED <<cached, batch, cursorZero, total, fresh, added>>

\* The next portion, the next pattern or the end.
AfterPortion(c) ==
    /\ kpc[c] = "del" /\ batch[c] = {}
    /\ \/ /\ ~ cursorZero[c]
          /\ kpc' = [kpc EXCEPT ![c] = "scan"] /\ UNCHANGED <<where, unseen>>
       \/ /\ cursorZero[c] /\ pattern[c] < Len(Patterns)
          /\ ScanPattern(c, goal[c], pattern[c] + 1)
       \/ /\ cursorZero[c] /\ pattern[c] = Len(Patterns)
          /\ kpc' = [kpc EXCEPT ![c] = "ok"] /\ UNCHANGED <<where, unseen>>
    /\ cursorZero' = [cursorZero EXCEPT ![c] = FALSE]
    /\ UNCHANGED <<cached, batch, total, fresh, added>>

\* An error ends the call with what was counted; a DEL whose answer is lost may
\* have been carried out.
Fail(c) ==
    /\ \/ kpc[c] = "scan" /\ UNCHANGED <<cached, unseen>>
       \/ /\ kpc[c] = "del" /\ batch[c] # {}
          /\ Gone(batch[c]) \/ UNCHANGED <<cached, unseen>>
    /\ kpc' = [kpc EXCEPT ![c] = "error"]
    /\ batch' = [batch EXCEPT ![c] = {}] /\ cursorZero' = [cursorZero EXCEPT ![c] = FALSE]
    /\ UNCHANGED <<where, total, fresh, added>>

\* Other clients: a handler fills the cache, a key expires or is deleted.
SetKey(k) ==
    /\ added < MaxAdded /\ k \in Keys \ cached
    /\ cached' = cached \union {k} /\ added' = added + 1
    /\ fresh' = [c \in Clearers |-> fresh[c] \union {k}]
    /\ UNCHANGED <<kpc, where, unseen, batch, cursorZero, total>>

Expire(k) ==
    /\ k \in cached
    /\ Gone({k})
    /\ UNCHANGED <<kpc, where, batch, cursorZero, total, fresh, added>>

CacheNext ==
    \/ \E c \in Clearers : Begin(c) \/ Scan(c) \/ Del(c) \/ AfterPortion(c) \/ Fail(c)
    \/ \E k \in Keys : SetKey(k) \/ Expire(k)

CacheSpec == CacheInit /\ [][CacheNext]_cacheVars

-----------------------------------------------------------------------------

\* When a call returns without an error, no key of its table (or of any) that
\* was there when it began is there still: what is there was set since, however
\* the scan cut the keys into portions and whoever removed keys meanwhile.
ClearedIsFresh ==
    \A c \in Clearers : kpc[c] = "ok" =>
        \A n \in DOMAIN Patterns : cached \intersect Matching(goal[c], n) \subseteq fresh[c]

\* What the calls have counted: the first, the second ... of each.
Counted == UNION {{c} \X (1 .. total[c]) : c \in Clearers}

\* The calls count removals and not keys: a key removed once is counted at most
\* once, by one of the calls whose scans returned it, or not at all.
CountedOnce == Cardinality(Counted) + Cardinality(cached) <= Cardinality(Keys) + added

=============================================================================
