---------------------------- MODULE ContentStore ----------------------------
(***************************************************************************)
(* The Content Store (daemon/table/cs.cpp) with its replacement policies   *)
(* LRU and priority FIFO, the management commands that change it           *)
(* (daemon/mgmt/cs-manager.cpp), its configuration section, and the nfdc   *)
(* client that erases in rounds (tools/nfdc/cs-module.cpp).                *)
(*                                                                         *)
(* Data are compared by Rank, the order of full names; a prefix stands for *)
(* the set of Data under it.  Time is kept as the rest of each entry's     *)
(* freshness: isFresh is freshLeft >= 0, -1 stands for any time later.     *)
(***************************************************************************)
EXTENDS Integers, Sequences, FiniteSets

CONSTANTS
  Data,
  Rank,             \* position of a Data in the order of full names
  Prefix,           \* names that Interests and commands ask for
  Under,            \* the Data under a prefix
  FreshnessPeriod,
  Limits,           \* capacities the operator sets
  Counts,           \* counts the client asks to erase; NoCount for no count
  NoCount,          \* numeric_limits<size_t>::max()
  NoRound,
  EraseLimit,       \* ERASE_LIMIT
  Policies

ASSUME StoreAssumption ==
  /\ IsFiniteSet(Data)
  /\ Rank \in [Data -> Nat]
  /\ \A d, e \in Data : Rank[d] = Rank[e] => d = e
  /\ Under \in [Prefix -> SUBSET Data]
  /\ FreshnessPeriod \in [Data -> Nat]
  /\ Limits \subseteq Nat
  /\ Policies \subseteq {"lru", "priority_fifo"}

ASSUME EraseAssumption ==
  /\ EraseLimit \in Nat \ {0}
  /\ Counts \subseteq Nat /\ NoCount \in Nat
  /\ \A n \in Counts : n <= NoCount
  /\ EraseLimit < NoCount
  /\ NoRound \notin Nat

VARIABLES
  table,        \* m_table
  unsolicited,  \* entries with m_isUnsolicited
  freshLeft,    \* m_freshUntil - now
  queues,       \* m_queues of PriorityFifoPolicy; "lru" is m_queue of LruPolicy
  timers,       \* entries with a moveStaleEventId
  policy,       \* name of m_policy
  limit,        \* its m_limit
  admit,        \* m_shouldAdmit
  serve,        \* m_shouldServe
  client,       \* nfdc cs erase
  round,        \* entries the command in CsManager::erase has erased; NoRound outside
  before,       \* history: under LRU, <<d, e>> when d was last used before e
  old           \* history: Data under the client's prefix, in the table since it began

entryVars == <<table, unsolicited, freshLeft, queues, timers>>
configVars == <<policy, limit, admit, serve>>
vars == <<entryVars, configVars, client, round, before, old>>

Queue == {"unsolicited", "stale", "fifo", "lru"}
Phase == {"idle", "asking", "done"}
Client == [phase : Phase, prefix : Prefix, left : Nat, count : Nat,
           served : BOOLEAN]

\* Types.
TypeOK ==
  /\ table \subseteq Data
  /\ unsolicited \subseteq table
  /\ freshLeft \in [table -> Int]
  /\ queues \in [Queue -> Seq(Data)]
  /\ timers \subseteq Data
  /\ policy \in Policies
  /\ limit \in Limits
  /\ admit \in BOOLEAN /\ serve \in BOOLEAN
  /\ client \in Client
  /\ round \in (0..EraseLimit) \cup {NoRound}
  /\ before \subseteq table \X table
  /\ old \subseteq table

Init ==
  /\ table = {} /\ unsolicited = {}
  /\ freshLeft = [d \in {} |-> 0]
  /\ queues = [k \in Queue |-> <<>>]
  /\ timers = {}
  /\ policy \in Policies
  /\ limit \in Limits
  /\ admit = TRUE /\ serve = TRUE
  /\ \E p \in Prefix : client = [phase |-> "idle", prefix |-> p, left |-> 0, count |-> 0,
                                 served |-> TRUE]
  /\ round = NoRound
  /\ before = {} /\ old = {}

----------------------------------------------------------------------------
(* Queues *)

Elements(s) == {s[i] : i \in DOMAIN s}

\* s after list::erase of the place of d.
Without(s, d) ==
  IF d \notin Elements(s) THEN s
  ELSE LET i == CHOOSE j \in DOMAIN s : s[j] = d
       IN [j \in 1..(Len(s) - 1) |-> IF j < i THEN s[j] ELSE s[j + 1]]

Drop(s, n) == IF n <= 0 THEN s ELSE SubSeq(s, n + 1, Len(s))
Taken(s, n) == {s[i] : i \in {j \in DOMAIN s : j <= n}}

Detach(q, d) == [k \in Queue |-> Without(q[k], d)]

QueueFor(uns, fresh) ==
  IF policy = "lru" THEN "lru"
  ELSE IF uns THEN "unsolicited" ELSE IF fresh THEN "fifo" ELSE "stale"

Attach(q, d, k) == [q EXCEPT ![k] = Append(@, d)]

\* Mutant of Kept: the place of the timer is not cleared by detachQueue.
KeptAll(t, d) == t

\* detachQueue cancels the timer.
Kept(t, d) == t \ {d}

\* Data without a freshness period may be found stale by the time of attachQueue.
FreshWhenAttached(d) == IF FreshnessPeriod[d] = 0 THEN BOOLEAN ELSE {TRUE}

----------------------------------------------------------------------------
(* evictEntries: from the front of the unsolicited, the stale and the FIFO queue *)

\* Mutant of Excess: the loop stops one too early.
ExcessButOne(S) == Cardinality(S) - limit' - 1

\* How many entries are over the limit that the step leaves.
Excess(S) == Cardinality(S) - limit'

\* Mutant of Ahead: stale entries go before unsolicited ones.
AheadStaleFirst(q, k) ==
  CASE k = "stale" -> 0
    [] k = "unsolicited" -> Len(q["stale"])
    [] k = "fifo" -> Len(q["unsolicited"]) + Len(q["stale"])
    [] k = "lru" -> 0

\* How many entries go before the first one of queue k.
Ahead(q, k) ==
  CASE k = "unsolicited" -> 0
    [] k = "stale" -> Len(q["unsolicited"])
    [] k = "fifo" -> Len(q["unsolicited"]) + Len(q["stale"])
    [] k = "lru" -> 0

Evicted(q, n) == UNION {Taken(q[k], n - Ahead(q, k)) : k \in Queue}

\* The store after evictions, from the table S with freshness f, queues q and timers t.
Settle(S, U, f, q, t) ==
  LET n == Excess(S)
      gone == Evicted(q, n)
  IN /\ table' = S \ gone
     /\ unsolicited' = U \ gone
     /\ freshLeft' = [d \in S \ gone |-> f[d]]
     /\ queues' = [k \in Queue |-> Drop(q[k], n - Ahead(q, k))]
     /\ timers' = t \ gone
     /\ old' = old \ gone


\* The order of use, when d is used now and S is in the table.
Touched(S, d) ==
  IF policy # "lru" THEN {}
  ELSE {e \in before : e[1] # d /\ e[2] # d} \cup ((S \ {d}) \X {d})
Remaining(B) == {e \in B : e[1] \in table' /\ e[2] \in table'}

----------------------------------------------------------------------------
(* Cs *)

\* Cs::insert of new Data: afterInsert.
Insert(d, uns) ==
  /\ admit /\ limit # 0
  /\ d \notin table
  /\ UNCHANGED configVars
  /\ \E fresh \in FreshWhenAttached(d) :
       LET k == QueueFor(uns, fresh)
       IN Settle(table \cup {d}, IF uns THEN unsolicited \cup {d} ELSE unsolicited,
                 [e \in table \cup {d} |-> IF e = d THEN FreshnessPeriod[d] ELSE freshLeft[e]],
                 Attach(queues, d, k), IF k = "fifo" THEN timers \cup {d} ELSE timers)
  /\ before' = Remaining(Touched(table, d))
  /\ UNCHANGED <<client, round>>

\* Mutant of Refreshed: afterRefresh attaches the entry again without detaching it.
RefreshedTwice(d) == queues

\* The queues when afterRefresh attaches the entry at its new place.
Refreshed(d) == Detach(queues, d)

\* Cs::insert of Data that is there: afterRefresh.
Refresh(d, uns) ==
  /\ admit /\ limit # 0
  /\ d \in table
  /\ freshLeft' = [freshLeft EXCEPT ![d] = FreshnessPeriod[d]]
  /\ unsolicited' = IF uns THEN unsolicited ELSE unsolicited \ {d}
  /\ \E fresh \in FreshWhenAttached(d) :
       LET k == QueueFor(d \in unsolicited', fresh)
       IN /\ queues' = Attach(Refreshed(d), d, k)
          /\ timers' = IF k = "fifo" THEN Kept(timers, d) \cup {d} ELSE Kept(timers, d)
  /\ before' = Touched(table, d)
  /\ UNCHANGED <<table, configVars, client, round, old>>

\* moveToStaleQueue; the scheduler runs events in the order of their times
MoveToStale(d) ==
  /\ d \in timers
  /\ freshLeft[d] <= 0
  /\ \A e \in timers : freshLeft[d] <= freshLeft[e]
  /\ timers' = timers \ {d}
  /\ queues' = [queues EXCEPT !["fifo"] = Without(@, d), !["stale"] = Append(@, d)]
  /\ UNCHANGED <<table, unsolicited, freshLeft, configVars, client, round, before, old>>

\* Mutant of UsedIn: a lookup leaves the queue as it is.
UsedInPlace(q, d) == q

\* beforeUse: LRU moves the entry to the end.
UsedIn(q, d) ==
  IF policy = "lru" THEN [q EXCEPT !["lru"] = Append(Without(@, d), d)] ELSE q

\* findImpl: the first entry of the range that satisfies the Interest.
Matches(S, p, mustBeFresh) ==
  {d \in S \cap Under[p] : mustBeFresh => freshLeft[d] >= 0}
FirstOf(S) == CHOOSE d \in S : \A e \in S : Rank[d] <= Rank[e]

Hit(S, p, mustBeFresh) == serve /\ limit # 0 /\ Matches(S, p, mustBeFresh) # {}

FindHit(p, mustBeFresh) ==
  /\ Hit(table, p, mustBeFresh)
  /\ LET d == FirstOf(Matches(table, p, mustBeFresh))
     IN /\ queues' = UsedIn(queues, d)
        /\ before' = Touched(table, d)
  /\ UNCHANGED <<table, unsolicited, freshLeft, timers, configVars, client, round, old>>

Tick ==
  /\ \E d \in table : freshLeft[d] >= 0
  /\ freshLeft' = [d \in table |-> IF freshLeft[d] >= 0 THEN freshLeft[d] - 1 ELSE -1]
  /\ UNCHANGED <<table, unsolicited, queues, timers, configVars, client, round, before, old>>

----------------------------------------------------------------------------
(* Management *)

\* CsManager::changeConfig
SetLimit(n) ==
  /\ n # limit
  /\ limit' = n
  /\ UNCHANGED <<policy, admit, serve, client, round>>
  /\ Settle(table, unsolicited, freshLeft, queues, timers)
  /\ before' = Remaining(before)

EnableAdmit(on) ==
  /\ on # admit
  /\ admit' = on
  /\ UNCHANGED <<entryVars, policy, limit, serve, client, round, before, old>>

EnableServe(on) ==
  /\ on # serve
  /\ serve' = on
  /\ client' = [client EXCEPT !.served = @ /\ on]
  /\ UNCHANGED <<entryVars, policy, limit, admit, round, before, old>>

\* TablesConfigSection::processConfig: the policy is changed only when the store is
\* empty after the new limit.
Reconfigure(n, name) ==
  /\ limit' = n
  /\ Settle(table, unsolicited, freshLeft, queues, timers)
  /\ policy' = IF table' = {} THEN name ELSE policy
  /\ before' = Remaining(before)
  /\ UNCHANGED <<admit, serve, client, round>>

\* nfdc cs erase begins.
BeginErase(p, n) ==
  /\ client.phase # "asking"
  /\ client' = [phase |-> "asking", prefix |-> p, left |-> n, count |-> n,
                served |-> serve]
  /\ old' = table \cap Under[p]
  /\ UNCHANGED <<entryVars, configVars, round, before>>

\* Mutant of Budget: the count asked for is not looked at.
BudgetUncounted(left) == EraseLimit

Budget(left) == IF left < EraseLimit THEN left ELSE EraseLimit

\* Mutant of Limited: a round that erased as many as it may is taken for the last one.
LimitedNever(erased, left) == FALSE

\* CsManager::erase asks whether there is more only after a full round.
Limited(erased, left) == erased = EraseLimit /\ left > EraseLimit

\* CsManager::erase begins; nothing else happens before it has answered.
BeginRound ==
  /\ client.phase = "asking"
  /\ round' = 0
  /\ UNCHANGED <<entryVars, configVars, client, before, old>>

\* May eraseImpl erase another entry?
ErasesMore == round < Budget(client.left) /\ Matches(table, client.prefix, FALSE) # {}

\* eraseImpl: beforeErase and erase of the next entry of the range.
EraseNext ==
  LET d == FirstOf(Matches(table, client.prefix, FALSE))
  IN /\ ErasesMore
     /\ round' = round + 1
     /\ table' = table \ {d}
     /\ unsolicited' = unsolicited \ {d}
     /\ freshLeft' = [e \in table \ {d} |-> freshLeft[e]]
     /\ queues' = Detach(queues, d)
     /\ timers' = Kept(timers, d)
     /\ before' = Remaining(before)
     /\ old' = old \ {d}
     /\ UNCHANGED <<configVars, client>>

\* The answer, and what nfdc makes of it: another round if there is more.
EraseAnswer ==
  LET more == Limited(round, client.left) /\ Hit(table, client.prefix, FALSE)
      d == FirstOf(Matches(table, client.prefix, FALSE))
  IN /\ ~ErasesMore
     /\ round' = NoRound
     /\ queues' = IF more THEN UsedIn(queues, d) ELSE queues
     /\ before' = IF more THEN Touched(table, d) ELSE before
     /\ client' = [client EXCEPT
                     !.phase = IF more THEN "asking" ELSE "done",
                     !.left = IF client.count = NoCount THEN NoCount ELSE @ - round]
     /\ UNCHANGED <<table, unsolicited, freshLeft, timers, configVars, old>>

\* A command or its answer is lost: nfdc reports the failure and ends.
EraseFails ==
  /\ client.phase = "asking"
  /\ client' = [client EXCEPT !.phase = "idle"]
  /\ old' = {}
  /\ UNCHANGED <<entryVars, configVars, round, before>>

Step ==
  \/ \E d \in Data, uns \in BOOLEAN : Insert(d, uns) \/ Refresh(d, uns)
  \/ \E d \in Data : MoveToStale(d)
  \/ \E p \in Prefix, mustBeFresh \in BOOLEAN : FindHit(p, mustBeFresh)
  \/ Tick
  \/ \E n \in Limits : SetLimit(n)
  \/ \E n \in Limits, name \in Policies : Reconfigure(n, name)
  \/ \E on \in BOOLEAN : EnableAdmit(on) \/ EnableServe(on)
  \/ \E p \in Prefix, n \in Counts \cup {NoCount} : BeginErase(p, n)
  \/ BeginRound \/ EraseFails

Next ==
  \/ round = NoRound /\ Step
  \/ round # NoRound /\ (EraseNext \/ EraseAnswer)

Spec == Init /\ [][Next]_vars

----------------------------------------------------------------------------
(* Properties *)

\* cs-policy-priority-fifo.hpp: "Each Entry should be in exactly one queue at any
\* moment".  The queues hold exactly the table, no entry twice and only the policy's
\* own queues are used, through refreshes, evictions, erasures, timers and changes of
\* limit and policy: an EntryRef in a queue is never dangling.
QueuesHoldTable ==
  /\ UNION {Elements(queues[k]) : k \in Queue} = table
  /\ \A k \in Queue : \A i, j \in DOMAIN queues[k] : queues[k][i] = queues[k][j] => i = j
  /\ \A k, l \in Queue : k # l => Elements(queues[k]) \cap Elements(queues[l]) = {}
  /\ policy = "priority_fifo" => queues["lru"] = <<>>
  /\ policy = "lru" => Elements(queues["lru"]) = table

\* The number of entries never exceeds the capacity.
WithinLimit == Cardinality(table) <= limit

\* A timer that moves an entry to the stale queue runs exactly for the entries of the
\* FIFO queue, as moveToStaleQueue asserts, and the unsolicited queue holds the
\* unsolicited entries, also after solicited Data has refreshed one.
TimersMatchQueues ==
  /\ timers = Elements(queues["fifo"])
  /\ policy = "priority_fifo" => unsolicited = Elements(queues["unsolicited"])

\* Priority FIFO evicts solicited Data only when no unsolicited Data is left, and Data
\* still fresh only when no stale Data is left, except stale Data whose timer is late.
EvictsInOrder ==
  [][policy = "priority_fifo" /\ round = NoRound =>
       \A d \in (table \ table') \ unsolicited :
         /\ unsolicited' = {}
         /\ freshLeft[d] > 0 => \A e \in table' : freshLeft'[e] < 0 => e \in timers]_vars

\* LRU evicts the entries that were not used for longest: whatever stays was used,
\* refreshed or inserted after what goes.
EvictsOldest ==
  [][policy = "lru" /\ round = NoRound =>
       \A e \in before : e[2] \notin table' => e[1] \notin table']_vars

\* When nfdc cs erase reports success, the Data it was asked to erase are gone or as many
\* as it was asked for have been erased, although each command erases EraseLimit at most,
\* other Data come in between and the limit changes: unless serving was off.
EraseReachesAll ==
  client.phase = "done" /\ client.served => old = {} \/ client.left = 0

\* nfdc-cs.rst: "The nfdc cs erase command erases cached Data under a name prefix".
EraseReachesAllAlways ==
  client.phase = "done" => old = {} \/ client.left = 0
=============================================================================
