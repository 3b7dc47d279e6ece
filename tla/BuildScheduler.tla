---------------------------- MODULE BuildScheduler ----------------------------
(***************************************************************************)
(* The table of build slots of the daemon (crates/am-base/src/             *)
(* build_scheduler.rs): one row per holder, held or waiting, every         *)
(* operation one section under build_slot_lock.                            *)
(*                                                                         *)
(* A time is kept as its distance from now: what is left of a lease, and   *)
(* how long a waiting row has been silent.  `since` is kept as the order   *)
(* it induces on the waiting rows, which is all the code uses it for (two  *)
(* rows of the same millisecond, ordered by name, are ordered by arrival). *)
(***************************************************************************)
EXTENDS Naturals, FiniteSets

CONSTANTS
    Holders,        \* "<agent>:<pid>", the primary key of build_slots
    Bots,
    Tokens,         \* the random tokens of held rows
    Nil,            \* no token (a waiting row has the empty one), no bot (of no row)
    MaxHeld,        \* max_concurrent
    MaxRowsPerBot,  \* MAX_ROWS_PER_BOT
    Ttl,            \* lease_ttl, in ticks
    LiveWaiter,     \* FIFO_LIVE_WAITER: silent for so long, it is passed by
    StaleWaiting    \* STALE_WAITING: silent for so long, its row goes

ASSUME SlotsAssumption ==
    /\ IsFiniteSet(Holders) /\ Nil \notin Tokens \cup Bots
    /\ MaxHeld \in Nat \ {0} /\ MaxRowsPerBot \in Nat \ {0}
    /\ Ttl \in Nat \ {0}
    /\ LiveWaiter \in Nat \ {0} /\ StaleWaiting \in Nat \ {0}

VARIABLES
    rows,           \* table build_slots
    ahead           \* <<v, w>>: v waits and so does w, and v has the earlier since

slots == <<rows, ahead>>

Row == [status : {"none", "waiting", "held"}, bot : Bots \cup {Nil},
        token : Tokens \cup {Nil}, left : 0 .. Ttl, silent : 0 .. StaleWaiting]

Held == {h \in Holders : rows[h].status = "held"}
Waiting == {h \in Holders : rows[h].status = "waiting"}

SlotsTypeOK ==
    /\ rows \in [Holders -> Row]
    /\ ahead \subseteq Waiting \X Waiting

Blank == [status |-> "none", bot |-> Nil, token |-> Nil, left |-> 0, silent |-> 0]

SlotsInit ==
    /\ rows = [h \in Holders |-> Blank]
    /\ ahead = {}

-----------------------------------------------------------------------------

\* A mistake the checks must find: leases do not run out.
ExpiredNever(h) == FALSE

Expired(h) == rows[h].status = "held" /\ rows[h].left = 0
Stale(h) == rows[h].status = "waiting" /\ rows[h].silent >= StaleWaiting

\* reap_expired_held and reap_stale_waiting, as the first thing acquire does:
\* the rows it goes on with are those that stay.
Stays(h) == rows[h].status # "none" /\ ~Expired(h) /\ ~Stale(h)
Kept(gone) == [h \in Holders |-> IF h \in gone THEN Blank ELSE rows[h]]
Dead == {h \in Holders : ~Stays(h)}
Among(S) == {p \in ahead : p[1] \in S /\ p[2] \in S}
StillWaiting == {h \in Waiting : Stays(h)}
StillHeld == {h \in Held : Stays(h)}

\* The answers of acquire; the row of the caller, and what it may not be.
OwnedByAnother(h, b) == Stays(h) /\ rows[h].bot # b
TooMany(h, b) ==
    /\ ~Stays(h)
    /\ Cardinality({g \in Holders : Stays(g) /\ rows[g].bot = b}) >= MaxRowsPerBot
Admitted(h, b) == ~OwnedByAnother(h, b) /\ ~TooMany(h, b)

\* Someone who still polls has an earlier number. A caller without a row has the latest.
SomeoneIsAhead(h) ==
    \E v \in StillWaiting \ {h} :
        /\ rows[v].silent < LiveWaiter
        /\ h \in StillWaiting => <<v, h>> \in ahead
\* Mistakes the checks must find: the limit is off by one; there is no queue.
MayHoldOneMore(h) == Cardinality(StillHeld) <= MaxHeld /\ ~SomeoneIsAhead(h)
MayHoldAnyway(h) == Cardinality(StillHeld) < MaxHeld

MayHold(h) == Cardinality(StillHeld) < MaxHeld /\ ~SomeoneIsAhead(h)

Refuse(h, b) ==
    /\ ~Admitted(h, b)
    /\ rows' = Kept(Dead)
    /\ ahead' = Among(StillWaiting)

\* A holder that asks again while it holds gets the same token; the lease is not extended.
Repeat(h, b) ==
    /\ Admitted(h, b) /\ h \in StillHeld
    /\ rows' = Kept(Dead)
    /\ ahead' = Among(StillWaiting)

\* A mistake the checks must find: whoever gets a slot keeps its number.
GrantKeepingNumber(h, b, t) ==
    /\ Admitted(h, b) /\ h \notin StillHeld /\ MayHold(h)
    /\ rows' = [Kept(Dead) EXCEPT ![h] = [status |-> "held", bot |-> b, token |-> t,
                                          left |-> Ttl, silent |-> 0]]
    /\ ahead' = Among(StillWaiting)

Grant(h, b, t) ==
    /\ Admitted(h, b) /\ h \notin StillHeld /\ MayHold(h)
    /\ rows' = [Kept(Dead) EXCEPT ![h] = [status |-> "held", bot |-> b, token |-> t,
                                          left |-> Ttl, silent |-> 0]]
    /\ ahead' = Among(StillWaiting \ {h})

\* mark_waiting: one who already waits keeps its since, a new one goes last.
Queue(h, b) ==
    /\ Admitted(h, b) /\ h \notin StillHeld /\ ~MayHold(h)
    /\ rows' = [Kept(Dead) EXCEPT ![h] = [status |-> "waiting", bot |-> b, token |-> Nil,
                                          left |-> 0, silent |-> 0]]
    /\ ahead' = Among(StillWaiting)
                \cup (IF h \in StillWaiting THEN {} ELSE StillWaiting \X {h})

\* renew: the lease must be held, unexpired and the caller's.
Renewable(h, t) == h \in Held /\ ~Expired(h) /\ rows[h].token = t
Renew(h, t) ==
    /\ Renewable(h, t)
    /\ rows' = [rows EXCEPT ![h].left = Ttl, ![h].silent = 0]
    /\ UNCHANGED ahead

\* release_as with a token: the held row that bears it goes, if there is one.
Release(h, t) ==
    /\ rows' = IF h \in Held /\ rows[h].token = t THEN Kept({h}) ELSE rows
    /\ UNCHANGED ahead

\* release_as with the empty token: a waiting row of this bot goes, if there is one.
Cancel(h, b) ==
    LET mine == h \in Waiting /\ rows[h].bot = b IN
    /\ rows' = IF mine THEN Kept({h}) ELSE rows
    /\ ahead' = IF mine THEN Among(Waiting \ {h}) ELSE ahead

\* sweep, of the background task; status reaps the held rows only.
Sweep ==
    /\ rows' = Kept(Dead)
    /\ ahead' = Among(StillWaiting)
Status ==
    /\ rows' = Kept({h \in Holders : Expired(h)})
    /\ UNCHANGED ahead

\* Time passes: leases run down, waiting rows grow silent.
Older(r) ==
    CASE r.status = "held" -> [r EXCEPT !.left = IF @ > 0 THEN @ - 1 ELSE 0]
      [] r.status = "waiting" -> [r EXCEPT !.silent = IF @ < StaleWaiting THEN @ + 1 ELSE @]
      [] OTHER -> r
Pass ==
    /\ rows' = [h \in Holders |-> Older(rows[h])]
    /\ UNCHANGED ahead

-----------------------------------------------------------------------------

\* The table, whoever calls it, with whatever token.
SlotsNext ==
    \/ \E h \in Holders, b \in Bots :
          \/ Refuse(h, b) \/ Repeat(h, b) \/ Queue(h, b) \/ Cancel(h, b)
          \/ \E t \in Tokens : Grant(h, b, t)
    \/ \E h \in Holders, t \in Tokens : Renew(h, t) \/ Release(h, t)
    \/ Sweep \/ Status \/ Pass

SlotsSpec == SlotsInit /\ [][SlotsNext]_slots

\* Never more slots are held than the configuration allows (acquire counts and
\* writes in one section, build_scheduler.rs:167-247), whatever is asked, in whatever
\* order, and whichever leases run out meanwhile.
HeldWithinMax == Cardinality(Held) <= MaxHeld

\* The numbers of the waiting are a strict order: of two that wait exactly one is
\* ahead, and who waits is nowhere behind itself (mark_waiting keeps `since`,
\* build_scheduler.rs:141-159), so there is always a first in the queue.
QueueIsOrdered ==
    /\ \A v, w \in Waiting : v # w => (<<v, w>> \in ahead <=> <<w, v>> \notin ahead)
    /\ \A v \in Waiting : <<v, v>> \notin ahead
    /\ \A u, v, w \in Waiting : <<u, v>> \in ahead /\ <<v, w>> \in ahead => <<u, w>> \in ahead
=============================================================================
