------------------------------ MODULE EventLog ------------------------------
(***************************************************************************)
(* What the hook inbox promises about the events of the bots: they form a  *)
(* log, in which an event that carries the sender's time appears once; and *)
(* every bot's part of the log takes effect on turns in its order, without *)
(* passing an entry over.  An entry has its effect once.  Only a failure   *)
(* without a name of its own (native ids) may have it again, and no longer *)
(* when a later entry of its bot was dealt with.                           *)
(***************************************************************************)
EXTENDS Naturals, Sequences

CONSTANTS Events, BotOf, Keyed, Checks, Nameless

VARIABLES
    log,      \* the events in the order they were accepted
    settled,  \* the entries that were dealt with: took effect, or have none
    effects   \* the entries that took effect on turns, in that order

Init == log = <<>> /\ settled = {} /\ effects = <<>>

(* A copy of an event that has a key is no new entry.                      *)
Write(e) ==
    /\ e \in Keyed => \A i \in DOMAIN log : log[i] # e
    /\ log' = Append(log, e)
    /\ UNCHANGED <<settled, effects>>

(* Claim-collision checks have no effect on turns and hold nobody up.      *)
OfSameBot(i) == {j \in DOMAIN log : BotOf[log[j]] = BotOf[log[i]] /\ log[j] \notin Checks}

InTurn(i) ==
    /\ log[i] \notin Checks
    /\ \A j \in OfSameBot(i) : /\ j < i => j \in settled
                               /\ j > i => j \notin settled

(* The entry has no effect, or none any more.                              *)
Settle(i) ==
    /\ InTurn(i)
    /\ settled' = settled \cup {i}
    /\ UNCHANGED <<log, effects>>

Apply(i) ==
    /\ InTurn(i)
    /\ log[i] \in Nameless \/ \A k \in DOMAIN effects : effects[k] # i
    /\ settled' = settled \cup {i}
    /\ effects' = Append(effects, i)
    /\ UNCHANGED log

Next ==
    \/ \E e \in Events : Write(e)
    \/ \E i \in DOMAIN log : Settle(i) \/ Apply(i)

Spec == Init /\ [][Next]_<<log, settled, effects>>

=============================================================================
