------------------------------- MODULE Pacing -------------------------------
(***************************************************************************)
(* The bandwidth limiter (src/src/ratelimit.rs): a transfer is held until   *)
(* its departure, then runs at full speed.  The threads of a run share one  *)
(* limiter; a Config that is cloned for another run has a new one.  Time is *)
(* counted in ticks, and a transfer is told by the ticks its bytes take at  *)
(* the limit in force when it asks: none when there is no limit.            *)
(***************************************************************************)
EXTENDS Naturals, FiniteSets

CONSTANTS
    Transfers,
    Spans,     \* the ticks a transfer may take, 0 among them
    LastTick   \* bounds the clock

ASSUME PacingAssumption == 0 \in Spans /\ Spans \subseteq Nat /\ LastTick \in Nat /\ IsFiniteSet(Transfers)

VARIABLES
    clock,
    nextDeparture, \* RateLimiter::next_departure
    transfer       \* of each transfer: how far it is, its departure and its span

pacingVars == <<clock, nextDeparture, transfer>>

TransferStages == {"new", "waiting", "gone"}

PacingTypeOK ==
    /\ clock \in 0..LastTick /\ nextDeparture \in Nat
    /\ transfer \in [Transfers -> [stage : TransferStages, at : Nat, span : Spans]]

PacingInit ==
    /\ clock = 0 /\ nextDeparture = 0
    /\ transfer = [t \in Transfers |-> [stage |-> "new", at |-> 0, span |-> 0]]

\* (Slip) The slot begins now, whoever has still to depart.
SlotNow == clock
Slot == IF nextDeparture > clock THEN nextDeparture ELSE clock

(* acquire, under its mutex: the next free slot is taken.  Without a limit there is none. *)
Acquire(t, span) ==
    /\ transfer[t].stage = "new"
    /\ IF span = 0
       THEN /\ transfer' = [transfer EXCEPT ![t] = [stage |-> "gone", at |-> clock, span |-> 0]]
            /\ UNCHANGED nextDeparture
       ELSE /\ transfer' = [transfer EXCEPT ![t] =
                               [stage |-> "waiting", at |-> Slot, span |-> span]]
            /\ nextDeparture' = Slot + span
    /\ UNCHANGED clock

(* It has slept until its slot, or longer. *)
Depart(t) ==
    /\ transfer[t].stage = "waiting" /\ transfer[t].at <= clock
    /\ transfer' = [transfer EXCEPT ![t].stage = "gone"]
    /\ UNCHANGED <<clock, nextDeparture>>

ClockTicks == clock < LastTick /\ clock' = clock + 1 /\ UNCHANGED <<nextDeparture, transfer>>

PacingNext == ClockTicks \/ \E t \in Transfers : Depart(t) \/ \E n \in Spans : Acquire(t, n)

\* The ticks transfers take at their limits, one apart from the other.
Ticks(some) == UNION {{t} \X (1..transfer[t].span) : t \in some}

\* However many threads transfer at once and whenever they wake, what has departed, but for
\* one transfer, would have fitted into the time so far at the limit: "the combined
\* throughput of every caller together stays at or under the configured rate - not
\* `threads x rate`".
PacedTogether ==
    LET gone == {t \in Transfers : transfer[t].stage = "gone"}
    IN  gone # {} => \E u \in gone : Cardinality(Ticks(gone \ {u})) <= clock
=============================================================================
