-------------------------------- MODULE Names --------------------------------
(***************************************************************************)
(* The names a process gives the scans that have no journal to name them   *)
(* (src/src/id.rs): the millisecond and a counter, written so that the     *)
(* names sort as the numbers do.  Tasks mint at once, and the host's clock *)
(* may be set to anything between any two steps.                           *)
(*                                                                         *)
(* u64 arithmetic wraps at PerMillisecond * Spans: in the code 2^16 * 2^48. *)
(***************************************************************************)
EXTENDS Integers, Sequences, Functions

CONSTANTS
    Tasks,              \* tasks starting a scan
    PerMillisecond,     \* how many names a millisecond holds
    Spans,              \* how many milliseconds a u64 holds so
    Base,               \* letters in ALPHABET
    Width,              \* letters in a name
    MaxClock,           \* bound: the latest the clock may read
    MaxNames            \* bound: names minted

\* Below zero is before the epoch.
Clocks == -1..MaxClock

Numbers == 0..PerMillisecond * Spans - 1

VARIABLES
    clock,              \* SystemTime::now
    counter,            \* COUNTER
    millis,             \* what each minting task has read, or a number below zero
    minted              \* the names, in the order they were counted

vars == <<clock, counter, millis, minted>>

TypeOK ==
    /\ clock \in Clocks
    /\ counter \in Nat
    /\ millis \in [Tasks -> {-1} \cup Nat]
    /\ minted \in Seq([millis : Nat, number : Nat])

Init ==
    /\ clock \in Clocks
    /\ counter = 0
    /\ millis = [t \in Tasks |-> -1]
    /\ minted = <<>>

\* Time passes, or the clock is set.
Tick ==
    /\ clock' \in Clocks \ {clock}
    /\ UNCHANGED <<counter, millis, minted>>

\* A time before the epoch is read as the epoch.
Read(t) ==
    /\ millis[t] < 0
    /\ millis' = [millis EXCEPT ![t] = IF clock < 0 THEN 0 ELSE clock]
    /\ UNCHANGED <<clock, counter, minted>>

\* Mutation: the counter is added to the millisecond it belongs to.
NumberAdded(ms, count) == (ms + (count % PerMillisecond)) % (PerMillisecond * Spans)

\* The wrapping product and sum of u64: the millisecond loses what is above
\* 2^48.
Number(ms, count) == (ms % Spans) * PerMillisecond + (count % PerMillisecond)

Count(t) ==
    /\ millis[t] >= 0 /\ Len(minted) < MaxNames
    /\ counter' = counter + 1
    /\ minted' = Append(minted, [millis |-> millis[t], number |-> Number(millis[t], counter)])
    /\ millis' = [millis EXCEPT ![t] = -1]
    /\ UNCHANGED clock

Next == Tick \/ \E t \in Tasks : Read(t) \/ Count(t)

Spec == Init /\ [][Next]_vars

\* What is left of a number once so many letters are written.
Rest(number) ==
    LET rest[written \in Nat] ==
          IF written = 0 THEN number ELSE rest[written - 1] \div Base
    IN  rest

\* Mutation: the least significant letter is written first.
EncodeBackwards(number) == [i \in 1..Width |-> Rest(number)[i - 1] % Base]

\* Most significant letter first, and as many letters for every number.
Encode(number) == [i \in 1..Width |-> Rest(number)[Width - i] % Base]

\* A name has letters enough: nothing is left of any number after the last.
\* In the code 32^13 is 2^65.
ASSUME NamesAssumption ==
    /\ PerMillisecond \in Nat \ {0} /\ Spans \in Nat \ {0}
    /\ Base \in Nat \ {0} /\ Width \in Nat
    /\ MaxClock \in Nat
    /\ \A number \in Numbers : Rest(number)[Width] = 0

-----------------------------------------------------------------------------
(* Properties.                                                             *)

\* A name comes again after PerMillisecond others at the soonest, whatever
\* the clock does and however the tasks take turns: a map that holds fewer
\* scans than that never files one over another for their names.  (The counter
\* as the low part of the number, and fetch_add as one step.)
NamesApart ==
    \A i, j \in 1..Len(minted) :
        (i < j /\ j - i < PerMillisecond) =>
            Encode(minted[i].number) # Encode(minted[j].number)

Before(a, b) ==
    \E k \in 1..Width : a[k] < b[k] /\ \A l \in 1..k - 1 : a[l] = b[l]

\* Names sort by the millisecond that was read, and within one as they were
\* counted until the counter wraps: by when the scans started, that is, if the
\* clock was not set back between them.  (The order of the letters, and the
\* millisecond above the counter.)
NamesSort ==
    \A i, j \in 1..Len(minted) :
        LET a == minted[i]  b == minted[j]
            wraps(k) == (k - 1) \div PerMillisecond
        IN  (\/ a.millis < b.millis /\ b.millis < Spans
             \/ a.millis = b.millis /\ i < j /\ wraps(i) = wraps(j))
            => Before(Encode(a.number), Encode(b.number))

=============================================================================
