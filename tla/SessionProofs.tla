---------------------------- MODULE SessionProofs ----------------------------
(***************************************************************************)
(* Proofs about Session, for any lines, room in the pipes and events.  The *)
(* invariant says who is at the output's lock, what the last half written  *)
(* is, and where a line can be that nobody has answered.                   *)
(***************************************************************************)
EXTENDS Session, TLAPS, SequenceTheorems

-----------------------------------------------------------------------------
(* The output as one stream.                                               *)

\* Reading moves a half from the output to what was read, and the stream is
\* as it was.
LEMMA HearKeepsStream ==
    ASSUME NEW S, NEW g \in Seq(S), NEW o \in Seq(S), o # <<>>
    PROVE  Append(g, Head(o)) \o Tail(o) = g \o o
  <1> DEFINE s == Append(g, Head(o)) \o Tail(o)
             t == g \o o
  <1>1. Head(o) \in S /\ Tail(o) \in Seq(S) /\ Len(Tail(o)) = Len(o) - 1
        /\ \A i \in 1..Len(Tail(o)) : Tail(o)[i] = o[i + 1]
    BY HeadTailProperties
  <1>2. Append(g, Head(o)) \in Seq(S) /\ Len(Append(g, Head(o))) = Len(g) + 1
        /\ Append(g, Head(o))[Len(g) + 1] = o[1]
        /\ \A i \in 1..Len(g) : Append(g, Head(o))[i] = g[i]
    BY <1>1
  <1>3. s \in Seq(S) /\ Len(s) = Len(g) + 1 + (Len(o) - 1)
        /\ \A i \in 1..Len(s) : s[i] = IF i <= Len(g) + 1 THEN Append(g, Head(o))[i]
                                       ELSE Tail(o)[i - (Len(g) + 1)]
    BY <1>1, <1>2, ConcatProperties
  <1>4. t \in Seq(S) /\ Len(t) = Len(g) + Len(o)
        /\ \A i \in 1..Len(t) : t[i] = IF i <= Len(g) THEN g[i] ELSE o[i - Len(g)]
    BY ConcatProperties
  <1>5. Len(g) \in Nat /\ Len(o) \in Nat
    BY LenProperties
  <1>6. Len(s) = Len(t)
    BY <1>3, <1>4, <1>5
  <1> HIDE DEF s, t
  <1>7. \A i \in 1..Len(s) : s[i] = t[i]
    <2> TAKE i \in 1..Len(s)
    <2>1. CASE i <= Len(g)
      <3>1. i \in 1..Len(t) /\ i \in 1..Len(g) /\ i <= Len(g) + 1
        BY <1>5, <1>6, <2>1
      <3>2. s[i] = Append(g, Head(o))[i] /\ t[i] = g[i]
        BY <1>3, <1>4, <2>1, <3>1
      <3> QED BY <1>2, <3>1, <3>2
    <2>2. CASE i = Len(g) + 1
      BY <1>2, <1>3, <1>4, <1>5, <1>6, <2>2
    <2>3. CASE i > Len(g) + 1
      <3>1. i - (Len(g) + 1) \in 1..Len(Tail(o)) /\ i - (Len(g) + 1) + 1 = i - Len(g)
        BY <1>1, <1>3, <1>5, <2>3
      <3>2. Tail(o)[i - (Len(g) + 1)] = o[i - Len(g)]
        BY <1>1, <3>1
      <3> QED BY <1>3, <1>4, <1>5, <1>6, <2>3, <3>2
    <2> QED BY <1>5, <2>1, <2>2, <2>3
  <1>8. s = t
    BY <1>3, <1>4, <1>6, <1>7, SeqEqual
  <1> QED BY <1>8 DEF s, t

\* Writing adds a half at the end of it.
LEMMA WriteAppends ==
    ASSUME NEW S, NEW g \in Seq(S), NEW o \in Seq(S), NEW h \in S
    PROVE  g \o Append(o, h) = Append(g \o o, h)
  <1>1. Append(o, h) = o \o <<h>> /\ <<h>> \in Seq(S)
    OBVIOUS
  <1>2. g \o (o \o <<h>>) = (g \o o) \o <<h>>
    BY <1>1, ConcatAssociative
  <1>3. g \o o \in Seq(S)
    BY ConcatProperties
  <1>4. (g \o o) \o <<h>> = Append(g \o o, h)
    BY <1>3
  <1> QED BY <1>1, <1>2, <1>4

\* Taking one out of a sequence moves those behind it up by one.
LEMMA TakenOut ==
    ASSUME NEW S, NEW s \in Seq(S), NEW i \in 1..Len(s)
    PROVE  LET t == SubSeq(s, 1, i - 1) \o SubSeq(s, i + 1, Len(s))
           IN  /\ t \in Seq(S) /\ Len(t) = Len(s) - 1
               /\ \A j \in 1..Len(s) - 1 : t[j] = IF j < i THEN s[j] ELSE s[j + 1]
  <1> DEFINE a == SubSeq(s, 1, i - 1)
             b == SubSeq(s, i + 1, Len(s))
  <1>1. Len(s) \in Nat /\ i \in Nat
    OBVIOUS
  <1>2. a \in Seq(S) /\ Len(a) = i - 1 /\ \A j \in 1..i - 1 : a[j] = s[j]
    OBVIOUS
  <1>3. b \in Seq(S) /\ Len(b) = Len(s) - i /\ \A j \in 1..Len(s) - i : b[j] = s[i + j]
    OBVIOUS
  <1> HIDE DEF a, b
  <1>4. /\ a \o b \in Seq(S) /\ Len(a \o b) = Len(a) + Len(b)
        /\ \A j \in 1..Len(a) + Len(b) : (a \o b)[j] = IF j <= Len(a) THEN a[j] ELSE b[j - Len(a)]
    BY <1>2, <1>3, ConcatProperties
  <1>5. Len(a) + Len(b) = Len(s) - 1
    BY <1>1, <1>2, <1>3
  <1>6. ASSUME NEW j \in 1..Len(s) - 1
        PROVE  (a \o b)[j] = IF j < i THEN s[j] ELSE s[j + 1]
    <2>1. CASE j < i
      <3>1. j \in 1..i - 1 /\ j <= Len(a)
        BY <1>1, <1>2, <2>1
      <3> QED BY <1>2, <1>4, <1>5, <2>1, <3>1
    <2>2. CASE ~(j < i)
      <3>1. ~(j <= Len(a)) /\ j - Len(a) \in 1..Len(s) - i /\ i + (j - Len(a)) = j + 1
        BY <1>1, <1>2, <2>2
      <3> QED BY <1>3, <1>4, <1>5, <2>2, <3>1
    <2> QED BY <2>1, <2>2
  <1> QED BY <1>4, <1>5, <1>6 DEF a, b

-----------------------------------------------------------------------------
(* Types.                                                                  *)

\* A task that waits at the lock, or holds it, is in line.
Waiting ==
    \A r \in Lines : task[r] \in {"queued", "tail"} => \E i \in 1..Len(line) : line[i] = r

TypeInv == TypeOK /\ Waiting

\* The types, and the line for the lock, hold at first.
LEMMA TypeInit == Init => TypeInv
  <1> SUFFICES ASSUME Init PROVE TypeInv
    OBVIOUS
  <1>1. <<>> \in Seq(Lines) /\ <<>> \in Seq(Halves) /\ Len(<<>>) = 0
    OBVIOUS
  <1>2. OutRoom \in Nat
    BY SessionAssumption
  <1>3. task \in [Lines -> {"none", "compose", "queued", "tail", "done", "dropped"}]
        /\ last \in [Lines -> BOOLEAN] /\ sent \in [Lines -> Nat]
    BY DEF Init
  <1>4. Waiting
    BY DEF Init, Waiting
  <1>5. line \in Seq(Lines) /\ input \in Seq(Lines) /\ got \in Seq(Halves)
    BY <1>1 DEF Init
  <1>6. output \in Seq(Halves) /\ Len(output) <= OutRoom
    BY <1>1, <1>2 DEF Init
  <1>7. kind \in [Lines -> Kinds] /\ eager \in BOOLEAN /\ shut \in BOOLEAN /\ gone \in BOOLEAN
        /\ unsaid \in SUBSET Lines /\ loop = "read" /\ awaited = Nobody
    BY DEF Init
  <1> QED BY <1>3, <1>4, <1>5, <1>6, <1>7 DEF TypeInv, TypeOK

\* The first in line can be taken out of it, and nobody else is.
LEMMA LeaveLine ==
    ASSUME TypeInv, NEW r \in Lines, task[r] \in {"queued", "tail"}, Head(line) = r
    PROVE  /\ line # <<>> /\ Len(line) \in Nat \ {0} /\ line[1] = r
           /\ Tail(line) \in Seq(Lines) /\ Len(Tail(line)) = Len(line) - 1
           /\ \A i \in 1..Len(line) - 1 : Tail(line)[i] = line[i + 1]
  <1>1. line \in Seq(Lines)
    BY DEF TypeInv, TypeOK
  <1>2. line # <<>>
    <2>1. PICK i \in 1..Len(line) : line[i] = r
      BY DEF TypeInv, Waiting
    <2> QED BY <2>1
  <1> QED BY <1>1, <1>2, HeadTailProperties

\* Every step keeps the types and everybody who waits in line.
LEMMA TypeStep == TypeInv /\ [Next]_vars => TypeInv'
  <1> SUFFICES ASSUME TypeInv, [Next]_vars PROVE TypeInv'
    OBVIOUS
  <1> USE DEF TypeInv
  <1>1. ASSUME NEW r \in Lines, Say(r) PROVE TypeInv'
    BY <1>1 DEF Say, answers, TypeOK, Waiting
  <1>2. CASE Shut
    BY <1>2 DEF Shut, answers, TypeOK, Waiting
  <1>3. CASE Hear
    <2>1. Head(output) \in Halves /\ Tail(output) \in Seq(Halves)
          /\ Len(Tail(output)) = Len(output) - 1
      BY <1>3, HeadTailProperties DEF Hear, TypeOK
    <2>2. Append(got, Head(output)) \in Seq(Halves)
      BY <2>1 DEF TypeOK
    <2>3. Len(output') <= OutRoom
      BY <1>3, <2>1, LenProperties, SessionAssumption DEF Hear, TypeOK
    <2> QED BY <1>3, <2>1, <2>2, <2>3 DEF Hear, answers, TypeOK, Waiting
  <1>4. CASE Go
    BY <1>4 DEF Go, answers, TypeOK, Waiting
  <1>5. CASE Take
    <2>1. Head(input) \in Lines /\ Tail(input) \in Seq(Lines)
      BY <1>5, HeadTailProperties DEF Take, TypeOK
    <2>2. loop' \in {"read", "refuse", "drain", "returned", "failed"} /\ awaited' \in Lines \cup {Nobody}
      BY <1>5, <2>1 DEF Take, TypeOK
    <2>3. task' \in [Lines -> {"none", "compose", "queued", "tail", "done", "dropped"}]
          /\ \A r \in Lines : task'[r] \in {"queued", "tail"} => task'[r] = task[r]
      BY <1>5, <2>1 DEF Take, TypeOK
    <2> QED BY <1>5, <2>1, <2>2, <2>3 DEF Take, client, TypeOK, Waiting
  <1>6. CASE ReadFails \/ EndOfInput \/ Drained
    BY <1>6 DEF ReadFails, EndOfInput, Drained, client, answers, TypeOK, Waiting
  <1>7. CASE Refused
    <2>1. loop' \in {"read", "failed"} /\ awaited' = Nobody
      BY <1>7 DEF Refused
    <2> QED BY <1>7, <2>1 DEF Refused, client, answers, TypeOK, Waiting
  <1>8. ASSUME NEW r \in Lines, NEW final \in BOOLEAN, Queue(r, final) PROVE TypeInv'
    <2>1. line' \in Seq(Lines) /\ Len(line') = Len(line) + 1 /\ line'[Len(line) + 1] = r
          /\ \A i \in 1..Len(line) : line'[i] = line[i]
      BY <1>8 DEF Queue, TypeOK
    <2>2. Len(line) \in Nat
      BY DEF TypeOK
    <2>3. task' \in [Lines -> {"none", "compose", "queued", "tail", "done", "dropped"}]
          /\ last' \in [Lines -> BOOLEAN]
          /\ \A q \in Lines \ {r} : task'[q] = task[q]
      BY <1>8 DEF Queue, TypeOK
    <2>4. Waiting'
      <3> SUFFICES ASSUME NEW q \in Lines, task'[q] \in {"queued", "tail"}
                   PROVE  \E i \in 1..Len(line') : line'[i] = q
        BY DEF Waiting
      <3>1. CASE q = r
        BY <2>1, <2>2, <3>1
      <3>2. CASE q # r
        <4>1. PICK i \in 1..Len(line) : line[i] = q
          BY <2>3, <3>2 DEF Waiting
        <4> QED BY <2>1, <2>2, <4>1
      <3> QED BY <3>1, <3>2
    <2> QED BY <1>8, <2>1, <2>3, <2>4 DEF Queue, client, TypeOK
  <1>9. ASSUME NEW r \in Lines, WriteHead(r) PROVE TypeInv'
    <2>1. Half(r, sent[r] + 1, "head") \in Halves
      BY DEF Half, Halves, TypeOK
    <2>2. output' \in Seq(Halves) /\ Len(output') <= OutRoom
      BY <1>9, <2>1, SessionAssumption DEF WriteHead, Write, TypeOK
    <2>3. task' \in [Lines -> {"none", "compose", "queued", "tail", "done", "dropped"}]
          /\ \A q \in Lines : task'[q] \in {"queued", "tail"} => task[q] \in {"queued", "tail"}
      BY <1>9 DEF WriteHead, TypeOK
    <2> QED BY <1>9, <2>2, <2>3 DEF WriteHead, client, TypeOK, Waiting
  <1>10. ASSUME NEW r \in Lines, WriteTail(r) \/ WriteFails(r) PROVE TypeInv'
    <2>1. task[r] \in {"queued", "tail"} /\ Head(line) = r /\ line' = Tail(line)
      BY <1>10 DEF WriteTail, WriteFails
    <2>2. line # <<>> /\ Len(line) \in Nat \ {0} /\ line[1] = r
          /\ line' \in Seq(Lines) /\ Len(line') = Len(line) - 1
          /\ \A i \in 1..Len(line) - 1 : line'[i] = line[i + 1]
      BY <2>1, LeaveLine
    <2>3. task' \in [Lines -> {"none", "compose", "queued", "tail", "done", "dropped"}]
          /\ task'[r] \notin {"queued", "tail"} /\ \A q \in Lines \ {r} : task'[q] = task[q]
      BY <1>10 DEF WriteTail, WriteFails, TypeOK
    <2>4. Waiting'
      <3> SUFFICES ASSUME NEW q \in Lines, task'[q] \in {"queued", "tail"}
                   PROVE  \E i \in 1..Len(line') : line'[i] = q
        BY DEF Waiting
      <3>1. q # r /\ task[q] \in {"queued", "tail"}
        BY <2>3
      <3>2. PICK i \in 1..Len(line) : line[i] = q
        BY <3>1 DEF Waiting
      <3>3. i # 1
        BY <2>2, <3>1, <3>2
      <3>4. i - 1 \in 1..Len(line') /\ line'[i - 1] = q
        BY <2>2, <3>2, <3>3
      <3> QED BY <3>4
    <2>5. output' \in Seq(Halves) /\ Len(output') <= OutRoom /\ sent' \in [Lines -> Nat]
      <3>1. CASE WriteTail(r)
        <4>1. Half(r, sent[r] + 1, "tail") \in Halves
          BY DEF Half, Halves, TypeOK
        <4> QED BY <3>1, <4>1, SessionAssumption DEF WriteTail, Write, TypeOK
      <3>2. CASE WriteFails(r)
        BY <3>2 DEF WriteFails, TypeOK
      <3> QED BY <1>10, <3>1, <3>2
    <2>6. UNCHANGED <<kind, eager, unsaid, shut, gone, got, input, loop, awaited, last>>
      BY <1>10 DEF WriteTail, WriteFails, client
    <2> QED BY <2>2, <2>3, <2>4, <2>5, <2>6 DEF TypeOK
  <1>11. ASSUME NEW r \in Lines, DropTask(r) PROVE TypeInv'
    <2>1. task' \in [Lines -> {"none", "compose", "queued", "tail", "done", "dropped"}]
          /\ task'[r] = "dropped" /\ \A q \in Lines \ {r} : task'[q] = task[q]
      BY <1>11 DEF DropTask, TypeOK
    <2>2. UNCHANGED <<kind, eager, unsaid, shut, gone, got, input, loop, awaited, last, sent, output>>
      BY <1>11 DEF DropTask, client
    <2>3. line' \in Seq(Lines) /\ Waiting'
      <3>1. CASE line' = line
        BY <2>1, <3>1 DEF TypeOK, Waiting
      <3>2. ASSUME NEW i \in 1..Len(line), line[i] = r,
                   line' = SubSeq(line, 1, i - 1) \o SubSeq(line, i + 1, Len(line))
            PROVE  line' \in Seq(Lines) /\ Waiting'
        <4>1. line \in Seq(Lines) /\ Len(line) \in Nat /\ \A j \in 1..Len(line) : line[j] \in Lines
          BY DEF TypeOK
        <4>2. /\ line' \in Seq(Lines) /\ Len(line') = Len(line) - 1
              /\ \A j \in 1..Len(line) - 1 : line'[j] = IF j < i THEN line[j] ELSE line[j + 1]
          BY <3>2, <4>1, TakenOut
        <4>3. ASSUME NEW q \in Lines, task'[q] \in {"queued", "tail"}
              PROVE  \E j \in 1..Len(line') : line'[j] = q
          <5>1. q # r /\ task[q] \in {"queued", "tail"}
            BY <2>1, <4>3
          <5>2. PICK k \in 1..Len(line) : line[k] = q
            BY <5>1 DEF Waiting
          <5>3. k # i
            BY <3>2, <5>1, <5>2
          <5>4. CASE k < i
            <6>1. k \in 1..Len(line) - 1
              BY <4>1, <5>4
            <6> QED BY <4>2, <5>2, <5>4, <6>1
          <5>5. CASE k > i
            <6>1. k - 1 \in 1..Len(line) - 1 /\ ~(k - 1 < i) /\ k - 1 + 1 = k
              BY <4>1, <5>5
            <6> QED BY <4>2, <5>2, <6>1
          <5> QED BY <4>1, <5>3, <5>4, <5>5
        <4> QED BY <4>2, <4>3 DEF Waiting
      <3> QED BY <1>11, <3>1, <3>2 DEF DropTask
    <2> QED BY <2>1, <2>2, <2>3 DEF TypeOK
  <1>12. CASE UNCHANGED vars
    BY <1>12 DEF vars, client, answers, TypeOK, Waiting
  <1> QED BY <1>1, <1>2, <1>3, <1>4, <1>5, <1>6, <1>7, <1>8, <1>9, <1>10, <1>11, <1>12
          DEF Next, Client, Loop, Answer, Event, Frame

-----------------------------------------------------------------------------
(* Where a line is.                                                        *)

\* A line that has no answer yet is with the client or in the input, once; the
\* loop drains and returns only when there is none of either.
Places ==
    /\ \A i, j \in 1..Len(input) : input[i] = input[j] => i = j
    /\ \A i \in 1..Len(input) : input[i] \notin unsaid /\ task[input[i]] = "none"
    /\ \A r \in unsaid : task[r] = "none"
    /\ \A r \in Lines : task[r] = "none" => r \in unsaid \/ \E i \in 1..Len(input) : input[i] = r
    /\ loop \in {"drain", "returned"} => shut /\ input = <<>>
    /\ shut /\ ~gone => unsaid = {}
    /\ loop = "returned" => \A r \in Lines : task[r] \in {"none", "done"}

\* At first every line is unsaid.
LEMMA PlaceInit == Init => Places
  BY DEF Init, Places

\* A step of an answer leaves the lines where they are.
LEMMA AnswersStay ==
    ASSUME TypeInv, Places, NEW r \in Lines, task[r] \notin {"none", "done"},
           task' \in [Lines -> {"compose", "queued", "tail", "done", "dropped", "none"}],
           task'[r] # "none", \A q \in Lines \ {r} : task'[q] = task[q],
           UNCHANGED <<input, unsaid, shut, gone, loop>>
    PROVE  Places'
  <1>1. loop # "returned"
    BY DEF Places
  <1>2. \A q \in Lines : task'[q] = "none" <=> task[q] = "none"
    OBVIOUS
  <1>3. unsaid \subseteq Lines /\ \A i \in 1..Len(input) : input[i] \in Lines
    BY DEF TypeInv, TypeOK
  <1> QED BY <1>1, <1>2, <1>3 DEF Places

\* Every step keeps a line in one place: unsaid, in the pipe, or with a task.
LEMMA PlaceStep == TypeInv /\ Places /\ [Next]_vars => Places'
  <1> SUFFICES ASSUME TypeInv, Places, [Next]_vars PROVE Places'
    OBVIOUS
  <1>0. input \in Seq(Lines) /\ Len(input) \in Nat
    BY DEF TypeInv, TypeOK
  <1>1. ASSUME NEW r \in Lines, Say(r) PROVE Places'
    <2>1. Len(input') = Len(input) + 1 /\ input'[Len(input) + 1] = r
          /\ \A i \in 1..Len(input) : input'[i] = input[i]
      BY <1>0, <1>1 DEF Say
    <2>2. unsaid' = unsaid \ {r} /\ r \in unsaid /\ ~shut
          /\ UNCHANGED <<task, shut, gone, loop>>
      BY <1>1 DEF Say, answers
    <2>3. \A i, j \in 1..Len(input') : input'[i] = input'[j] => i = j
      BY <1>0, <2>1, <2>2 DEF Places
    <2>4. \A i \in 1..Len(input') : input'[i] \notin unsaid' /\ task'[input'[i]] = "none"
      BY <1>0, <2>1, <2>2 DEF Places
    <2>5. ASSUME NEW q \in Lines, task'[q] = "none"
          PROVE  q \in unsaid' \/ \E i \in 1..Len(input') : input'[i] = q
      BY <1>0, <2>1, <2>2, <2>5 DEF Places
    <2> QED BY <2>2, <2>3, <2>4, <2>5 DEF Places
  <1>2. CASE Shut \/ Hear \/ Go
    BY <1>2 DEF Shut, Hear, Go, answers, Places
  <1>3. CASE Take
    <2> DEFINE r == Head(input)
    <2>1. r \in Lines /\ r = input[1] /\ Len(input) >= 1 /\ Len(input') = Len(input) - 1
          /\ \A i \in 1..Len(input') : input'[i] = input[i + 1]
      BY <1>0, <1>3, HeadTailProperties DEF Take
    <2>2. task'[r] = "compose" /\ \A q \in Lines \ {r} : task'[q] = task[q]
      BY <1>3, <2>1 DEF Take, TypeInv, TypeOK
    <2>3. UNCHANGED <<unsaid, shut, gone>> /\ loop' \notin {"drain", "returned"}
      BY <1>3 DEF Take, client
    <2> HIDE DEF r
    <2>4. \A i, j \in 1..Len(input') : input'[i] = input'[j] => i = j
      <3> TAKE i, j \in 1..Len(input')
      <3>1. i + 1 \in 1..Len(input) /\ j + 1 \in 1..Len(input)
        BY <1>0, <2>1
      <3> QED BY <2>1, <3>1 DEF Places
    <2>5. \A i \in 1..Len(input') : input'[i] \notin unsaid' /\ task'[input'[i]] = "none"
      <3> TAKE i \in 1..Len(input')
      <3>1. i + 1 \in 1..Len(input) /\ 1 \in 1..Len(input) /\ i + 1 # 1
        BY <1>0, <2>1
      <3>2. input[i + 1] # r /\ input[i + 1] \in Lines
        BY <1>0, <2>1, <3>1 DEF Places
      <3> QED BY <2>1, <2>2, <2>3, <3>1, <3>2 DEF Places
    <2>6. \A q \in unsaid' : task'[q] = "none"
      <3>1. r \notin unsaid
        BY <1>0, <2>1 DEF Places
      <3> QED BY <2>2, <2>3, <3>1 DEF Places, TypeInv, TypeOK
    <2>7. ASSUME NEW q \in Lines, task'[q] = "none"
          PROVE  q \in unsaid' \/ \E i \in 1..Len(input') : input'[i] = q
      <3>1. q # r /\ task[q] = "none"
        BY <2>2, <2>7
      <3>2. CASE q \in unsaid
        BY <2>3, <3>2
      <3>3. ASSUME NEW i \in 1..Len(input), input[i] = q PROVE \E j \in 1..Len(input') : input'[j] = q
        <4>1. i # 1
          BY <2>1, <3>1, <3>3
        <4>2. i - 1 \in 1..Len(input') /\ i - 1 + 1 = i
          BY <1>0, <2>1, <4>1
        <4> QED BY <2>1, <3>3, <4>2
      <3> QED BY <3>1, <3>2, <3>3 DEF Places
    <2> QED BY <2>3, <2>4, <2>5, <2>6, <2>7 DEF Places
  <1>4. CASE ReadFails \/ Refused
    BY <1>4 DEF ReadFails, Refused, client, answers, Places
  <1>5. CASE EndOfInput \/ Drained
    BY <1>5 DEF EndOfInput, Drained, client, answers, Places
  <1>6. ASSUME NEW r \in Lines, NEW final \in BOOLEAN, Queue(r, final) PROVE Places'
    BY <1>6, AnswersStay DEF Queue, client, TypeInv, TypeOK
  <1>7. ASSUME NEW r \in Lines, Frame(r) PROVE Places'
    <2>1. task[r] \notin {"none", "done"} /\ UNCHANGED <<input, unsaid, shut, gone, loop>>
      BY <1>7 DEF Frame, WriteHead, WriteTail, WriteFails, DropTask, client, Write
    <2>2. task' \in [Lines -> {"compose", "queued", "tail", "done", "dropped", "none"}]
          /\ task'[r] # "none" /\ \A q \in Lines \ {r} : task'[q] = task[q]
      BY <1>7 DEF Frame, WriteHead, WriteTail, WriteFails, DropTask, TypeInv, TypeOK
    <2> QED BY <2>1, <2>2, AnswersStay
  <1>8. CASE UNCHANGED vars
    BY <1>8 DEF vars, client, answers, Places
  <1> QED BY <1>1, <1>2, <1>3, <1>4, <1>5, <1>6, <1>7, <1>8
          DEF Next, Client, Loop, Answer, Event

-----------------------------------------------------------------------------
(* Who holds the lock.                                                     *)

\* Who is in line is there once and has a frame to write, and who has written
\* half of one is the first.
Holding ==
    /\ \A i, j \in 1..Len(line) : line[i] = line[j] => i = j
    /\ \A i \in 1..Len(line) : task[line[i]] \in {"queued", "tail"}
    /\ \A r \in Lines : task[r] = "tail" => line[1] = r

\* Nobody is in line at first.
LEMMA HoldInit == Init => Holding
  BY DEF Init, Holding

\* A loop that failed does not come back.
LEMMA FailedForGood == [Next]_vars /\ loop' # "failed" => loop # "failed"
  BY DEF Next, vars, Client, Say, Shut, Hear, Go, Loop, Take, ReadFails, Refused, EndOfInput,
         Drained, Answer, Event, Queue, Frame, WriteHead, WriteTail, WriteFails, DropTask

\* Every step keeps the line for the lock in order, one place to a task.
LEMMA HoldStep == TypeInv /\ Places /\ Holding /\ [Next]_vars => Holding'
  <1> SUFFICES ASSUME TypeInv, Places, Holding, [Next]_vars PROVE Holding'
    OBVIOUS
  <1>0. line \in Seq(Lines) /\ Len(line) \in Nat /\ \A i \in 1..Len(line) : line[i] \in Lines
    BY DEF TypeInv, TypeOK
  <1>1. CASE UNCHANGED <<line, task>>
    BY <1>0, <1>1 DEF Holding
  <1>2. CASE Take
    <2>1. Head(input) \in Lines /\ task[Head(input)] = "none"
      <3>1. input \in Seq(Lines) /\ input # <<>>
        BY <1>2 DEF Take, TypeInv, TypeOK
      <3>2. 1 \in 1..Len(input) /\ Head(input) = input[1]
        BY <3>1
      <3> QED BY <3>1, <3>2 DEF Places
    <2>2. task' = [task EXCEPT ![Head(input)] = "compose"] /\ line' = line
      BY <1>2 DEF Take
    <2>3. \A q \in Lines : task[q] \in {"queued", "tail"} <=> task'[q] \in {"queued", "tail"}
      BY <2>1, <2>2 DEF TypeInv, TypeOK
    <2>4. \A q \in Lines : task'[q] = "tail" => task[q] = "tail"
      BY <2>1, <2>2 DEF TypeInv, TypeOK
    <2> QED BY <1>0, <2>2, <2>3, <2>4 DEF Holding
  <1>3. ASSUME NEW r \in Lines, NEW final \in BOOLEAN, Queue(r, final) PROVE Holding'
    <2>1. /\ Len(line') = Len(line) + 1 /\ line'[Len(line) + 1] = r
          /\ \A i \in 1..Len(line) : line'[i] = line[i]
      BY <1>0, <1>3 DEF Queue
    <2>2. task'[r] = "queued" /\ task[r] = "compose" /\ \A q \in Lines \ {r} : task'[q] = task[q]
      BY <1>3 DEF Queue, TypeInv, TypeOK
    <2>3. \A i \in 1..Len(line) : line[i] # r
      BY <1>0, <2>2 DEF Holding
    <2>4. \A i, j \in 1..Len(line') : line'[i] = line'[j] => i = j
      BY <1>0, <2>1, <2>3 DEF Holding
    <2>5. \A i \in 1..Len(line') : task'[line'[i]] \in {"queued", "tail"}
      BY <1>0, <2>1, <2>2, <2>3 DEF Holding
    <2>6. ASSUME NEW q \in Lines, task'[q] = "tail" PROVE line'[1] = q
      <3>1. task[q] = "tail"
        BY <2>2, <2>6
      <3>2. Len(line) >= 1
        BY <1>0, <3>1 DEF TypeInv, Waiting
      <3> QED BY <1>0, <2>1, <3>1, <3>2 DEF Holding
    <2> QED BY <2>4, <2>5, <2>6 DEF Holding
  <1>4. ASSUME NEW r \in Lines, WriteHead(r) PROVE Holding'
    <2>1. task[r] = "queued" /\ Head(line) = r /\ line' = line
          /\ task'[r] = "tail" /\ \A q \in Lines \ {r} : task'[q] = task[q]
      BY <1>4 DEF WriteHead, TypeInv, TypeOK
    <2>2. line[1] = r
      BY <2>1, LeaveLine
    <2> QED BY <1>0, <2>1, <2>2 DEF Holding
  <1>5. ASSUME NEW r \in Lines, WriteTail(r) \/ WriteFails(r) PROVE Holding'
    <2>1. task[r] \in {"queued", "tail"} /\ Head(line) = r /\ line' = Tail(line)
          /\ task'[r] \notin {"queued", "tail"}
          /\ \A q \in Lines \ {r} : task'[q] = task[q]
      BY <1>5 DEF WriteTail, WriteFails, TypeInv, TypeOK
    <2>2. Len(line) \in Nat \ {0} /\ line[1] = r /\ Len(line') = Len(line) - 1
          /\ \A i \in 1..Len(line) - 1 : line'[i] = line[i + 1]
      BY <2>1, LeaveLine
    <2>3. \A i \in 1..Len(line') : i + 1 \in 1..Len(line) /\ line'[i] = line[i + 1]
                                   /\ line[i + 1] # r /\ task'[line'[i]] = task[line[i + 1]]
      <3> TAKE i \in 1..Len(line')
      <3>1. i + 1 \in 1..Len(line) /\ 1 \in 1..Len(line) /\ i + 1 # 1
        BY <2>2
      <3>2. line'[i] = line[i + 1]
        BY <2>2
      <3>3. line[i + 1] # r
        BY <1>0, <2>2, <3>1 DEF Holding
      <3> QED BY <1>0, <2>1, <3>1, <3>2, <3>3
    <2>4. \A i, j \in 1..Len(line') : line'[i] = line'[j] => i = j
      <3> TAKE i, j \in 1..Len(line')
      <3>1. line'[i] = line'[j] => i + 1 = j + 1
        BY <1>0, <2>3 DEF Holding
      <3> QED BY <3>1
    <2>5. \A i \in 1..Len(line') : task'[line'[i]] \in {"queued", "tail"}
      BY <1>0, <2>3 DEF Holding
    <2>6. \A q \in Lines : task'[q] # "tail"
      BY <1>0, <2>1, <2>2 DEF Holding
    <2> QED BY <2>4, <2>5, <2>6 DEF Holding
  <1>6. ASSUME NEW r \in Lines, DropTask(r) PROVE Holding'
    <2>1. task'[r] = "dropped" /\ \A q \in Lines \ {r} : task'[q] = task[q]
      BY <1>6 DEF DropTask, TypeInv, TypeOK
    <2>2. CASE task[r] = "compose"
      <3>1. \A i \in 1..Len(line) : line[i] # r
        BY <2>2 DEF Holding
      <3>2. line' = line
        BY <1>6, <3>1 DEF DropTask
      <3> QED BY <1>0, <2>1, <3>1, <3>2 DEF Holding
    <2>3. ASSUME NEW i \in 1..Len(line), line[i] = r,
                 line' = SubSeq(line, 1, i - 1) \o SubSeq(line, i + 1, Len(line))
          PROVE  Holding'
      <3> DEFINE from(j) == IF j < i THEN j ELSE j + 1
      <3>1. /\ Len(line') = Len(line) - 1
            /\ \A j \in 1..Len(line) - 1 : line'[j] = IF j < i THEN line[j] ELSE line[j + 1]
        BY <1>0, <2>3, TakenOut
      <3>2. \A j \in 1..Len(line') : from(j) \in 1..Len(line) /\ from(j) # i /\ line'[j] = line[from(j)]
        BY <1>0, <3>1
      <3>3. \A j, k \in 1..Len(line') : from(j) = from(k) => j = k
        BY <1>0, <3>1
      <3> HIDE DEF from
      <3>4. ASSUME NEW j \in 1..Len(line') PROVE line'[j] # r /\ line'[j] \in Lines
        <4>1. from(j) \in 1..Len(line) /\ from(j) # i /\ line'[j] = line[from(j)]
          BY <3>2
        <4>2. line[from(j)] # line[i]
          BY <4>1 DEF Holding
        <4> QED BY <1>0, <2>3, <4>1, <4>2
      <3>5. \A j, k \in 1..Len(line') : line'[j] = line'[k] => j = k
        BY <3>2, <3>3 DEF Holding
      <3>6. \A j \in 1..Len(line') : task'[line'[j]] \in {"queued", "tail"}
        BY <2>1, <3>2, <3>4 DEF Holding
      <3>7. ASSUME NEW q \in Lines, task'[q] = "tail" PROVE line'[1] = q
        <4>1. q # r /\ line[1] = q
          BY <2>1, <3>7 DEF Holding
        <4>2. i # 1 /\ 1 \in 1..Len(line) - 1
          BY <1>0, <2>3, <4>1
        <4> QED BY <1>0, <3>1, <4>1, <4>2
      <3> QED BY <3>5, <3>6, <3>7 DEF Holding
    <2> QED BY <1>6, <2>2, <2>3 DEF DropTask
  <1> QED BY <1>1, <1>2, <1>3, <1>4, <1>5, <1>6
          DEF Next, vars, Client, Say, Shut, Hear, Go, Loop, ReadFails, Refused, EndOfInput,
              Drained, Answer, Event, Frame, answers

-----------------------------------------------------------------------------
(* What is in the stream.                                                  *)

\* FramesWhole, of any stream.
Frames(s) ==
    \A i \in 1..Len(s) :
        /\ s[i].part = "head" /\ i < Len(s) => s[i + 1] = [s[i] EXCEPT !.part = "tail"]
        /\ s[i].part = "tail" => i > 1 /\ s[i - 1].part = "head"

\* While the loop has not failed and the client has not gone, the last half
\* of the stream is a head just when somebody has written half a frame, and
\* is the half that was written.
StreamInv ==
    loop # "failed" =>
        /\ Frames(Stream)
        /\ ~gone => \A r \in Lines : task[r] = "tail" =>
               Stream # <<>> /\ Stream[Len(Stream)] = Half(r, sent[r] + 1, "head")
        /\ ~gone /\ Stream # <<>> /\ Stream[Len(Stream)].part = "head" =>
               \E r \in Lines : task[r] = "tail"

\* An answer that is done was written to its last frame, unless the client
\* went away.
Answered == \A r \in Lines : task[r] = "done" /\ ~gone => last[r] /\ Whole(r)

Inv == TypeInv /\ Places /\ Holding /\ StreamInv /\ Answered

\* The head of a frame may follow anything that does not end in a head.
LEMMA HeadAdded ==
    ASSUME NEW s \in Seq(Halves), Frames(s), s # <<>> => s[Len(s)].part # "head",
           NEW h \in Halves, h.part = "head"
    PROVE  Frames(Append(s, h))
  <1> DEFINE t == Append(s, h)
  <1>1. Len(s) \in Nat /\ Len(t) = Len(s) + 1 /\ t[Len(s) + 1] = h
        /\ \A i \in 1..Len(s) : t[i] = s[i]
    OBVIOUS
  <1> HIDE DEF t
  <1>2. ASSUME NEW i \in 1..Len(t)
        PROVE  /\ t[i].part = "head" /\ i < Len(t) => t[i + 1] = [t[i] EXCEPT !.part = "tail"]
               /\ t[i].part = "tail" => i > 1 /\ t[i - 1].part = "head"
    <2>1. CASE i = Len(t)
      BY <1>1, <2>1
    <2>2. CASE i < Len(t)
      <3>1. i \in 1..Len(s) /\ t[i] = s[i]
        BY <1>1, <2>2
      <3>2. s[i].part = "tail" => i - 1 \in 1..Len(s) /\ t[i - 1] = s[i - 1]
        <4>1. s[i].part = "tail" => i > 1
          BY <3>1 DEF Frames
        <4>2. i > 1 => i - 1 \in 1..Len(s)
          BY <1>1, <3>1
        <4>3. i - 1 \in 1..Len(s) => t[i - 1] = s[i - 1]
          BY <1>1
        <4> QED BY <4>1, <4>2, <4>3
      <3>3. s[i].part = "head" => i < Len(s) /\ i + 1 \in 1..Len(s) /\ t[i + 1] = s[i + 1]
        <4>1. CASE i = Len(s)
          <5>1. s # <<>>
            BY <3>1
          <5> QED BY <4>1, <5>1
        <4>2. CASE i < Len(s)
          BY <1>1, <3>1, <4>2
        <4> QED BY <1>1, <3>1, <4>1, <4>2
      <3> QED BY <3>1, <3>2, <3>3 DEF Frames
    <2> QED BY <1>1, <2>1, <2>2
  <1>3. Frames(t)
    BY <1>2 DEF Frames
  <1> QED BY <1>3 DEF t

\* The tail of a frame goes right after its head.
LEMMA TailAdded ==
    ASSUME NEW s \in Seq(Halves), Frames(s), s # <<>>, NEW r, NEW n,
           s[Len(s)] = Half(r, n, "head")
    PROVE  Frames(Append(s, Half(r, n, "tail")))
  <1> DEFINE h == Half(r, n, "tail")
             t == Append(s, h)
  <1>1. Len(s) \in Nat \ {0} /\ Len(t) = Len(s) + 1 /\ t[Len(s) + 1] = h
        /\ \A i \in 1..Len(s) : t[i] = s[i]
    OBVIOUS
  <1>2. h.part = "tail" /\ s[Len(s)].part = "head" /\ h = [s[Len(s)] EXCEPT !.part = "tail"]
    BY DEF Half
  <1> HIDE DEF t, h
  <1>3. ASSUME NEW i \in 1..Len(t)
        PROVE  /\ t[i].part = "head" /\ i < Len(t) => t[i + 1] = [t[i] EXCEPT !.part = "tail"]
               /\ t[i].part = "tail" => i > 1 /\ t[i - 1].part = "head"
    <2>1. CASE i = Len(t)
      <3>1. t[i] = h /\ i - 1 = Len(s) /\ t[i - 1] = s[Len(s)] /\ i > 1
        BY <1>1, <2>1
      <3> QED BY <1>2, <2>1, <3>1
    <2>2. CASE i = Len(s)
      <3>1. t[i] = s[i] /\ t[i + 1] = h /\ i \in 1..Len(s)
        BY <1>1, <2>2
      <3> QED BY <1>2, <2>2, <3>1
    <2>3. CASE i < Len(s)
      <3>1. i \in 1..Len(s) /\ t[i] = s[i] /\ i + 1 \in 1..Len(s) /\ t[i + 1] = s[i + 1]
        BY <1>1, <2>3
      <3>2. s[i].part = "tail" => i - 1 \in 1..Len(s) /\ t[i - 1] = s[i - 1]
        <4>1. s[i].part = "tail" => i > 1
          BY <3>1 DEF Frames
        <4>2. i > 1 => i - 1 \in 1..Len(s)
          BY <1>1, <3>1
        <4>3. i - 1 \in 1..Len(s) => t[i - 1] = s[i - 1]
          BY <1>1
        <4> QED BY <4>1, <4>2, <4>3
      <3> QED BY <2>3, <3>1, <3>2 DEF Frames
    <2> QED BY <1>1, <2>1, <2>2, <2>3
  <1>4. Frames(t)
    BY <1>3 DEF Frames
  <1> QED BY <1>4 DEF t, h

\* Nothing was written at first.
LEMMA StreamInit == Init => StreamInv /\ Answered
  <1> SUFFICES ASSUME Init PROVE StreamInv /\ Answered
    OBVIOUS
  <1>1. Stream = <<>>
    BY DEF Init, Stream
  <1>2. \A r \in Lines : task[r] = "none"
    BY DEF Init
  <1> QED BY <1>1, <1>2 DEF StreamInv, Answered, Frames

\* A step that writes nothing, and lets nobody begin or end half a frame.
LEMMA NothingWritten ==
    ASSUME Inv, [Next]_vars, Stream' = Stream,
           loop' # "failed" /\ ~gone' =>
               \A r \in Lines : /\ task'[r] = "tail" <=> task[r] = "tail"
                                /\ task[r] = "tail" => sent'[r] = sent[r],
           ~gone' => \A r \in Lines :
               task'[r] = "done" => task[r] = "done" /\ last'[r] = last[r]
    PROVE  StreamInv' /\ Answered'
  <1>1. ~gone' => ~gone
    BY DEF Next, vars, Client, Say, Shut, Hear, Go, Loop, Take, ReadFails, Refused, EndOfInput,
           Drained, Answer, Event, Queue, Frame, WriteHead, WriteTail, WriteFails, DropTask,
           client
  <1>2. loop' # "failed" => loop # "failed"
    BY FailedForGood
  <1>3. \A r \in Lines : Whole(r)' <=> Whole(r)
    BY DEF Whole
  <1>4. Answered'
    BY <1>1, <1>3 DEF Inv, Answered
  <1>5. StreamInv'
    <2> SUFFICES ASSUME loop' # "failed" PROVE StreamInv'
      BY DEF StreamInv
    <2>1. Frames(Stream')
      BY <1>2 DEF Inv, StreamInv
    <2>2. ASSUME ~gone', NEW r \in Lines, task'[r] = "tail"
          PROVE  Stream' # <<>> /\ Stream'[Len(Stream')] = Half(r, sent'[r] + 1, "head")
      BY <1>1, <1>2, <2>2 DEF Inv, StreamInv
    <2>3. ASSUME ~gone', Stream' # <<>>, Stream'[Len(Stream')].part = "head"
          PROVE  \E r \in Lines : task'[r] = "tail"
      BY <1>1, <1>2, <2>3 DEF Inv, StreamInv
    <2> QED BY <2>1, <2>2, <2>3 DEF StreamInv, Frames, Half
  <1> QED BY <1>4, <1>5

\* Every step keeps the stream a row of frames, and what is done answered.
LEMMA StreamStep == Inv /\ [Next]_vars => StreamInv' /\ Answered'
  <1> SUFFICES ASSUME Inv, [Next]_vars PROVE StreamInv' /\ Answered'
    OBVIOUS
  <1>0. /\ got \in Seq(Halves) /\ output \in Seq(Halves) /\ Stream \in Seq(Halves)
        /\ task \in [Lines -> {"none", "compose", "queued", "tail", "done", "dropped"}]
        /\ sent \in [Lines -> Nat] /\ last \in [Lines -> BOOLEAN]
    BY ConcatProperties DEF Inv, TypeInv, TypeOK, Stream
  <1>1. CASE UNCHANGED <<got, output, answers>>
    <2>1. Stream' = Stream
      BY <1>1 DEF Stream
    <2> QED BY <1>1, <2>1, NothingWritten DEF answers
  <1>2. CASE Hear
    <2>1. Stream' = Stream
      BY <1>0, <1>2, HearKeepsStream DEF Hear, Stream
    <2> QED BY <1>2, <2>1, NothingWritten DEF Hear, answers
  <1>3. CASE Take
    <2>1. Head(input) \in Lines /\ task[Head(input)] = "none"
      <3>1. input \in Seq(Lines) /\ input # <<>>
        BY <1>3 DEF Take, Inv, TypeInv, TypeOK
      <3>2. 1 \in 1..Len(input) /\ Head(input) = input[1]
        BY <3>1
      <3> QED BY <3>1, <3>2 DEF Inv, Places
    <2>2. Stream' = Stream /\ UNCHANGED <<last, sent, gone>>
      BY <1>3 DEF Take, Stream, client
    <2>3. \A r \in Lines : (task'[r] = "tail" <=> task[r] = "tail")
                           /\ (task'[r] = "done" <=> task[r] = "done")
      BY <1>0, <1>3, <2>1 DEF Take
    <2> QED BY <2>2, <2>3, NothingWritten
  <1>4. ASSUME NEW r \in Lines, NEW final \in BOOLEAN, Queue(r, final)
        PROVE  StreamInv' /\ Answered'
    <2>1. Stream' = Stream /\ UNCHANGED <<sent, gone>>
      BY <1>4 DEF Queue, Stream, client
    <2>2. task[r] = "compose" /\ task'[r] = "queued"
          /\ \A q \in Lines \ {r} : task'[q] = task[q] /\ last'[q] = last[q]
      BY <1>0, <1>4 DEF Queue
    <2> QED BY <2>1, <2>2, NothingWritten
  <1>5. ASSUME NEW r \in Lines, WriteFails(r) PROVE StreamInv' /\ Answered'
    <2>1. gone /\ gone' /\ Stream' = Stream
      BY <1>5 DEF WriteFails, Stream, client
    <2> QED BY <2>1, NothingWritten
  <1>6. ASSUME NEW r \in Lines, DropTask(r) PROVE StreamInv' /\ Answered'
    <2>1. loop' = "failed" /\ Stream' = Stream /\ UNCHANGED <<last, sent>>
      BY <1>6 DEF DropTask, Stream, client
    <2>2. \A q \in Lines : task'[q] = "done" => task[q] = "done"
      BY <1>0, <1>6 DEF DropTask
    <2> QED BY <2>1, <2>2, NothingWritten
  <1>7. ASSUME NEW r \in Lines, WriteHead(r) PROVE StreamInv' /\ Answered'
    <2> DEFINE h == Half(r, sent[r] + 1, "head")
    <2>1. h \in Halves /\ h.part = "head"
      BY <1>0 DEF Half, Halves
    <2>2. output' = Append(output, h) /\ task[r] = "queued" /\ task'[r] = "tail"
          /\ UNCHANGED <<got, last, sent, gone, loop, line>> /\ ~gone /\ Head(line) = r
          /\ \A q \in Lines \ {r} : task'[q] = task[q]
      BY <1>0, <1>7 DEF WriteHead, Write, client
    <2> HIDE DEF h
    <2>3. Stream' = Append(Stream, h)
      BY <1>0, <2>1, <2>2, WriteAppends DEF Stream
    <2>4. Len(Stream) \in Nat /\ Len(Stream') = Len(Stream) + 1 /\ Stream'[Len(Stream')] = h
          /\ Stream' # <<>> /\ \A i \in 1..Len(Stream) : Stream'[i] = Stream[i]
      <3> DEFINE s == Stream
                 t == Stream'
      <3>1. s \in Seq(Halves) /\ h \in Halves /\ t = Append(s, h)
        BY <1>0, <2>1, <2>3
      <3> HIDE DEF s, t
      <3>2. Len(s) \in Nat /\ Len(t) = Len(s) + 1 /\ t[Len(s) + 1] = h
            /\ \A i \in 1..Len(s) : t[i] = s[i]
        BY <3>1, AppendProperties
      <3>3. t # <<>>
        BY <3>2
      <3> QED BY <3>2, <3>3 DEF s, t
    <2>5. ASSUME NEW q \in Lines, Whole(q) PROVE Whole(q)'
      BY <2>4, <2>5 DEF Whole
    <2>6. Answered'
      BY <2>2, <2>5 DEF Inv, Answered
    <2>7. ASSUME loop # "failed" PROVE StreamInv'
      <3>1. \A q \in Lines : task[q] # "tail"
        <4>1. line[1] = r
          BY <2>2, LeaveLine DEF Inv
        <4> QED BY <2>2, <2>7, <4>1 DEF Inv, Holding
      <3>2. Stream # <<>> => Stream[Len(Stream)].part # "head"
        BY <2>2, <2>7, <3>1 DEF Inv, StreamInv
      <3>3. Frames(Stream) /\ Frames(Stream')
        BY <1>0, <2>1, <2>3, <2>7, <3>2, HeadAdded DEF Inv, StreamInv
      <3>4. \A q \in Lines : task'[q] = "tail" => q = r
        BY <2>2, <3>1
      <3>5. h = Half(r, sent'[r] + 1, "head")
        BY <2>2 DEF h
      <3>6. Frames(Stream)'
        BY <3>3 DEF Frames
      <3>7. \A q \in Lines : task'[q] = "tail" =>
                Stream' # <<>> /\ Stream'[Len(Stream')] = Half(q, sent'[q] + 1, "head")
        BY <2>4, <3>4, <3>5
      <3>8. \E q \in Lines : task'[q] = "tail"
        BY <2>2
      <3> QED BY <3>6, <3>7, <3>8 DEF StreamInv, Half
    <2> QED BY <2>2, <2>6, <2>7 DEF StreamInv
  <1>8. ASSUME NEW r \in Lines, WriteTail(r) PROVE StreamInv' /\ Answered'
    <2> DEFINE h == Half(r, sent[r] + 1, "tail")
    <2>1. h \in Halves /\ h.part = "tail" /\ h.of = r
      BY <1>0 DEF Half, Halves
    <2>2. output' = Append(output, h) /\ task[r] = "tail" /\ task'[r] = (IF last[r] THEN "done" ELSE "compose")
          /\ UNCHANGED <<got, last, gone, loop>> /\ ~gone /\ Head(line) = r
          /\ \A q \in Lines \ {r} : task'[q] = task[q]
      BY <1>0, <1>8 DEF WriteTail, Write, client
    <2> HIDE DEF h
    <2>3. Stream' = Append(Stream, h)
      BY <1>0, <2>1, <2>2, WriteAppends DEF Stream
    <2>4. Len(Stream) \in Nat /\ Len(Stream') = Len(Stream) + 1 /\ Stream'[Len(Stream')] = h
          /\ \A i \in 1..Len(Stream) : Stream'[i] = Stream[i]
      BY <1>0, <2>1, <2>3
    <2>5. ASSUME NEW q \in Lines, Whole(q) PROVE Whole(q)'
      BY <2>4, <2>5 DEF Whole
    <2>6. Whole(r)'
      <3>1. Len(Stream') \in 1..Len(Stream')
        BY <2>4
      <3> QED BY <2>1, <2>4, <3>1 DEF Whole
    <2>7. Answered'
      <3> SUFFICES ASSUME NEW q \in Lines, task'[q] = "done", ~gone' PROVE last'[q] /\ Whole(q)'
        BY DEF Answered
      <3>1. CASE q = r
        BY <2>2, <2>6, <3>1
      <3>2. CASE q # r
        BY <2>2, <2>5, <3>2 DEF Inv, Answered
      <3> QED BY <3>1, <3>2
    <2>8. ASSUME loop # "failed" PROVE StreamInv'
      <3>1. \A q \in Lines : task'[q] # "tail"
        <4>1. line[1] = r
          BY <2>2, LeaveLine DEF Inv
        <4>2. \A q \in Lines \ {r} : task[q] # "tail"
          BY <2>8, <4>1 DEF Inv, Holding
        <4> QED BY <2>2, <4>2
      <3>2. Stream # <<>> /\ Stream[Len(Stream)] = Half(r, sent[r] + 1, "head") /\ Frames(Stream)
        BY <2>2, <2>8 DEF Inv, StreamInv
      <3>3. Frames(Stream')
        BY <1>0, <2>3, <3>2, TailAdded DEF h
      <3>4. Frames(Stream)'
        BY <3>3 DEF Frames
      <3>5. Stream'[Len(Stream')].part # "head"
        BY <2>1, <2>4
      <3> QED BY <3>1, <3>4, <3>5 DEF StreamInv
    <2> QED BY <2>2, <2>7, <2>8 DEF StreamInv
  <1> QED BY <1>1, <1>2, <1>3, <1>4, <1>5, <1>6, <1>7, <1>8
          DEF Next, vars, Client, Say, Shut, Go, Loop, ReadFails, Refused, EndOfInput,
              Drained, Answer, Event, Frame, client

-----------------------------------------------------------------------------
(* What is waited for.                                                     *)

\* While the loop has not failed no task is dropped, and the line it waits for
\* was taken.
Awaiting ==
    loop # "failed" =>
        /\ \A r \in Lines : task[r] # "dropped"
        /\ loop = "refuse" => awaited \in Lines /\ task[awaited] # "none"

\* Nothing is waited for at first.
LEMMA AwaitInit == Init => Awaiting
  BY DEF Init, Awaiting

\* A task that was begun is never unbegun, and is dropped only once the loop
\* has failed.
LEMMA AwaitStep == TypeInv /\ Awaiting /\ [Next]_vars => Awaiting'
  <1> SUFFICES ASSUME TypeInv, Awaiting, [Next]_vars, loop' # "failed" PROVE Awaiting'
    BY DEF Awaiting
  <1>0. /\ loop # "failed"
        /\ task \in [Lines -> {"none", "compose", "queued", "tail", "done", "dropped"}]
        /\ awaited \in Lines \cup {Nobody}
    BY FailedForGood DEF TypeInv, TypeOK
  <1>1. CASE UNCHANGED <<task, loop, awaited>>
    BY <1>0, <1>1 DEF Awaiting
  <1>2. CASE Take
    <2>1. Head(input) \in Lines
      <3>1. input \in Seq(Lines) /\ input # <<>>
        BY <1>2 DEF Take, TypeInv, TypeOK
      <3> QED BY <3>1
    <2>2. task' = [task EXCEPT ![Head(input)] = "compose"]
      BY <1>2 DEF Take
    <2>3. \/ loop' = "refuse" /\ awaited' = Head(input)
          \/ loop' = "read"
      BY <1>2 DEF Take
    <2> QED BY <1>0, <2>1, <2>2, <2>3 DEF Awaiting
  <1>3. CASE Refused \/ EndOfInput \/ Drained
    <2>1. UNCHANGED task /\ loop' # "refuse"
      BY <1>3 DEF Refused, EndOfInput, Drained, answers
    <2> QED BY <1>0, <2>1 DEF Awaiting
  <1>4. ASSUME NEW r \in Lines, Answer(r) \/ Event(r) \/ WriteHead(r) \/ WriteTail(r) \/ WriteFails(r)
        PROVE  Awaiting'
    <2>1. UNCHANGED <<loop, awaited>> /\ task'[r] \notin {"none", "dropped"}
          /\ \A q \in Lines \ {r} : task'[q] = task[q]
      BY <1>0, <1>4 DEF Answer, Event, Queue, WriteHead, WriteTail, WriteFails
    <2> QED BY <1>0, <2>1 DEF Awaiting
  <1>5. CASE ReadFails \/ \E r \in Lines : DropTask(r)
    BY <1>0, <1>5 DEF ReadFails, DropTask
  <1>6. CASE Client \/ Go \/ UNCHANGED vars
    BY <1>1, <1>6 DEF Client, Say, Shut, Hear, Go, vars, answers
  <1> QED BY <1>2, <1>3, <1>4, <1>5, <1>6 DEF Next, Loop, Frame

-----------------------------------------------------------------------------
(* The theorems.                                                           *)

\* The inductive invariant of a connection: where each line is, who holds the
\* lock on the output and what has been written of a frame, and that what is
\* done was written.  (speak, answer and frame.)
THEOREM Invariance == Spec => []Inv
  <1>1. Init => Inv
    BY TypeInit, PlaceInit, HoldInit, StreamInit DEF Inv
  <1>2. Inv /\ [Next]_vars => Inv'
    BY TypeStep, PlaceStep, HoldStep, StreamStep DEF Inv
  <1> QED BY <1>1, <1>2, PTL DEF Spec

\* The variables of Session keep their types, the output's room included.
\* (The pipes and the tasks.)
THEOREM TypesHold == Spec => []TypeOK
  <1>1. Inv => TypeOK
    BY DEF Inv, TypeInv
  <1> QED BY <1>1, Invariance, PTL

\* Frames are whole, for any number of requests at once, whatever room the
\* output has.  (`frame` holding the lock across the write.)
THEOREM FramesAreWhole == Spec => []FramesWhole
  <1>1. Inv => FramesWhole
    BY DEF Inv, StreamInv, Frames, FramesWhole
  <1> QED BY <1>1, Invariance, PTL

\* speak returns only once every line was answered to its last frame, or the
\* client has gone.  (The JoinSet waited for at the end of input.)
THEOREM AnsweredAtReturn == Spec => []ReturnMeansAnswered
  <1>1. Inv => ReturnMeansAnswered
    <2> SUFFICES ASSUME Inv, loop = "returned", ~gone, NEW r \in Lines
                 PROVE  task[r] = "done" /\ last[r] /\ Whole(r)
      BY DEF ReturnMeansAnswered
    <2>1. unsaid = {} /\ input = <<>> /\ task[r] \in {"none", "done"}
      BY DEF Inv, Places
    <2>2. task[r] # "none"
      BY <2>1 DEF Inv, Places
    <2> QED BY <2>1, <2>2 DEF Inv, Answered
  <1> QED BY <1>1, Invariance, PTL

\* Nobody waits for what cannot come, whatever room the pipes have and however
\* many are answered at once.  (The lock on the output, and what speak awaits.)
THEOREM NobodyWaitsInVain == Spec => []WaitsAreForTheLiving
  <1>1. Inv /\ Awaiting => WaitsAreForTheLiving
    <2> SUFFICES ASSUME Inv, Awaiting, loop # "failed", NEW r \in Lines,
                        task[r] \in {"queued", "tail"}
                 PROVE  line # <<>> /\ task[Head(line)] \in {"queued", "tail"}
      BY DEF Awaiting, WaitsAreForTheLiving
    <2>1. line \in Seq(Lines)
      BY DEF Inv, TypeInv, TypeOK
    <2>2. PICK i \in 1..Len(line) : line[i] = r
      BY DEF Inv, TypeInv, Waiting
    <2>3. line # <<>> /\ 1 \in 1..Len(line) /\ Head(line) = line[1]
      BY <2>1, <2>2
    <2> QED BY <2>3 DEF Inv, Holding
  <1>2. Inv /\ Awaiting /\ [Next]_vars => Awaiting'
    BY AwaitStep DEF Inv
  <1> QED BY <1>1, <1>2, AwaitInit, Invariance, PTL DEF Spec

-----------------------------------------------------------------------------
(* A connection keeps its promise.                                         *)

\* What a line says of its answer: none is begun to what is no text, and only a
\* watch has a frame in hand that is not its last.  What is done to a client that
\* is there has been written.
Owing ==
    \A r \in Lines :
        /\ task[r] # "none" => kind[r] # "garbled"
        /\ task[r] \in {"queued", "tail"} => last[r] \/ kind[r] = "watch"
        /\ task[r] = "done" /\ ~gone => sent[r] > 0

\* No answer is begun at first.
LEMMA OweInit == Init => Owing
  BY DEF Init, Owing

\* Every step keeps what is owed to a line.
LEMMA OweStep == TypeInv /\ Owing /\ [Next]_vars => Owing'
  <1> SUFFICES ASSUME TypeInv, Owing, [Next]_vars PROVE Owing'
    OBVIOUS
  <1>0. /\ kind \in [Lines -> Kinds] /\ Kinds \subseteq AllKinds
        /\ task \in [Lines -> {"none", "compose", "queued", "tail", "done", "dropped"}]
        /\ last \in [Lines -> BOOLEAN] /\ sent \in [Lines -> Nat]
    BY SessionAssumption DEF TypeInv, TypeOK
  <1>1. CASE UNCHANGED <<kind, answers>> /\ (gone => gone')
    BY <1>1 DEF Owing, answers
  <1>2. CASE Take
    <2>1. Head(input) \in Lines
      <3>1. input \in Seq(Lines) /\ input # <<>>
        BY <1>2 DEF Take, TypeInv, TypeOK
      <3> QED BY <3>1
    <2>2. /\ task' = [task EXCEPT ![Head(input)] = "compose"]
          /\ kind[Head(input)] # "garbled"
          /\ UNCHANGED <<kind, last, sent, gone>>
      BY <1>2 DEF Take, client
    <2> QED BY <1>0, <2>1, <2>2 DEF Owing
  <1>3. ASSUME NEW r \in Lines, Answer(r) \/ Event(r) PROVE Owing'
    <2>1. /\ task[r] = "compose" /\ task' = [task EXCEPT ![r] = "queued"]
          /\ last'[r] \/ kind[r] = "watch"
          /\ \A q \in Lines \ {r} : last'[q] = last[q]
          /\ UNCHANGED <<kind, sent, gone>>
      BY <1>0, <1>3 DEF Answer, Event, Queue, client
    <2> QED BY <1>0, <2>1 DEF Owing
  <1>4. ASSUME NEW r \in Lines, WriteHead(r) PROVE Owing'
    <2>1. task[r] = "queued" /\ task' = [task EXCEPT ![r] = "tail"]
          /\ UNCHANGED <<kind, last, sent, gone>>
      BY <1>4 DEF WriteHead, client
    <2> QED BY <1>0, <2>1 DEF Owing
  <1>5. ASSUME NEW r \in Lines, WriteTail(r) PROVE Owing'
    <2>1. /\ task[r] = "tail"
          /\ task' = [task EXCEPT ![r] = IF last[r] THEN "done" ELSE "compose"]
          /\ sent' = [sent EXCEPT ![r] = @ + 1]
          /\ UNCHANGED last
      BY <1>5 DEF WriteTail
    <2>2. UNCHANGED <<kind, gone>>
      BY <1>5 DEF WriteTail, client
    <2> QED BY <1>0, <2>1, <2>2 DEF Owing
  <1>6. ASSUME NEW r \in Lines, WriteFails(r) PROVE Owing'
    <2>1. task[r] \in {"queued", "tail"} /\ task' = [task EXCEPT ![r] = "done"]
          /\ gone /\ UNCHANGED <<kind, last, sent, gone>>
      BY <1>6 DEF WriteFails, client
    <2> QED BY <1>0, <2>1 DEF Owing
  <1>7. ASSUME NEW r \in Lines, DropTask(r) PROVE Owing'
    <2>1. task[r] \in {"compose", "queued", "tail"} /\ task' = [task EXCEPT ![r] = "dropped"]
          /\ UNCHANGED <<kind, last, sent, gone>>
      BY <1>7 DEF DropTask, client
    <2> QED BY <1>0, <2>1 DEF Owing
  <1>8. CASE Client \/ Go \/ ReadFails \/ Refused \/ EndOfInput \/ Drained \/ UNCHANGED vars
    <2>1. UNCHANGED <<kind, answers>> /\ (gone => gone')
      BY <1>8 DEF Client, Say, Shut, Hear, Go, ReadFails, Refused, EndOfInput, Drained, vars, client
    <2> QED BY <1>1, <2>1
  <1> QED BY <1>2, <1>3, <1>4, <1>5, <1>6, <1>7, <1>8 DEF Next, Loop, Frame

\* Reading a half leaves the stream as it was.
LEMMA HeardIsSaid ==
    ASSUME TypeInv, Hear PROVE Stream' = Stream
  <1>1. /\ got \in Seq(Halves) /\ output \in Seq(Halves) /\ output # <<>>
        /\ got' = Append(got, Head(output)) /\ output' = Tail(output)
    BY DEF TypeInv, TypeOK, Hear
  <1> QED BY <1>1, HearKeepsStream DEF Stream

\* Writing a half says it.
LEMMA WrittenIsSaid ==
    ASSUME TypeInv, NEW h \in Halves, Write(h), UNCHANGED got
    PROVE  Stream' = Append(Stream, h)
  <1>1. got \in Seq(Halves) /\ output \in Seq(Halves) /\ output' = Append(output, h)
    BY DEF TypeInv, TypeOK, Write
  <1>2. got \o Append(output, h) = Append(got \o output, h)
    BY <1>1, WriteAppends
  <1> QED BY <1>1, <1>2 DEF Stream

\* A connection starts as the promise does.
LEMMA PromiseInit == Init => Promise!Init
  <1> SUFFICES ASSUME Init PROVE Promise!Init
    OBVIOUS
  <1>1. Stream = <<>> /\ Lines \ unsaid = {} /\ gone = FALSE /\ loop = "read"
        /\ sent = [r \in Lines |-> 0] /\ \A r \in Lines : task[r] = "none"
    BY DEF Init, Stream
  <1>2. {r \in Lines : task[r] = "tail"} = {} /\ {r \in Lines : task[r] \in {"done", "dropped"}} = {}
    BY <1>1
  <1> QED BY <1>1, <1>2 DEF Promise!Init

\* Whoever is in the middle of a frame is alone in it.
LEMMA OneWriter ==
    ASSUME TypeInv, Holding, NEW r \in Lines, task[r] \in {"queued", "tail"}, Head(line) = r
    PROVE  {q \in Lines : task[q] = "tail"} = IF task[r] = "tail" THEN {r} ELSE {}
  <1>1. line[1] = r
    BY LeaveLine
  <1> QED BY <1>1 DEF Holding

\* A step of the client's is a line asked, its going, or nothing.
LEMMA ClientKeepsPromise ==
    ASSUME TypeInv, Client \/ Go PROVE [Promise!Next]_(Promise!vars)
  <1>0. unsaid \subseteq Lines
    BY DEF TypeInv, TypeOK
  <1>1. ASSUME NEW r \in Lines, Say(r) PROVE Promise!Ask(r)
    <2>1. /\ r \in unsaid /\ unsaid' = unsaid \ {r}
          /\ UNCHANGED <<kind, gone, loop, task, sent>> /\ Stream' = Stream
      BY <1>1 DEF Say, answers, Stream
    <2>2. r \notin Lines \ unsaid /\ Lines \ unsaid' = (Lines \ unsaid) \cup {r}
      BY <2>1
    <2> QED BY <2>1, <2>2 DEF Promise!Ask
  <1>2. CASE Shut
    <2>1. UNCHANGED <<kind, unsaid, gone, loop, task, sent>> /\ Stream' = Stream
      BY <1>2 DEF Shut, answers, Stream
    <2> QED BY <2>1 DEF Promise!vars
  <1>3. CASE Hear
    <2>1. UNCHANGED <<kind, unsaid, gone, loop, task, sent>> /\ Stream' = Stream
      BY <1>3, HeardIsSaid DEF Hear, answers
    <2> QED BY <2>1 DEF Promise!vars
  <1>4. CASE Go
    <2>1. ~gone /\ gone' = TRUE /\ UNCHANGED <<kind, unsaid, loop, task, sent>> /\ Stream' = Stream
      BY <1>4 DEF Go, answers, Stream
    <2>2. Promise!Go
      BY <2>1 DEF Promise!Go
    <2> QED BY <2>2 DEF Promise!Next
  <1> QED BY <1>1, <1>2, <1>3, <1>4 DEF Client, Promise!Next

\* A step of the loop's is the return, the failure, or nothing.
LEMMA LoopKeepsPromise ==
    ASSUME Inv, Awaiting, Owing, Loop PROVE [Promise!Next]_(Promise!vars)
  <1>0. /\ task \in [Lines -> {"none", "compose", "queued", "tail", "done", "dropped"}]
        /\ input \in Seq(Lines) /\ unsaid \subseteq Lines
    BY DEF Inv, TypeInv, TypeOK
  <1>1. CASE Take
    <2>1. input # <<>> /\ task' = [task EXCEPT ![Head(input)] = "compose"]
          /\ loop = "read" /\ loop' \in {"read", "refuse"}
          /\ UNCHANGED <<kind, unsaid, gone, sent>> /\ Stream' = Stream
      BY <1>1 DEF Take, client, Stream
    <2>2. Head(input) \in Lines /\ task[Head(input)] = "none"
      <3>1. 1 \in 1..Len(input) /\ Head(input) = input[1]
        BY <1>0, <2>1
      <3> QED BY <1>0, <3>1 DEF Inv, Places
    <2>3. /\ {r \in Lines : task'[r] = "tail"} = {r \in Lines : task[r] = "tail"}
          /\ {r \in Lines : task'[r] \in {"done", "dropped"}}
               = {r \in Lines : task[r] \in {"done", "dropped"}}
      BY <1>0, <2>1, <2>2
    <2> QED BY <2>1, <2>3 DEF Promise!vars
  <1>2. CASE ReadFails
    <2>1. loop = "read" /\ loop' = "failed" /\ UNCHANGED <<kind, unsaid, gone, task, sent>>
          /\ Stream' = Stream
      BY <1>2 DEF ReadFails, client, answers, Stream
    <2>2. gone \/ \E r \in Lines \ unsaid : kind[r] = "garbled"
      <3>1. CASE input # <<>> /\ kind[Head(input)] = "garbled"
        <4>1. 1 \in 1..Len(input) /\ Head(input) = input[1] /\ Head(input) \in Lines
          BY <1>0, <3>1
        <4>2. Head(input) \notin unsaid
          BY <4>1 DEF Inv, Places
        <4> QED BY <3>1, <4>1, <4>2
      <3> QED BY <1>2, <3>1 DEF ReadFails
    <2>3. Promise!Fail
      BY <2>1, <2>2 DEF Promise!Fail
    <2> QED BY <2>3 DEF Promise!Next
  <1>3. CASE Refused
    <2>1. loop = "refuse" /\ task[awaited] = "done"
          /\ loop' = (IF sent[awaited] > 0 THEN "read" ELSE "failed")
          /\ UNCHANGED <<kind, unsaid, gone, task, sent>> /\ Stream' = Stream
      BY <1>3 DEF Refused, client, answers, Stream
    <2>2. CASE sent[awaited] > 0
      BY <2>1, <2>2 DEF Promise!vars
    <2>3. CASE ~(sent[awaited] > 0)
      <3>1. gone
        BY <2>1, <2>3 DEF Awaiting, Owing
      <3>2. Promise!Fail
        BY <2>1, <2>3, <3>1 DEF Promise!Fail
      <3> QED BY <3>2 DEF Promise!Next
    <2> QED BY <2>2, <2>3
  <1>4. CASE EndOfInput
    <2>1. loop = "read" /\ loop' = "drain" /\ UNCHANGED <<kind, unsaid, gone, task, sent>>
          /\ Stream' = Stream
      BY <1>4 DEF EndOfInput, client, answers, Stream
    <2> QED BY <2>1 DEF Promise!vars
  <1>5. CASE Drained
    <2>1. /\ loop = "drain" /\ loop' = "returned" /\ UNCHANGED <<kind, unsaid, gone, task, sent>>
          /\ Stream' = Stream
          /\ \A r \in Lines : task[r] \in {"none", "done"}
      BY <1>5 DEF Drained, client, answers, Stream
    <2>2. \A r \in Lines \ unsaid : task[r] = "done"
      <3> SUFFICES ASSUME NEW r \in Lines \ unsaid, task[r] = "none" PROVE FALSE
        BY <2>1
      <3>1. input = <<>>
        BY <2>1 DEF Inv, Places
      <3>2. PICK i \in 1..Len(input) : input[i] = r
        BY DEF Inv, Places
      <3> QED BY <3>1, <3>2
    <2>3. Lines \ unsaid \subseteq {r \in Lines : task[r] \in {"done", "dropped"}}
      BY <2>2
    <2>4. Promise!Return
      BY <2>1, <2>3 DEF Promise!Return
    <2> QED BY <2>4 DEF Promise!Next
  <1> QED BY <1>1, <1>2, <1>3, <1>4, <1>5 DEF Loop

\* A step of an answer's is a frame begun or finished, the answer given up, or
\* nothing.
LEMMA AnswerKeepsPromise ==
    ASSUME Inv, Owing, NEW r \in Lines, Answer(r) \/ Event(r) \/ Frame(r)
    PROVE  [Promise!Next]_(Promise!vars)
  <1>0. /\ task \in [Lines -> {"none", "compose", "queued", "tail", "done", "dropped"}]
        /\ last \in [Lines -> BOOLEAN] /\ sent \in [Lines -> Nat] /\ TypeInv /\ Holding
    BY DEF Inv, TypeInv, TypeOK
  <1>1. task[r] # "none" => r \in Lines \ unsaid
    BY DEF Inv, Places
  <1>2. task[r] \in {"compose", "queued", "tail"} => loop # "returned"
    BY DEF Inv, Places
  <1>3. CASE Answer(r) \/ Event(r)
    <2>1. task[r] = "compose" /\ task' = [task EXCEPT ![r] = "queued"]
          /\ UNCHANGED <<kind, unsaid, gone, loop, sent>> /\ Stream' = Stream
      BY <1>3 DEF Answer, Event, Queue, client, Stream
    <2>2. /\ {q \in Lines : task'[q] = "tail"} = {q \in Lines : task[q] = "tail"}
          /\ {q \in Lines : task'[q] \in {"done", "dropped"}}
               = {q \in Lines : task[q] \in {"done", "dropped"}}
      BY <1>0, <2>1
    <2> QED BY <2>1, <2>2 DEF Promise!vars
  <1>4. CASE WriteHead(r)
    <2> DEFINE h == Half(r, sent[r] + 1, "head")
    <2>1. /\ task[r] = "queued" /\ Head(line) = r /\ ~gone /\ Write(h)
          /\ task' = [task EXCEPT ![r] = "tail"]
          /\ UNCHANGED <<kind, unsaid, gone, got, loop, sent>>
      BY <1>4 DEF WriteHead, client
    <2>2. h \in Halves
      BY <1>0 DEF Half, Halves
    <2>3. Stream' = Append(Stream, h)
      BY <1>0, <2>1, <2>2, WrittenIsSaid
    <2>4. {q \in Lines : task[q] = "tail"} = {}
      BY <1>0, <2>1, OneWriter
    <2>5. /\ {q \in Lines : task'[q] = "tail"} = {r}
          /\ {q \in Lines : task'[q] \in {"done", "dropped"}}
               = {q \in Lines : task[q] \in {"done", "dropped"}}
      BY <1>0, <2>1, <2>4
    <2>6. r \in (Lines \ unsaid) \ {q \in Lines : task[q] \in {"done", "dropped"}}
      BY <1>1, <2>1
    <2>7. kind[r] # "garbled" /\ loop # "returned"
      BY <1>2, <2>1 DEF Owing
    <2>8. Promise!Begin(r)
      BY <2>1, <2>3, <2>4, <2>5, <2>6, <2>7 DEF Promise!Begin, Promise!Says, Half
    <2> QED BY <2>8 DEF Promise!Next
  <1>5. CASE WriteTail(r)
    <2> DEFINE h == Half(r, sent[r] + 1, "tail")
    <2>1. /\ task[r] = "tail" /\ Head(line) = r /\ ~gone /\ Write(h)
          /\ task' = [task EXCEPT ![r] = IF last[r] THEN "done" ELSE "compose"]
          /\ sent' = [sent EXCEPT ![r] = @ + 1]
          /\ UNCHANGED <<kind, unsaid, gone, got, loop>>
      BY <1>5 DEF WriteTail, client
    <2>2. h \in Halves
      BY <1>0 DEF Half, Halves
    <2>3. Stream' = Append(Stream, h)
      BY <1>0, <2>1, <2>2, WrittenIsSaid
    <2>4. {q \in Lines : task[q] = "tail"} = {r}
      BY <1>0, <2>1, OneWriter
    <2>5. {q \in Lines : task'[q] = "tail"} = {}
      BY <1>0, <2>1, <2>4
    <2>6. {q \in Lines : task'[q] \in {"done", "dropped"}}
            = IF last[r] THEN {q \in Lines : task[q] \in {"done", "dropped"}} \cup {r}
                         ELSE {q \in Lines : task[q] \in {"done", "dropped"}}
      BY <1>0, <2>1
    <2>7. last[r] \in BOOLEAN /\ (last[r] \/ kind[r] = "watch")
      BY <1>0, <2>1 DEF Owing
    <2>8. ASSUME NEW final \in BOOLEAN, last[r] = final PROVE Promise!Finish(r, final)
      BY <2>1, <2>3, <2>4, <2>5, <2>6, <2>7, <2>8 DEF Promise!Finish, Promise!Says, Half
    <2>9. \E final \in BOOLEAN : Promise!Finish(r, final)
      BY <2>7, <2>8
    <2> QED BY <2>9 DEF Promise!Next
  <1>6. CASE WriteFails(r) \/ DropTask(r)
    <2>1. /\ gone \/ loop = "failed"
          /\ task[r] \in {"compose", "queued", "tail"}
          /\ \E end \in {"done", "dropped"} : task' = [task EXCEPT ![r] = end]
          /\ UNCHANGED <<kind, unsaid, gone, loop, sent>> /\ Stream' = Stream
      BY <1>6 DEF WriteFails, DropTask, client, Stream
    <2>2. /\ {q \in Lines : task'[q] = "tail"} = {q \in Lines : task[q] = "tail"} \ {r}
          /\ {q \in Lines : task'[q] \in {"done", "dropped"}}
               = {q \in Lines : task[q] \in {"done", "dropped"}} \cup {r}
      BY <1>0, <2>1
    <2>3. r \in (Lines \ unsaid) \ {q \in Lines : task[q] \in {"done", "dropped"}}
      BY <1>1, <2>1
    <2>4. Promise!Abandon(r)
      BY <2>1, <2>2, <2>3 DEF Promise!Abandon
    <2> QED BY <2>4 DEF Promise!Next
  <1> QED BY <1>3, <1>4, <1>5, <1>6 DEF Frame

\* A connection keeps its promise, for any lines and any room in the pipes: one
\* frame at a time, an answer to its last frame and no further, and an end only
\* with everything answered or for a cause of the client's.
THEOREM SessionKeepsPromise == Spec => KeepsPromise
  <1>1. Inv /\ Awaiting /\ Owing /\ [Next]_vars => [Promise!Next]_(Promise!vars)
    <2> SUFFICES ASSUME Inv, Awaiting, Owing, [Next]_vars PROVE [Promise!Next]_(Promise!vars)
      OBVIOUS
    <2>1. CASE UNCHANGED vars
      BY <2>1 DEF vars, client, answers, Stream, Promise!vars
    <2> QED BY <2>1, ClientKeepsPromise, LoopKeepsPromise, AnswerKeepsPromise DEF Next, Inv
  <1>2. Inv /\ Awaiting /\ Owing /\ [Next]_vars => Awaiting' /\ Owing'
    BY AwaitStep, OweStep DEF Inv
  <1> QED BY <1>1, <1>2, PromiseInit, AwaitInit, OweInit, Invariance, PTL
          DEF Spec, KeepsPromise, Promise!Spec

=============================================================================
