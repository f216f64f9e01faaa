------------------------------ MODULE Session ------------------------------
(***************************************************************************)
(* One connection: `speak`, `answer` and `frame` of src/src/stdio.rs,      *)
(* between a pipe the client writes requests into and a pipe it reads      *)
(* frames out of, both of which hold only so much.                         *)
(*                                                                         *)
(* One loop reads lines.  A request is answered on a task of its own, a    *)
(* line that is not a request by the loop itself.  Whoever writes a frame  *)
(* holds the one lock on the output until the whole of it is written,      *)
(* which takes as many writes as the pipe makes of it: here two.           *)
(***************************************************************************)
EXTENDS Integers, Sequences, FiniteSets

CONSTANTS
    Lines,      \* what the client has to write, a line each
    Nobody,     \* the line the loop waits for, when it waits for none
    Kinds,      \* which kinds of line a client writes
    InRoom,     \* lines the input holds before a write blocks
    OutRoom,    \* half frames the output holds before a write blocks
    MaxEvents   \* bound: events of a watch before its end

\* A request answered by one frame, one answered by many, a line that is not
\* a request, and one that is not text at all.
AllKinds == {"call", "watch", "malformed", "garbled"}

ASSUME SessionAssumption ==
    /\ Kinds \subseteq AllKinds
    /\ Nobody \notin Lines
    /\ InRoom \in Nat \ {0} /\ OutRoom \in Nat \ {0}
    /\ MaxEvents \in Nat

VARIABLES
    kind,       \* what each line is
    eager,      \* the client reads while it writes, or only once it is done
    unsaid,     \* lines the client still means to write
    input,      \* lines in the input
    shut,       \* the client has closed its end
    gone,       \* the client has gone altogether
    loop,       \* where `speak` is
    awaited,    \* the line whose frame the loop itself is writing
    task,       \* where the answer to each line is
    last,       \* the frame in hand is the last of its answer
    sent,       \* frames of each answer written whole
    line,       \* the tasks at the output's lock, its holder first
    output,     \* halves of frames in the output
    got         \* halves of frames the client has read

client == <<kind, eager, unsaid, shut, gone, got>>
answers == <<task, last, sent, line>>
vars   == <<client, input, loop, awaited, answers, output>>

Half(r, n, part) == [of |-> r, frame |-> n, part |-> part]
Halves == [of : Lines, frame : Nat \ {0}, part : {"head", "tail"}]

TypeOK ==
    /\ kind \in [Lines -> Kinds]
    /\ eager \in BOOLEAN /\ shut \in BOOLEAN /\ gone \in BOOLEAN
    /\ unsaid \in SUBSET Lines
    /\ input \in Seq(Lines)
    /\ loop \in {"read", "refuse", "drain", "returned", "failed"}
    /\ awaited \in Lines \cup {Nobody}
    /\ task \in [Lines -> {"none", "compose", "queued", "tail", "done", "dropped"}]
    /\ last \in [Lines -> BOOLEAN]
    /\ sent \in [Lines -> Nat]
    /\ line \in Seq(Lines)
    /\ output \in Seq(Halves) /\ Len(output) <= OutRoom
    /\ got \in Seq(Halves)

Init ==
    /\ kind \in [Lines -> Kinds]
    /\ eager \in BOOLEAN
    /\ unsaid = Lines
    /\ input = <<>>
    /\ shut = FALSE /\ gone = FALSE
    /\ loop = "read"
    /\ awaited = Nobody
    /\ task = [r \in Lines |-> "none"]
    /\ last = [r \in Lines |-> FALSE]
    /\ sent = [r \in Lines |-> 0]
    /\ line = <<>>
    /\ output = <<>>
    /\ got = <<>>

-----------------------------------------------------------------------------
(* The client.                                                             *)

Say(r) ==
    /\ r \in unsaid /\ ~shut
    /\ Len(input) < InRoom
    /\ input' = Append(input, r)
    /\ unsaid' = unsaid \ {r}
    /\ UNCHANGED <<kind, eager, shut, gone, got, loop, awaited, answers, output>>

\* It has no more to ask, and says so by closing its end.
Shut ==
    /\ unsaid = {} /\ ~shut
    /\ shut' = TRUE
    /\ UNCHANGED <<kind, eager, unsaid, gone, got, input, loop, awaited, answers, output>>

Hear ==
    /\ output # <<>> /\ ~gone
    /\ eager \/ shut
    /\ got' = Append(got, Head(output))
    /\ output' = Tail(output)
    /\ UNCHANGED <<kind, eager, unsaid, shut, gone, input, loop, awaited, answers>>

\* It goes away: what it has not written is never read, and what it has not
\* read cannot be written.
Go ==
    /\ ~gone
    /\ gone' = TRUE /\ shut' = TRUE
    /\ UNCHANGED <<kind, eager, unsaid, got, input, loop, awaited, answers, output>>

Client == (\E r \in Lines : Say(r)) \/ Shut \/ Hear

-----------------------------------------------------------------------------
(* The loop: `speak`.                                                      *)

\* Mutation: one request is answered before the next is read.
TakeInTurn ==
    /\ loop = "read" /\ input # <<>>
    /\ kind[Head(input)] # "garbled"
    /\ input' = Tail(input)
    /\ loop' = "refuse" /\ awaited' = Head(input)
    /\ task' = [task EXCEPT ![Head(input)] = "compose"]
    /\ UNCHANGED <<client, last, sent, line, output>>

\* A request is handed to a task; the refusal of a line that is not one is
\* written here, and the loop waits for it.
Take ==
    /\ loop = "read" /\ input # <<>>
    /\ kind[Head(input)] # "garbled"
    /\ input' = Tail(input)
    /\ task' = [task EXCEPT ![Head(input)] = "compose"]
    /\ IF kind[Head(input)] = "malformed"
       THEN loop' = "refuse" /\ awaited' = Head(input)
       ELSE UNCHANGED <<loop, awaited>>
    /\ UNCHANGED <<client, last, sent, line, output>>

\* A line that is not text is an error of the reader's, as is a connection
\* that broke; either ends the loop there.
ReadFails ==
    /\ loop = "read"
    /\ gone \/ (input # <<>> /\ kind[Head(input)] = "garbled")
    /\ loop' = "failed"
    /\ UNCHANGED <<client, input, awaited, answers, output>>

\* The refusal is written, or could not be.
Refused ==
    /\ loop = "refuse"
    /\ task[awaited] = "done"
    /\ loop' = IF sent[awaited] > 0 THEN "read" ELSE "failed"
    /\ awaited' = Nobody
    /\ UNCHANGED <<client, input, answers, output>>

EndOfInput ==
    /\ loop = "read" /\ input = <<>> /\ shut
    /\ loop' = "drain"
    /\ UNCHANGED <<client, input, awaited, answers, output>>

\* Mutation: the loop returns when there is no more to read.
DrainNothing ==
    /\ loop = "drain"
    /\ loop' = "returned"
    /\ UNCHANGED <<client, input, awaited, answers, output>>

\* Every answer is waited for before `speak` returns.
Drained ==
    /\ loop = "drain"
    /\ \A r \in Lines : task[r] \in {"none", "done"}
    /\ loop' = "returned"
    /\ UNCHANGED <<client, input, awaited, answers, output>>

Loop == Take \/ ReadFails \/ Refused \/ EndOfInput \/ Drained

-----------------------------------------------------------------------------
(* An answer: `answer`, and `frame` for each frame of it.                  *)

\* Whatever the answer is, the next frame of it is made and taken to the
\* lock, where tasks wait in the order they came.
Queue(r, final) ==
    /\ task[r] = "compose"
    /\ task' = [task EXCEPT ![r] = "queued"]
    /\ last' = [last EXCEPT ![r] = final]
    /\ line' = Append(line, r)
    /\ UNCHANGED <<client, input, loop, awaited, sent, output>>

Answer(r) == kind[r] \in {"call", "malformed"} /\ Queue(r, TRUE)

\* A watch has another event to send, or its scan is over.  When is the
\* scan's affair.
Event(r) ==
    /\ kind[r] = "watch"
    /\ \/ sent[r] < MaxEvents /\ Queue(r, FALSE)
       \/ Queue(r, TRUE)

\* A write waits until the output has room.
Write(h) ==
    /\ Len(output) < OutRoom
    /\ output' = Append(output, h)

\* Mutation: the lock is held for a write rather than for a frame.
WriteHeadOnly(r) ==
    /\ task[r] = "queued" /\ Head(line) = r /\ ~gone
    /\ Write(Half(r, sent[r] + 1, "head"))
    /\ task' = [task EXCEPT ![r] = "tail"]
    /\ line' = Append(Tail(line), r)
    /\ UNCHANGED <<client, input, loop, awaited, last, sent>>

WriteHead(r) ==
    /\ task[r] = "queued" /\ Head(line) = r /\ ~gone
    /\ Write(Half(r, sent[r] + 1, "head"))
    /\ task' = [task EXCEPT ![r] = "tail"]
    /\ UNCHANGED <<client, input, loop, awaited, last, sent, line>>

\* Mutation: the lock is kept once the last frame of an answer is written.
WriteTailKeeps(r) ==
    /\ task[r] = "tail" /\ Head(line) = r /\ ~gone
    /\ Write(Half(r, sent[r] + 1, "tail"))
    /\ sent' = [sent EXCEPT ![r] = @ + 1]
    /\ task' = [task EXCEPT ![r] = IF last[r] THEN "done" ELSE "compose"]
    /\ line' = IF last[r] THEN line ELSE Tail(line)
    /\ UNCHANGED <<client, input, loop, awaited, last>>

\* Mutation: an answer goes on after its last frame.
WriteTailAgain(r) ==
    /\ task[r] = "tail" /\ Head(line) = r /\ ~gone
    /\ sent[r] <= MaxEvents
    /\ Write(Half(r, sent[r] + 1, "tail"))
    /\ sent' = [sent EXCEPT ![r] = @ + 1]
    /\ task' = [task EXCEPT ![r] = "compose"]
    /\ line' = Tail(line)
    /\ UNCHANGED <<client, input, loop, awaited, last>>

WriteTail(r) ==
    /\ task[r] = "tail" /\ Head(line) = r /\ ~gone
    /\ Write(Half(r, sent[r] + 1, "tail"))
    /\ sent' = [sent EXCEPT ![r] = @ + 1]
    /\ task' = [task EXCEPT ![r] = IF last[r] THEN "done" ELSE "compose"]
    /\ line' = Tail(line)
    /\ UNCHANGED <<client, input, loop, awaited, last>>

\* A frame nobody can be sent ends its answer, and lets the lock go.
WriteFails(r) ==
    /\ task[r] \in {"queued", "tail"} /\ Head(line) = r /\ gone
    /\ task' = [task EXCEPT ![r] = "done"]
    /\ line' = Tail(line)
    /\ UNCHANGED <<client, input, loop, awaited, last, sent, output>>

\* speak has failed and dropped its JoinSet.  A task stops where it waits,
\* but one that is running may go on until it does.
DropTask(r) ==
    /\ loop = "failed"
    /\ task[r] \in {"compose", "queued", "tail"}
    /\ task' = [task EXCEPT ![r] = "dropped"]
    /\ \/ task[r] = "compose" /\ UNCHANGED line
       \/ \E i \in 1..Len(line) :
             /\ line[i] = r
             /\ line' = SubSeq(line, 1, i - 1) \o SubSeq(line, i + 1, Len(line))
    /\ UNCHANGED <<client, input, loop, awaited, last, sent, output>>

Frame(r) == WriteHead(r) \/ WriteTail(r) \/ WriteFails(r) \/ DropTask(r)

-----------------------------------------------------------------------------

Next ==
    \/ Client \/ Go \/ Loop
    \/ \E r \in Lines : Answer(r) \/ Event(r) \/ Frame(r)

Spec == Init /\ [][Next]_vars

\* The runtime polls what is ready, and a client that is still there goes on
\* writing when it can and reading when it does.  A watch's next event is
\* owed by nobody.
FairSpec ==
    /\ Spec
    /\ WF_vars(Client) /\ WF_vars(Hear) /\ WF_vars(Loop)
    /\ \A r \in Lines : WF_vars(Answer(r)) /\ WF_vars(Frame(r))

-----------------------------------------------------------------------------
(* Properties.                                                             *)

\* Everything written to the output so far.
Stream == got \o output

Whole(r) == \E i \in 1..Len(Stream) : Stream[i].of = r /\ Stream[i].part = "tail"

\* Frames are whole: no write of one comes between the writes of another,
\* whatever is answered at once and however little the output takes.
\* (`frame` holding the lock across the write.)
FramesWhole ==
    loop # "failed" =>
        \A i \in 1..Len(Stream) :
            /\ Stream[i].part = "head" /\ i < Len(Stream)
                 => Stream[i + 1] = [Stream[i] EXCEPT !.part = "tail"]
            /\ Stream[i].part = "tail" => i > 1 /\ Stream[i - 1].part = "head"

\* speak returns only when every line it was sent has been answered to its
\* last frame, unless the client went away.  (The JoinSet.)
ReturnMeansAnswered ==
    (loop = "returned" /\ ~gone) =>
        \A r \in Lines : task[r] = "done" /\ last[r] /\ Whole(r)

\* Nobody waits for what cannot come, however small the pipes and however many
\* are answered at once: whoever is in line for the output has at its head a
\* task with a frame to write, no task that is waited for was dropped, and the
\* loop waits only for a line that has an answer under way.  (The one lock on
\* the output, and what `speak` awaits.)
WaitsAreForTheLiving ==
    loop # "failed" =>
        /\ \A r \in Lines :
              /\ task[r] \in {"queued", "tail"} =>
                    line # <<>> /\ task[Head(line)] \in {"queued", "tail"}
              /\ task[r] # "dropped"
        /\ loop = "refuse" => awaited \in Lines /\ task[awaited] # "none"

\* The connection keeps the promise of SessionPromise: halves written are said,
\* the line at the head of the lock writes, and an answer whose task is done or
\* dropped is over.  (All of `speak`, `answer` and `frame`.)
Promise == INSTANCE SessionPromise WITH
    asked   <- Lines \ unsaid,
    said    <- Stream,
    writing <- {r \in Lines : task[r] = "tail"},
    frames  <- sent,
    over    <- {r \in Lines : task[r] \in {"done", "dropped"}},
    how     <- IF loop \in {"returned", "failed"} THEN loop ELSE "serving"

KeepsPromise == Promise!Spec

WellFormed == \A r \in Lines : kind[r] \in {"call", "watch"}

\* A line that is answered by one frame is answered, whatever is being
\* watched meanwhile, as long as the connection is good and the client reads
\* while it writes, or writes nothing but requests.  (A task for each request.)
CallsAnswered ==
    \A r \in Lines :
        (r \notin unsaid /\ kind[r] # "watch" /\ (eager \/ WellFormed))
            ~> (Whole(r) \/ gone \/ loop = "failed")

\* A client may write all of its requests, close its end and only then read:
\* requests are taken however few answers the output has room for.
RequestsAreTaken == WellFormed ~> (shut \/ gone)

\* stdio.rs: "a client may write its requests, close its end, and read ours
\* until it closes".
WritingEnds == <>(shut \/ loop = "failed")

=============================================================================
