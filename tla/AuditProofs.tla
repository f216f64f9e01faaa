----------------------------- MODULE AuditProofs -----------------------------
(***************************************************************************)
(* Proofs about Audit, for any number of calls and processes and lines of  *)
(* any length.                                                             *)
(***************************************************************************)
EXTENDS Audit, TLAPS

Pieced == [call : Calls, piece : 1..Pieces]

\* The lock of a process is held by the one call of it that is writing.
LockInv ==
    /\ \A c \in Calls : pc[c] = "write" => lock[by[c]] = c
    /\ \A p \in Processes, c \in Calls : lock[p] = c => by[c] = p /\ pc[c] = "write"

\* What a call has written is its first pieces, in their order.
SentInv ==
    /\ \A c \in Calls : pc[c] \in {"idle", "wait"} => sent[c] = 0
    /\ \A c \in Calls : pc[c] = "ok" => sent[c] = Pieces
    /\ \A c \in Calls : pc[c] = "err" => sent[c] < Pieces
    /\ \A i \in 1..Len(file) : file[i].piece <= sent[file[i].call]
    /\ \A c \in Calls : sent[c] = Pieces => c \in Whole
    /\ \A i, j \in 1..Len(file) :
          (i < j /\ file[i].call = file[j].call) => file[i].piece < file[j].piece

\* The call that is writing is the last of its process in the file.
TailInv ==
    \A i, j \in 1..Len(file) :
        (i < j /\ by[file[i].call] = by[file[j].call] /\ pc[file[i].call] = "write")
            => file[j].call = file[i].call

Inv == TypeOK /\ LockInv /\ SentInv /\ TailInv /\ OwnLinesWhole /\ GluedOnlyToTheCut

\* An empty file and no call made.
LEMMA InitHolds == Init => Inv
  BY AuditAssumption
     DEF Init, Inv, TypeOK, LockInv, SentInv, TailInv, OwnLinesWhole, GluedOnlyToTheCut,
         Stages, Whole

\* What the types say of one call and of one place in the file.
LEMMA Shapes ==
    ASSUME TypeOK
    PROVE  /\ Len(file) \in Nat
           /\ \A i \in 1..Len(file) :
                 file[i] \in Pieced /\ file[i].call \in Calls /\ file[i].piece \in 1..Pieces
           /\ \A c \in Calls : sent[c] \in 0..Pieces /\ pc[c] \in Stages
           /\ \A c \in Calls : pc[c] # "idle" => by[c] \in Processes
  <1>1. /\ \A c \in Calls : sent[c] \in 0..Pieces /\ pc[c] \in Stages
        /\ \A c \in Calls : pc[c] # "idle" => by[c] \in Processes
    BY DEF TypeOK
  <1>2. file \in Seq(Pieced)
    BY DEF TypeOK, Pieced
  <1>3. Len(file) \in Nat /\ \A i \in 1..Len(file) : file[i] \in Pieced
    BY <1>2
  <1>4. \A f \in Pieced : f.call \in Calls /\ f.piece \in 1..Pieces
    BY DEF Pieced
  <1> QED BY <1>1, <1>3, <1>4

\* A step that leaves the file and who wrote it alone, and moves no call into
\* writing, keeps the order of the file.
LEMMA FileStutter ==
    ASSUME Inv, UNCHANGED <<file, sent>>,
           \A i \in 1..Len(file) : by'[file[i].call] = by[file[i].call],
           \A i \in 1..Len(file) : pc'[file[i].call] = "write" => pc[file[i].call] = "write",
           \A i \in 1..Len(file) : pc[file[i].call] \in {"err", "dead"}
               => pc'[file[i].call] \in {"err", "dead"}
    PROVE  TailInv' /\ OwnLinesWhole' /\ GluedOnlyToTheCut'
  <1>1. TailInv'
    BY DEF Inv, TailInv
  <1>2. OwnLinesWhole'
    BY DEF Inv, OwnLinesWhole
  <1>3. GluedOnlyToTheCut'
    <2> SUFFICES ASSUME NEW i \in 2..Len(file), file[i].piece = 1,
                        by'[file[i].call] = by'[file[i - 1].call],
                        file[i - 1].piece # Pieces
                 PROVE  pc'[file[i - 1].call] \in {"err", "dead"}
      BY DEF GluedOnlyToTheCut
    <2>1. i \in 1..Len(file) /\ i - 1 \in 1..Len(file)
      BY Shapes DEF Inv
    <2>2. by[file[i].call] = by[file[i - 1].call]
      BY <2>1
    <2>3. pc[file[i - 1].call] \in {"err", "dead"}
      BY <2>2 DEF Inv, GluedOnlyToTheCut
    <2> QED BY <2>1, <2>3
  <1> QED BY <1>1, <1>2, <1>3

\* A piece written keeps all of the invariant but the types, which it is
\* given.
LEMMA WriteKeeps ==
    ASSUME Inv, TypeOK', NEW c \in Calls, Write(c) PROVE Inv'
  <1> DEFINE n == Len(file) + 1
  <1>0. /\ Len(file) \in Nat /\ Pieces \in Nat
        /\ file' = Append(file, [call |-> c, piece |-> sent[c] + 1])
        /\ pc[c] = "write" /\ sent[c] < Pieces /\ sent[c] \in 0..Pieces
        /\ sent' = [sent EXCEPT ![c] = @ + 1]
        /\ pc' = pc /\ by' = by /\ lock' = lock
    BY Shapes, AuditAssumption DEF Inv, Write
  <1>1. /\ Len(file') = n
        /\ \A i \in 1..Len(file) : file'[i] = file[i]
        /\ file'[n] = [call |-> c, piece |-> sent[c] + 1]
    BY <1>0 DEF Inv, TypeOK
  <1>2. \A i \in 1..n : i \in 1..Len(file) \/ i = n
    BY <1>0
  <1>3. /\ \A d \in Calls : sent'[d] = IF d = c THEN sent[c] + 1 ELSE sent[d]
        /\ \A d \in Calls : sent[d] \in 0..Pieces
    BY <1>0, Shapes DEF Inv, TypeOK
  <1>4. \A i \in 1..Len(file) : file[i].call \in Calls /\ file[i].piece \in 1..Pieces
    BY Shapes DEF Inv
  <1>5. \A i \in 1..Len(file) :
           by[file[i].call] = by[c] /\ pc[file[i].call] = "write" => file[i].call = c
    BY <1>0, <1>4 DEF Inv, LockInv
  <1> HIDE DEF n
  <1>6. LockInv'
    BY <1>0 DEF Inv, LockInv
  <1>7. SentInv'
    <2>1. \A d \in Calls : /\ pc'[d] \in {"idle", "wait"} => sent'[d] = 0
                           /\ pc'[d] = "ok" => sent'[d] = Pieces
                           /\ pc'[d] = "err" => sent'[d] < Pieces
      BY <1>0, <1>3 DEF Inv, SentInv
    <2>2. \A i \in 1..Len(file') : file'[i].piece <= sent'[file'[i].call]
      <3> SUFFICES ASSUME NEW i \in 1..n PROVE file'[i].piece <= sent'[file'[i].call]
        BY <1>1
      <3>1. CASE i = n
        BY <1>0, <1>1, <1>3, <3>1
      <3>2. CASE i \in 1..Len(file)
        <4>1. file[i].piece <= sent[file[i].call]
          BY <3>2 DEF Inv, SentInv
        <4> QED BY <1>0, <1>1, <1>3, <1>4, <3>2, <4>1
      <3> QED BY <1>2, <3>1, <3>2
    <2>3. \A d \in Calls : sent'[d] = Pieces => d \in Whole'
      <3> SUFFICES ASSUME NEW d \in Calls, sent'[d] = Pieces
                   PROVE  \E i \in 1..n : file'[i] = [call |-> d, piece |-> Pieces]
        BY <1>1 DEF Whole
      <3>1. CASE d = c
        <4>1. n \in 1..n
          BY <1>0 DEF n
        <4> QED BY <1>1, <1>3, <3>1, <4>1
      <3>2. CASE d # c
        <4>1. PICK i \in 1..Len(file) : file[i] = [call |-> d, piece |-> Pieces]
          BY <1>3, <3>2 DEF Inv, SentInv, Whole
        <4>2. i \in 1..n
          BY <1>0 DEF n
        <4> QED BY <1>1, <4>1, <4>2
      <3> QED BY <3>1, <3>2
    <2>4. \A i, j \in 1..Len(file') :
            (i < j /\ file'[i].call = file'[j].call) => file'[i].piece < file'[j].piece
      <3> SUFFICES ASSUME NEW i \in 1..n, NEW j \in 1..n, i < j, file'[i].call = file'[j].call
                   PROVE  file'[i].piece < file'[j].piece
        BY <1>1
      <3>1. i \in 1..Len(file)
        BY <1>0 DEF n
      <3>2. CASE j = n
        <4>1. file[i].call = c /\ file[i].piece <= sent[c]
          BY <1>1, <3>1, <3>2 DEF Inv, SentInv
        <4> QED BY <1>0, <1>1, <1>4, <3>1, <3>2, <4>1
      <3>3. CASE j \in 1..Len(file)
        BY <1>1, <3>1, <3>3 DEF Inv, SentInv
      <3> QED BY <1>2, <3>2, <3>3
    <2> QED BY <2>1, <2>2, <2>3, <2>4 DEF SentInv
  <1>8. TailInv'
    <2> SUFFICES ASSUME NEW i \in 1..n, NEW j \in 1..n, i < j,
                        by[file'[i].call] = by[file'[j].call], pc[file'[i].call] = "write"
                 PROVE  file'[j].call = file'[i].call
      BY <1>0, <1>1 DEF TailInv
    <2>1. i \in 1..Len(file)
      BY <1>0 DEF n
    <2>2. CASE j = n
      BY <1>1, <1>5, <2>1, <2>2
    <2>3. CASE j \in 1..Len(file)
      BY <1>1, <2>1, <2>3 DEF Inv, TailInv
    <2> QED BY <1>2, <2>2, <2>3
  <1>9. OwnLinesWhole'
    <2> SUFFICES ASSUME NEW i \in 1..n, NEW j \in 1..n, NEW k \in 1..n, i < j, j < k,
                        file'[i].call = file'[k].call,
                        by[file'[i].call] = by[file'[j].call]
                 PROVE  file'[j].call = file'[i].call
      <3>1. by' = by /\ Len(file') = n
        BY <1>0, <1>1
      <3> QED BY <3>1 DEF OwnLinesWhole
    <2>1. i \in 1..Len(file) /\ j \in 1..Len(file)
      BY <1>0 DEF n
    <2>2. CASE k = n
      <3>1. file[i].call = c /\ pc[c] = "write"
        BY <1>0, <1>1, <2>1, <2>2
      <3> QED BY <1>1, <2>1, <3>1 DEF Inv, TailInv
    <2>3. CASE k \in 1..Len(file)
      BY <1>1, <2>1, <2>3 DEF Inv, OwnLinesWhole
    <2> QED BY <1>2, <2>2, <2>3
  <1>10. GluedOnlyToTheCut'
    <2> SUFFICES ASSUME NEW i \in 2..n, file'[i].piece = 1,
                        by[file'[i].call] = by[file'[i - 1].call],
                        file'[i - 1].piece # Pieces
                 PROVE  pc[file'[i - 1].call] \in {"err", "dead"}
      BY <1>0, <1>1 DEF GluedOnlyToTheCut
    <2>1. i - 1 \in 1..Len(file) /\ i \in 1..n
      BY <1>0 DEF n
    <2>2. CASE i \in 1..Len(file)
      <3>1. i \in 2..Len(file)
        BY <1>0, <2>2
      <3> QED BY <1>1, <2>1, <2>2, <3>1 DEF Inv, GluedOnlyToTheCut
    <2>3. CASE i = n
      <3> DEFINE b == file[i - 1].call
      <3>1. /\ sent[c] = 0 /\ b \in Calls /\ by[b] = by[c]
            /\ file[i - 1].piece \in 1..Pieces /\ file[i - 1].piece # Pieces
            /\ file'[i - 1] = file[i - 1]
        BY <1>0, <1>1, <1>4, <2>1, <2>3
      <3>2. file[i - 1].piece <= sent[b]
        BY <2>1 DEF Inv, SentInv
      <3>3. b # c /\ sent[b] # 0
        BY <1>3, <3>1, <3>2
      <3>4. pc[b] \notin {"idle", "wait"}
        BY <3>1, <3>3 DEF Inv, SentInv
      <3>5. pc[b] # "write"
        BY <1>5, <2>1, <3>1, <3>3
      <3>6. pc[b] # "ok"
        <4> SUFFICES ASSUME pc[b] = "ok" PROVE FALSE
          OBVIOUS
        <4>1. PICK k \in 1..Len(file) : file[k] = [call |-> b, piece |-> Pieces]
          BY <3>1 DEF Inv, SentInv, Whole
        <4>2. k # i - 1
          BY <3>1, <4>1
        <4>3. k < i - 1
          BY <1>0, <2>1, <2>3, <4>2 DEF n
        <4>4. file[k].piece < file[i - 1].piece
          BY <2>1, <4>1, <4>3 DEF Inv, SentInv
        <4> QED BY <1>0, <3>1, <4>1, <4>4
      <3>7. pc[b] \in Stages
        BY <3>1, Shapes DEF Inv
      <3> QED BY <3>1, <3>4, <3>5, <3>6, <3>7 DEF Stages
    <2> QED BY <1>2, <2>1, <2>2, <2>3
  <1> QED BY <1>6, <1>7, <1>8, <1>9, <1>10 DEF Inv

\* Every step keeps the types.
LEMMA TypeStep == TypeOK /\ [Next]_vars => TypeOK'
  <1> SUFFICES ASSUME TypeOK, [Next]_vars PROVE TypeOK'
    OBVIOUS
  <1>0. CASE UNCHANGED vars
    BY <1>0 DEF vars, TypeOK
  <1>1. ASSUME NEW c \in Calls, NEW p \in Processes, Call(c, p) PROVE TypeOK'
    BY <1>1 DEF Call, TypeOK, Stages
  <1>2. ASSUME NEW c \in Calls, TakeLock(c) PROVE TypeOK'
    BY <1>2 DEF TakeLock, TypeOK, Stages
  <1>3. ASSUME NEW c \in Calls, Write(c) PROVE TypeOK'
    <2>1. sent[c] \in 0..Pieces /\ sent[c] < Pieces /\ Pieces \in Nat
      BY <1>3, AuditAssumption DEF Write, TypeOK
    <2>2. sent[c] + 1 \in 1..Pieces
      BY <2>1
    <2>3. file' \in Seq([call : Calls, piece : 1..Pieces])
      BY <1>3, <2>2 DEF Write, TypeOK
    <2>4. sent' \in [Calls -> 0..Pieces]
      BY <1>3, <2>1, <2>2 DEF Write, TypeOK
    <2> QED BY <1>3, <2>3, <2>4 DEF Write, TypeOK
  <1>4. ASSUME NEW c \in Calls, Return(c) \/ Fail(c) PROVE TypeOK'
    BY <1>4 DEF Return, Fail, Unlock, TypeOK, Stages
  <1>5. ASSUME NEW p \in Processes, Crash(p) PROVE TypeOK'
    BY <1>5 DEF Crash, TypeOK, Stages
  <1> QED BY <1>0, <1>1, <1>2, <1>3, <1>4, <1>5 DEF Next, Run

\* Every step keeps the invariant.
LEMMA InvStep == Inv /\ [Next]_vars => Inv'
  <1> SUFFICES ASSUME Inv, [Next]_vars PROVE Inv'
    OBVIOUS
  <1>t. TypeOK /\ TypeOK'
    BY TypeStep DEF Inv
  <1>s. /\ \A i \in 1..Len(file) : file[i].call \in Calls /\ file[i].piece \in 1..Pieces
        /\ \A i \in 1..Len(file) : pc[file[i].call] \notin {"idle", "wait"}
    <2>1. \A i \in 1..Len(file) : /\ file[i].call \in Calls /\ file[i].piece \in 1..Pieces
                                  /\ file[i].piece <= sent[file[i].call]
      BY <1>t, Shapes DEF Inv, SentInv
    <2> QED BY <2>1 DEF Inv, SentInv
  <1>0. CASE UNCHANGED vars
    <2>1. TailInv' /\ OwnLinesWhole' /\ GluedOnlyToTheCut'
      BY <1>0, FileStutter DEF vars
    <2> QED BY <1>0, <1>t, <2>1 DEF vars, Inv, LockInv, SentInv, Whole
  <1>1. ASSUME NEW c \in Calls, NEW p \in Processes, Call(c, p) PROVE Inv'
    <2>1. /\ pc[c] = "idle" /\ UNCHANGED <<file, lock, sent>>
          /\ \A d \in Calls : d # c => by'[d] = by[d] /\ pc'[d] = pc[d]
          /\ pc'[c] = "wait"
      BY <1>1, <1>t DEF Call, TypeOK
    <2>2. TailInv' /\ OwnLinesWhole' /\ GluedOnlyToTheCut'
      BY <1>s, <2>1, FileStutter
    <2>3. LockInv'
      BY <1>t, <2>1, AuditAssumption DEF Inv, LockInv
    <2>4. SentInv'
      BY <2>1 DEF Inv, SentInv, Whole
    <2> QED BY <1>t, <2>2, <2>3, <2>4 DEF Inv
  <1>2. ASSUME NEW c \in Calls, TakeLock(c) PROVE Inv'
    <2>1. /\ pc[c] = "wait" /\ lock[by[c]] = Free /\ by[c] \in Processes
          /\ UNCHANGED <<file, by, sent>>
          /\ \A d \in Calls : d # c => pc'[d] = pc[d]
          /\ pc'[c] = "write"
          /\ \A p \in Processes : lock'[p] = IF p = by[c] THEN c ELSE lock[p]
      BY <1>2, <1>t DEF TakeLock, TypeOK
    <2>2. TailInv' /\ OwnLinesWhole' /\ GluedOnlyToTheCut'
      BY <1>s, <2>1, FileStutter
    <2>3. LockInv'
      <3>1. \A d \in Calls : by[d] = by[c] => pc[d] # "write"
        <4> SUFFICES ASSUME NEW d \in Calls, by[d] = by[c], pc[d] = "write" PROVE FALSE
          OBVIOUS
        <4> QED BY <2>1, AuditAssumption DEF Inv, LockInv
      <3>2. \A d \in Calls : pc'[d] = "write" => lock'[by'[d]] = d
        <4> SUFFICES ASSUME NEW d \in Calls, pc'[d] = "write" PROVE lock'[by[d]] = d
          BY <2>1
        <4>1. CASE d = c
          BY <2>1, <4>1
        <4>2. CASE d # c
          <5>1. pc[d] = "write" /\ by[d] # by[c] /\ by[d] \in Processes
            BY <1>t, <2>1, <3>1, <4>2, Shapes
          <5> QED BY <2>1, <5>1 DEF Inv, LockInv
        <4> QED BY <4>1, <4>2
      <3>3. \A p \in Processes, d \in Calls : lock'[p] = d => by'[d] = p /\ pc'[d] = "write"
        BY <2>1 DEF Inv, LockInv
      <3> QED BY <3>2, <3>3 DEF LockInv
    <2>4. SentInv'
      BY <2>1 DEF Inv, SentInv, Whole
    <2> QED BY <1>t, <2>2, <2>3, <2>4 DEF Inv
  <1>3. ASSUME NEW c \in Calls, Write(c) PROVE Inv'
    BY <1>3, <1>t, WriteKeeps
  <1>4. ASSUME NEW c \in Calls, Return(c) \/ Fail(c) PROVE Inv'
    <2>1. /\ pc[c] = "write" /\ by[c] \in Processes /\ UNCHANGED <<file, by, sent>>
          /\ \A d \in Calls : d # c => pc'[d] = pc[d]
          /\ pc'[c] \in {"ok", "err"}
          /\ pc'[c] = "ok" => sent[c] = Pieces
          /\ pc'[c] = "err" => sent[c] < Pieces
          /\ \A p \in Processes : lock'[p] = IF p = by[c] THEN Free ELSE lock[p]
      BY <1>4, <1>t DEF Return, Fail, Unlock, TypeOK
    <2>2. TailInv' /\ OwnLinesWhole' /\ GluedOnlyToTheCut'
      BY <1>s, <2>1, FileStutter
    <2>3. LockInv'
      <3>1. \A d \in Calls : pc'[d] = "write" => lock'[by'[d]] = d
        BY <1>t, <2>1 DEF Inv, LockInv, TypeOK
      <3>2. \A p \in Processes, d \in Calls : lock'[p] = d => by'[d] = p /\ pc'[d] = "write"
        BY <2>1, AuditAssumption DEF Inv, LockInv
      <3> QED BY <3>1, <3>2 DEF LockInv
    <2>4. SentInv'
      BY <2>1 DEF Inv, SentInv, Whole
    <2> QED BY <1>t, <2>2, <2>3, <2>4 DEF Inv
  <1>5. ASSUME NEW p \in Processes, Crash(p) PROVE Inv'
    <2>1. /\ UNCHANGED <<file, by, sent>>
          /\ \A d \in Calls : pc'[d] = IF by[d] = p /\ pc[d] \in {"wait", "write"}
                                       THEN "dead" ELSE pc[d]
          /\ \A q \in Processes : lock'[q] = IF q = p THEN Free ELSE lock[q]
      BY <1>5, <1>t DEF Crash, TypeOK
    <2>2. TailInv' /\ OwnLinesWhole' /\ GluedOnlyToTheCut'
      BY <1>s, <2>1, FileStutter
    <2>3. LockInv'
      <3>1. \A d \in Calls : pc'[d] = "write" => lock'[by'[d]] = d
        BY <1>t, <2>1, Shapes DEF Inv, LockInv
      <3>2. \A q \in Processes, d \in Calls : lock'[q] = d => by'[d] = q /\ pc'[d] = "write"
        BY <2>1, AuditAssumption DEF Inv, LockInv
      <3> QED BY <3>1, <3>2 DEF LockInv
    <2>4. SentInv'
      BY <2>1 DEF Inv, SentInv, Whole
    <2> QED BY <1>t, <2>2, <2>3, <2>4 DEF Inv
  <1> QED BY <1>0, <1>1, <1>2, <1>3, <1>4, <1>5 DEF Next, Run

\* The invariant holds throughout.
THEOREM Invariance == Spec => []Inv
  <1> QED BY InitHolds, InvStep, PTL DEF Spec

\* Every state of the audit is well formed.
THEOREM TypesHold == Spec => []TypeOK
  <1>1. Inv => TypeOK
    BY DEF Inv
  <1> QED BY Invariance, <1>1, PTL

\* One daemon's entries are never written into each other.
THEOREM LinesWhole == Spec => []OwnLinesWhole
  <1>1. Inv => OwnLinesWhole
    BY DEF Inv
  <1> QED BY Invariance, <1>1, PTL

\* Nothing is glued but to what a call that failed or died has left.
THEOREM GluedToTheCut == Spec => []GluedOnlyToTheCut
  <1>1. Inv => GluedOnlyToTheCut
    BY DEF Inv
  <1> QED BY Invariance, <1>1, PTL

-----------------------------------------------------------------------------
(* The audit implements AuditPromise.                                      *)

\* Nothing is there, and nobody was told, at first.
LEMMA PromiseInit == Init => Promise!Init
  BY DEF Init, Promise!Init, Whole, Told

\* A call that has not written its last piece is not in the file whole.
LEMMA NotYetWhole ==
    ASSUME Inv, NEW c \in Calls, sent[c] < Pieces PROVE c \notin Whole
  <1> SUFFICES ASSUME NEW i \in 1..Len(file), file[i] = [call |-> c, piece |-> Pieces]
               PROVE  FALSE
    BY DEF Whole
  <1>1. Pieces <= sent[c]
    BY DEF Inv, SentInv
  <1> QED BY <1>1, AuditAssumption, Shapes DEF Inv

\* Every step is a step of the promise, or leaves it as it is.
LEMMA PromiseStep ==
    ASSUME Inv, Inv', [Next]_vars PROVE [Promise!Next]_(Promise!vars)
  <1> DEFINE told == [c \in Calls |-> Told(c)]
  <1>0. CASE UNCHANGED vars
    BY <1>0 DEF vars, Promise!vars, Whole, Told
  <1>1. ASSUME NEW c \in Calls, NEW p \in Processes, Call(c, p)
        PROVE  UNCHANGED Promise!vars
    <2>1. \A d \in Calls : Told(d)' = Told(d)
      BY <1>1 DEF Call, Told, Inv, TypeOK
    <2> QED BY <1>1, <2>1 DEF Call, Promise!vars, Whole
  <1>2. ASSUME NEW c \in Calls, TakeLock(c) PROVE UNCHANGED Promise!vars
    <2>1. \A d \in Calls : Told(d)' = Told(d)
      BY <1>2 DEF TakeLock, Told, Inv, TypeOK
    <2> QED BY <1>2, <2>1 DEF TakeLock, Promise!vars, Whole
  <1>3. ASSUME NEW c \in Calls, Write(c)
        PROVE  Promise!Enter(c) \/ UNCHANGED Promise!vars
    <2>1. /\ Len(file) \in Nat /\ pc[c] = "write" /\ sent[c] < Pieces /\ pc' = pc
          /\ file \in Seq([call : Calls, piece : 1..Pieces])
          /\ file' = Append(file, [call |-> c, piece |-> sent[c] + 1])
      BY <1>3, Shapes DEF Write, Inv, TypeOK
    <2>2. /\ Len(file') = Len(file) + 1
          /\ \A i \in 1..Len(file) : file'[i] = file[i]
          /\ file'[Len(file) + 1] = [call |-> c, piece |-> sent[c] + 1]
      BY <2>1
    <2>3. \A d \in Calls : d \in Whole' <=> d \in Whole \/ (d = c /\ sent[c] + 1 = Pieces)
      <3> SUFFICES ASSUME NEW d \in Calls
                   PROVE  (\E i \in 1..Len(file) + 1 : file'[i] = [call |-> d, piece |-> Pieces])
                            <=> \/ \E i \in 1..Len(file) : file[i] = [call |-> d, piece |-> Pieces]
                                \/ d = c /\ sent[c] + 1 = Pieces
        BY <2>2 DEF Whole
      <3>1. \A i \in 1..Len(file) + 1 : i \in 1..Len(file) \/ i = Len(file) + 1
        BY <2>1
      <3>2. /\ Len(file) + 1 \in 1..Len(file) + 1
            /\ \A i \in 1..Len(file) : i \in 1..Len(file) + 1
        BY <2>1
      <3>3. [call |-> c, piece |-> sent[c] + 1] = [call |-> d, piece |-> Pieces]
              <=> d = c /\ sent[c] + 1 = Pieces
        OBVIOUS
      <3> QED BY <2>2, <3>1, <3>2, <3>3
    <2>4. Whole \subseteq Calls /\ Whole' \subseteq Calls
      BY DEF Whole
    <2>5. c \notin Whole
      BY <2>1, NotYetWhole
    <2>6. told' = told /\ Told(c) = "nothing"
      BY <2>1 DEF Told
    <2>7. CASE sent[c] + 1 = Pieces
      <3>1. Whole' = Whole \cup {c}
        BY <2>3, <2>4, <2>7
      <3> QED BY <2>5, <2>6, <3>1 DEF Promise!Enter
    <2>8. CASE sent[c] + 1 # Pieces
      <3>1. Whole' = Whole
        BY <2>3, <2>4, <2>8
      <3> QED BY <2>6, <3>1 DEF Promise!vars
    <2> QED BY <2>7, <2>8
  <1>4. ASSUME NEW c \in Calls, Return(c) PROVE Promise!TellOk(c)
    <2>1. /\ pc[c] = "write" /\ pc' = [pc EXCEPT ![c] = "ok"] /\ sent[c] = Pieces
          /\ file' = file /\ pc \in [Calls -> Stages]
      BY <1>4 DEF Return, Inv, TypeOK
    <2>2. c \in Whole /\ Whole' = Whole
      BY <2>1 DEF Inv, SentInv, Whole
    <2>3. told' = [told EXCEPT ![c] = "ok"] /\ Told(c) = "nothing"
      BY <2>1 DEF Told
    <2> QED BY <2>2, <2>3 DEF Promise!TellOk
  <1>5. ASSUME NEW c \in Calls, Fail(c) PROVE Promise!TellErr(c)
    <2>1. /\ pc[c] = "write" /\ pc' = [pc EXCEPT ![c] = "err"] /\ sent[c] < Pieces
          /\ file' = file /\ pc \in [Calls -> Stages]
      BY <1>5 DEF Fail, Inv, TypeOK
    <2>2. c \notin Whole /\ Whole' = Whole
      BY <2>1, NotYetWhole DEF Whole
    <2>3. told' = [told EXCEPT ![c] = "err"] /\ Told(c) = "nothing"
      BY <2>1 DEF Told
    <2> QED BY <2>2, <2>3 DEF Promise!TellErr
  <1>6. ASSUME NEW p \in Processes, Crash(p) PROVE UNCHANGED Promise!vars
    <2>1. \A d \in Calls : Told(d)' = Told(d)
      BY <1>6 DEF Crash, Told
    <2> QED BY <1>6, <2>1 DEF Crash, Promise!vars, Whole
  <1> QED BY <1>0, <1>1, <1>2, <1>3, <1>4, <1>5, <1>6 DEF Next, Run, Promise!Next

\* The audit keeps its promise: told Ok is there whole, told Err is not.
THEOREM AuditKeepsPromise == Spec => KeepsPromise
  <1> QED BY Invariance, PromiseInit, PromiseStep, PTL DEF Spec, KeepsPromise, Promise!Spec

=============================================================================
