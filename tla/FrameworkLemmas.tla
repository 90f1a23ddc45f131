-------------------------- MODULE FrameworkLemmas --------------------------
(***************************************************************************)
(* What the building blocks of Framework do: tasks entering and leaving    *)
(* the queues, handlers destroyed, fds deleted, messages sent.  For any    *)
(* number of fds, threads, clients, reuses of an fd, messages and tasks.   *)
(***************************************************************************)
EXTENDS Framework, TLAPS

-----------------------------------------------------------------------------
(* Io ids and owners *)

\* fd % thread_count_ is the number of a thread.
LEMMA OwnerType == \A fd \in Fds : Owner(fd) \in Threads
  BY FdsAssumption, ThreadAssumption DEF Owner, Threads

\* The fd of an io id is an fd, and NoIo and NoFd are none.
LEMMA IoType ==
  /\ \A io \in IoIds : Fd(io) \in Fds
  /\ \A fd \in Fds : \A n \in 1..MaxSalt : <<fd, n>> \in IoIds /\ Fd(<<fd, n>>) = fd
  /\ NoIo \notin IoIds
  /\ NoFd \notin Fds
  BY FdsAssumption, Zenon DEF IoIds, Fd, NoIo, NoFd

\* The io id that AssignFdIoId gives next.
LEMMA NextIo ==
  ASSUME TypeOK, NEW fd \in Fds, salt[fd] < MaxSalt
  PROVE  /\ <<fd, salt[fd] + 1>> \in IoIds
         /\ Fd(<<fd, salt[fd] + 1>>) = fd
         /\ salt[fd] + 1 \in 0..MaxSalt
  <1>1. salt[fd] + 1 \in 1..MaxSalt
    BY BoundAssumption DEF TypeOK
  <1> QED
    BY <1>1, IoType

-----------------------------------------------------------------------------
(* Sequences *)

LEMMA AppendFacts ==
  ASSUME NEW S, NEW q \in Seq(S), NEW x \in S
  PROVE  /\ Append(q, x) \in Seq(S)
         /\ Len(Append(q, x)) = Len(q) + 1
         /\ \A i \in 1..Len(q) : Append(q, x)[i] = q[i]
         /\ Append(q, x)[Len(q) + 1] = x
  OBVIOUS

LEMMA TailFacts ==
  ASSUME NEW S, NEW q \in Seq(S), Len(q) > 0
  PROVE  /\ Head(q) \in S /\ Head(q) = q[1]
         /\ Tail(q) \in Seq(S)
         /\ Len(Tail(q)) = Len(q) - 1
         /\ \A i \in 1..Len(Tail(q)) : i + 1 \in 1..Len(q) /\ Tail(q)[i] = q[i + 1]
  OBVIOUS

\* What is left of a queue when some of it was sent, and what was sent.
LEMMA PartFacts ==
  ASSUME NEW S, NEW q \in Seq(S), NEW k \in 0..Len(q)
  PROVE  /\ SubSeq(q, 1, k) \in Seq(S)
         /\ SubSeq(q, k + 1, Len(q)) \in Seq(S)
         /\ Elems(SubSeq(q, 1, k)) \subseteq Elems(q)
         /\ Elems(SubSeq(q, k + 1, Len(q))) \subseteq Elems(q)
  <1>1. /\ SubSeq(q, 1, k) \in Seq(S)
        /\ Len(SubSeq(q, 1, k)) = k
        /\ \A i \in 1..k : SubSeq(q, 1, k)[i] = q[i]
    OBVIOUS
  <1>2. /\ SubSeq(q, k + 1, Len(q)) \in Seq(S)
        /\ Len(SubSeq(q, k + 1, Len(q))) = Len(q) - k
        /\ \A i \in 1..(Len(q) - k) : SubSeq(q, k + 1, Len(q))[i] = q[k + i]
    OBVIOUS
  <1> QED
    BY <1>1, <1>2 DEF Elems

LEMMA ElemsFacts ==
  ASSUME NEW S
  PROVE  /\ \A q \in Seq(S) : Elems(q) \subseteq S
         /\ Elems(<<>>) = {}
         /\ \A q \in Seq(S), x \in S : Elems(Append(q, x)) = Elems(q) \cup {x}
         /\ \A q, r \in Seq(S) : q \o r \in Seq(S) /\ Elems(q \o r) = Elems(q) \cup Elems(r)
  <1>1. \A q \in Seq(S) : Elems(q) \subseteq S
    BY DEF Elems
  <1>2. Elems(<<>>) = {}
    BY DEF Elems
  <1>3. ASSUME NEW q \in Seq(S), NEW x \in S
        PROVE  Elems(Append(q, x)) = Elems(q) \cup {x}
    BY AppendFacts DEF Elems
  <1>4. ASSUME NEW q \in Seq(S), NEW r \in Seq(S)
        PROVE  q \o r \in Seq(S) /\ Elems(q \o r) = Elems(q) \cup Elems(r)
    <2>1. /\ q \o r \in Seq(S)
          /\ Len(q \o r) = Len(q) + Len(r)
          /\ \A i \in 1..Len(q) : (q \o r)[i] = q[i]
          /\ \A i \in 1..Len(r) : (q \o r)[Len(q) + i] = r[i]
      OBVIOUS
    <2>2. \A i \in 1..Len(q \o r) : i \in 1..Len(q) \/ i - Len(q) \in 1..Len(r)
      BY <2>1
    <2>3. \A i \in 1..Len(q) : i \in 1..Len(q \o r)
      BY <2>1
    <2>4. \A i \in 1..Len(r) : Len(q) + i \in 1..Len(q \o r)
      BY <2>1
    <2>5. \A i \in 1..Len(q \o r) : i = Len(q) + (i - Len(q))
      BY <2>1
    <2>6. Elems(q \o r) \subseteq Elems(q) \cup Elems(r)
      <3> SUFFICES ASSUME NEW i \in 1..Len(q \o r)
                   PROVE  (q \o r)[i] \in Elems(q) \cup Elems(r)
        BY Zenon DEF Elems
      <3>1. CASE i \in 1..Len(q)
        BY <2>1, <3>1, Zenon DEF Elems
      <3>2. CASE i - Len(q) \in 1..Len(r)
        <4>1. (q \o r)[i] = r[i - Len(q)]
          BY <2>1, <2>5, <3>2, Zenon
        <4> QED
          BY <3>2, <4>1, Zenon DEF Elems
      <3> QED
        BY <2>2, <3>1, <3>2, Zenon
    <2>7. Elems(q) \cup Elems(r) \subseteq Elems(q \o r)
      BY <2>1, <2>3, <2>4, Zenon DEF Elems
    <2> QED
      BY <2>1, <2>6, <2>7, Zenon
  <1> QED
    BY <1>1, <1>2, <1>3, <1>4, Zenon

-----------------------------------------------------------------------------
(* The queues *)

\* What an invariant says of the tasks waiting for the threads.
QueuesOK == TasksAtOwner /\ AddsQueued /\ BatchQueued

QueuesAddressed ==
  \A t \in Threads : \A i \in 1..Len(queue[t]) :
    queue[t][i].op = "send" => queue[t][i].msg \in Msgs /\ queue[t][i].msg[3] = queue[t][i].io

PostingAddressed ==
  \A c \in Clients :
    posting[c].op = "send" => posting[c].msg \in Msgs /\ posting[c].msg[3] = posting[c].io

\* The fds some task is to register stay as they are.
KeepsQueued == \A fd \in Fds : sock[fd] = "queued" => sock'[fd] = "queued"

\* Every element of a queue is a task for some fd.
LEMMA TaskType ==
  ASSUME TypeOK, NEW t \in Threads
  PROVE  /\ queue[t] \in Seq(Tasks) /\ Len(queue[t]) \in Nat
         /\ \A i \in 1..Len(queue[t]) :
              queue[t][i] \in Tasks /\ queue[t][i].io \in IoIds /\ Fd(queue[t][i].io) \in Fds
  <1>1. queue[t] \in Seq(Tasks)
    BY Zenon DEF TypeOK
  <1>2. \A i \in 1..Len(queue[t]) : queue[t][i] \in Tasks
    BY <1>1
  <1>3. \A k \in Tasks : k.io \in IoIds /\ Fd(k.io) \in Fds
    BY IoType, Zenon DEF Tasks
  <1> QED
    BY <1>1, <1>2, <1>3

\* So is the task a client holds.
LEMMA PostingType ==
  ASSUME TypeOK
  PROVE  \A c \in Clients : posting[c] # NoTask \/ posting[c].op \in AddOps =>
           posting[c] \in Tasks /\ posting[c].io \in IoIds /\ Fd(posting[c].io) \in Fds
  <1>1. \A c \in Clients : posting[c] \in Tasks \/ posting[c] = NoTask
    BY Zenon DEF TypeOK
  <1>2. NoTask.op \notin AddOps
    BY Zenon DEF NoTask, AddOps
  <1>3. \A k \in Tasks : k.io \in IoIds /\ Fd(k.io) \in Fds
    BY IoType, Zenon DEF Tasks
  <1> QED
    BY <1>1, <1>2, <1>3, Zenon

LEMMA SameQueue ==
  ASSUME TypeOK, QueuesOK, QueuesAddressed, KeepsQueued, UNCHANGED <<queue, batch>>
  PROVE  QueuesOK' /\ QueuesAddressed'
  <1>1. \A t \in Threads : \A i \in 1..Len(queue[t]) : Fd(queue[t][i].io) \in Fds
    BY TaskType, Zenon
  <1>2. TasksAtOwner' /\ BatchQueued' /\ QueuesAddressed'
    BY Zenon DEF QueuesOK, TasksAtOwner, BatchQueued, QueuesAddressed
  <1>3. AddsQueued'
    BY <1>1 DEF QueuesOK, AddsQueued, KeepsQueued
  <1> QED
    BY <1>2, <1>3, Zenon DEF QueuesOK

\* The task at the head of the batch.
LEMMA PopHead ==
  ASSUME TypeOK, QueuesOK, QueuesAddressed, NEW t \in Threads, InTasks(t)
  PROVE  /\ Len(queue[t]) > 0
         /\ Head(queue[t]) = queue[t][1] /\ Head(queue[t]) \in Tasks
         /\ Fd(Head(queue[t]).io) \in Fds
         /\ Owner(Fd(Head(queue[t]).io)) = t
         /\ Head(queue[t]).op \in AddOps => sock[Fd(Head(queue[t]).io)] = "queued"
         /\ Head(queue[t]).op = "send" => /\ Head(queue[t]).msg \in Msgs
                                          /\ Head(queue[t]).msg[3] = Head(queue[t]).io
  <1>1. queue[t] \in Seq(Tasks) /\ Len(queue[t]) > 0
    BY DEF TypeOK, QueuesOK, BatchQueued, InTasks
  <1>2. Head(queue[t]) = queue[t][1] /\ Head(queue[t]) \in Tasks /\ 1 \in 1..Len(queue[t])
    BY <1>1, TailFacts
  <1>3. Fd(Head(queue[t]).io) \in Fds
    BY <1>2, IoType, Zenon DEF Tasks
  <1>4. Owner(Fd(Head(queue[t]).io)) = t
    BY <1>2, Zenon DEF QueuesOK, TasksAtOwner
  <1>5. Head(queue[t]).op \in AddOps => sock[Fd(Head(queue[t]).io)] = "queued"
    BY <1>2, Zenon DEF QueuesOK, AddsQueued
  <1>6. Head(queue[t]).op = "send" => /\ Head(queue[t]).msg \in Msgs
                                      /\ Head(queue[t]).msg[3] = Head(queue[t]).io
    BY <1>2, Zenon DEF QueuesAddressed
  <1> QED
    BY <1>1, <1>2, <1>3, <1>4, <1>5, <1>6, Zenon

\* Taking a task: only the fd that the task was to register may change.
LEMMA PopQueue ==
  ASSUME TypeOK, QueuesOK, QueuesAddressed, NEW t \in Threads, Pop(t),
         \A fd \in Fds : sock[fd] = "queued" =>
           \/ sock'[fd] = "queued"
           \/ Head(queue[t]).op \in AddOps /\ fd = Fd(Head(queue[t]).io)
  PROVE  /\ queue' \in [Threads -> Seq(Tasks)]
         /\ batch' \in [Threads -> Nat]
         /\ QueuesOK' /\ QueuesAddressed'
  <1>1. InTasks(t) /\ batch[t] > 0
    BY Zenon DEF Pop, InTasks
  <1>2. queue[t] \in Seq(Tasks) /\ Len(queue[t]) > 0 /\ Head(queue[t]) = queue[t][1]
    BY <1>1, PopHead, Zenon DEF TypeOK
  <1>3. /\ Tail(queue[t]) \in Seq(Tasks)
        /\ Len(Tail(queue[t])) = Len(queue[t]) - 1
        /\ \A i \in 1..Len(Tail(queue[t])) :
             i + 1 \in 1..Len(queue[t]) /\ Tail(queue[t])[i] = queue[t][i + 1]
    BY <1>2, TailFacts, Zenon
  <1>4. /\ queue' \in [Threads -> Seq(Tasks)]
        /\ queue'[t] = Tail(queue[t])
        /\ \A u \in Threads \ {t} : queue'[u] = queue[u]
    BY <1>3, Zenon DEF Pop, TypeOK
  <1>5. /\ batch' \in [Threads -> Nat]
        /\ batch'[t] = batch[t] - 1
        /\ \A u \in Threads \ {t} : batch'[u] = batch[u]
    <2>1. batch[t] - 1 \in Nat
      BY <1>1 DEF TypeOK
    <2> QED
      BY <1>1, <2>1, Zenon DEF Pop, TypeOK
  <1>6. BatchQueued'
    <2>1. \A u \in Threads \ {t} : batch'[u] <= Len(queue'[u])
      BY <1>4, <1>5, Zenon DEF QueuesOK, BatchQueued
    <2>2. batch[t] <= Len(queue[t]) /\ batch[t] \in Nat /\ Len(queue[t]) \in Nat
      <3>1. batch[t] <= Len(queue[t])
        BY Zenon DEF QueuesOK, BatchQueued
      <3>2. batch[t] \in Nat
        BY Zenon DEF TypeOK
      <3>3. Len(queue[t]) \in Nat
        BY <1>2
      <3> QED
        BY <3>1, <3>2, <3>3, Zenon
    <2>3. batch[t] - 1 <= Len(queue[t]) - 1
      BY <2>2
    <2> QED
      BY <1>3, <1>4, <1>5, <2>1, <2>3, Zenon DEF BatchQueued
  <1>7. TasksAtOwner'
    <2> SUFFICES ASSUME NEW u \in Threads, NEW i \in 1..Len(queue'[u])
                 PROVE  Owner(Fd(queue'[u][i].io)) = u
      BY Zenon DEF TasksAtOwner
    <2>1. CASE u = t
      <3>1. i + 1 \in 1..Len(queue[t]) /\ queue'[u][i] = queue[t][i + 1]
        BY <1>3, <1>4, <2>1, Zenon
      <3> QED
        BY <2>1, <3>1, Zenon DEF QueuesOK, TasksAtOwner
    <2>2. CASE u # t
      BY <1>4, <2>2, Zenon DEF QueuesOK, TasksAtOwner
    <2> QED
      BY <2>1, <2>2, Zenon
  <1>8. QueuesAddressed'
    <2> SUFFICES ASSUME NEW u \in Threads, NEW i \in 1..Len(queue'[u]), queue'[u][i].op = "send"
                 PROVE  queue'[u][i].msg \in Msgs /\ queue'[u][i].msg[3] = queue'[u][i].io
      BY Zenon DEF QueuesAddressed
    <2>1. CASE u = t
      <3>1. i + 1 \in 1..Len(queue[t]) /\ queue'[u][i] = queue[t][i + 1]
        BY <1>3, <1>4, <2>1, Zenon
      <3> QED
        BY <3>1, Zenon DEF QueuesAddressed
    <2>2. CASE u # t
      <3>1. queue'[u] = queue[u]
        BY <1>4, <2>2, Zenon
      <3> QED
        BY <3>1, Zenon DEF QueuesAddressed
    <2> QED
      BY <2>1, <2>2, Zenon
  <1>9. AddsQueued'
    <2> SUFFICES ASSUME NEW u \in Threads, NEW i \in 1..Len(queue'[u]),
                        queue'[u][i].op \in AddOps
                 PROVE  /\ sock'[Fd(queue'[u][i].io)] = "queued"
                        /\ \A j \in 1..Len(queue'[u]) :
                             queue'[u][j].op \in AddOps /\ Fd(queue'[u][j].io) = Fd(queue'[u][i].io)
                               => j = i
      BY Zenon DEF AddsQueued
    <2>1. CASE u = t
      <3>1. /\ i + 1 \in 1..Len(queue[t]) /\ queue'[u][i] = queue[t][i + 1]
            /\ \A j \in 1..Len(queue'[u]) : j + 1 \in 1..Len(queue[t]) /\ queue'[u][j] = queue[t][j + 1]
        BY <1>3, <1>4, <2>1, Zenon
      <3>2. sock[Fd(queue'[u][i].io)] = "queued" /\ Fd(queue'[u][i].io) \in Fds
        BY <3>1, TaskType DEF QueuesOK, AddsQueued
      <3>3. ~(Head(queue[t]).op \in AddOps /\ Fd(queue'[u][i].io) = Fd(Head(queue[t]).io))
        <4>1. 1 \in 1..Len(queue[t]) /\ i + 1 # 1
          BY <1>2, <3>1
        <4>2. ASSUME queue[t][1].op \in AddOps, Fd(queue[t][i + 1].io) = Fd(queue[t][1].io)
              PROVE  i + 1 = 1
          <5>1. queue[t][i + 1].op \in AddOps /\ i + 1 \in 1..Len(queue[t])
            BY <3>1, Zenon
          <5> QED
            BY <4>1, <4>2, <5>1, Zenon DEF QueuesOK, AddsQueued
        <4> QED
          BY <1>2, <3>1, <4>1, <4>2, Zenon
      <3>4. sock'[Fd(queue'[u][i].io)] = "queued"
        BY <3>2, <3>3, Zenon
      <3>5. ASSUME NEW j \in 1..Len(queue'[u]), queue'[u][j].op \in AddOps,
                   Fd(queue'[u][j].io) = Fd(queue'[u][i].io)
            PROVE  j = i
        <4>1. /\ queue[t][i + 1].op \in AddOps /\ queue[t][j + 1].op \in AddOps
              /\ Fd(queue[t][j + 1].io) = Fd(queue[t][i + 1].io)
              /\ i + 1 \in 1..Len(queue[t]) /\ j + 1 \in 1..Len(queue[t])
          BY <3>1, <3>5, Zenon
        <4>2. j + 1 = i + 1
          BY <4>1, Zenon DEF QueuesOK, AddsQueued
        <4> QED
          BY <4>2
      <3> QED
        BY <3>4, <3>5, Zenon
    <2>2. CASE u # t
      <3>1. queue'[u] = queue[u]
        BY <1>4, <2>2, Zenon
      <3>2. sock[Fd(queue[u][i].io)] = "queued" /\ Fd(queue[u][i].io) \in Fds
        BY <3>1, TaskType, Zenon DEF QueuesOK, AddsQueued
      <3>3. Owner(Fd(queue[u][i].io)) = u /\ Owner(Fd(Head(queue[t]).io)) = t
        BY <1>1, <3>1, PopHead, Zenon DEF QueuesOK, TasksAtOwner
      <3>4. sock'[Fd(queue[u][i].io)] = "queued"
        BY <2>2, <3>2, <3>3, Zenon
      <3> QED
        BY <3>1, <3>4, Zenon DEF QueuesOK, AddsQueued
    <2> QED
      BY <2>1, <2>2, Zenon
  <1> QED
    BY <1>4, <1>5, <1>6, <1>7, <1>8, <1>9, Zenon DEF QueuesOK

\* Posting a task to the owner of its fd; a task that is to register an fd is
\* the only one for it.
LEMMA PostQueue ==
  ASSUME TypeOK, QueuesOK, QueuesAddressed, NEW task \in Tasks,
         Post(Owner(Fd(task.io)), task), UNCHANGED batch,
         KeepsQueued,
         task.op \in AddOps => sock[Fd(task.io)] # "queued" /\ sock'[Fd(task.io)] = "queued",
         task.op = "send" => task.msg \in Msgs /\ task.msg[3] = task.io
  PROVE  queue' \in [Threads -> Seq(Tasks)] /\ QueuesOK' /\ QueuesAddressed'
  <1>0. Fd(task.io) \in Fds
    BY IoType, Zenon DEF Tasks
  <1>1. PICK t \in Threads : t = Owner(Fd(task.io))
    BY <1>0, OwnerType, Zenon
  <1>2. queue[t] \in Seq(Tasks)
    BY <1>1, Zenon DEF TypeOK
  <1>3. /\ queue' \in [Threads -> Seq(Tasks)]
        /\ queue'[t] = Append(queue[t], task)
        /\ \A u \in Threads \ {t} : queue'[u] = queue[u]
    BY <1>1, <1>2, AppendFacts DEF Post, TypeOK
  <1>4. /\ Len(queue'[t]) = Len(queue[t]) + 1 /\ Len(queue[t]) \in Nat
        /\ \A i \in 1..Len(queue[t]) : queue'[t][i] = queue[t][i]
        /\ queue'[t][Len(queue[t]) + 1] = task
        /\ \A i \in 1..Len(queue'[t]) : i \in 1..Len(queue[t]) \/ i = Len(queue[t]) + 1
    BY <1>2, <1>3, AppendFacts
  <1>5. BatchQueued'
    <2>1. \A u \in Threads : batch'[u] \in Nat /\ batch'[u] <= Len(queue[u])
      BY Zenon DEF QueuesOK, BatchQueued, TypeOK
    <2>2. batch'[t] <= Len(queue'[t])
      BY <1>4, <2>1
    <2> QED
      BY <1>3, <2>1, <2>2, Zenon DEF BatchQueued
  <1>6. TasksAtOwner'
    <2> SUFFICES ASSUME NEW u \in Threads, NEW i \in 1..Len(queue'[u])
                 PROVE  Owner(Fd(queue'[u][i].io)) = u
      BY Zenon DEF TasksAtOwner
    <2>1. CASE u = t /\ i = Len(queue[t]) + 1
      BY <1>1, <1>4, <2>1, Zenon
    <2>2. CASE u = t /\ i \in 1..Len(queue[t])
      BY <1>4, <2>2, Zenon DEF QueuesOK, TasksAtOwner
    <2>3. CASE u # t
      BY <1>3, <2>3, Zenon DEF QueuesOK, TasksAtOwner
    <2> QED
      BY <1>4, <2>1, <2>2, <2>3, Zenon
  <1>7. QueuesAddressed'
    <2> SUFFICES ASSUME NEW u \in Threads, NEW i \in 1..Len(queue'[u]), queue'[u][i].op = "send"
                 PROVE  queue'[u][i].msg \in Msgs /\ queue'[u][i].msg[3] = queue'[u][i].io
      BY Zenon DEF QueuesAddressed
    <2>1. CASE u = t /\ i = Len(queue[t]) + 1
      BY <1>4, <2>1, Zenon
    <2>2. CASE u = t /\ i \in 1..Len(queue[t])
      BY <1>4, <2>2, Zenon DEF QueuesAddressed
    <2>3. CASE u # t
      BY <1>3, <2>3 DEF QueuesAddressed
    <2> QED
      BY <1>4, <2>1, <2>2, <2>3, Zenon
  <1>8. AddsQueued'
    <2>1. \A u \in Threads : \A i \in 1..Len(queue[u]) :
            /\ Fd(queue[u][i].io) \in Fds
            /\ queue[u][i].op \in AddOps => /\ sock'[Fd(queue[u][i].io)] = "queued"
                                            /\ sock[Fd(queue[u][i].io)] = "queued"
      BY TaskType, Zenon DEF QueuesOK, AddsQueued, KeepsQueued
    <2>2. ASSUME NEW i \in 1..Len(queue'[t]), queue'[t][i].op \in AddOps
          PROVE  /\ sock'[Fd(queue'[t][i].io)] = "queued"
                 /\ \A j \in 1..Len(queue'[t]) :
                      queue'[t][j].op \in AddOps /\ Fd(queue'[t][j].io) = Fd(queue'[t][i].io)
                        => j = i
      <3>1. ASSUME NEW j \in 1..Len(queue'[t]), queue'[t][j].op \in AddOps,
                   Fd(queue'[t][j].io) = Fd(queue'[t][i].io)
            PROVE  j = i
        <4>1. CASE i \in 1..Len(queue[t]) /\ j \in 1..Len(queue[t])
          <5>1. queue'[t][i] = queue[t][i] /\ queue'[t][j] = queue[t][j]
            BY <1>4, <4>1, Zenon
          <5> QED
            BY <2>2, <3>1, <4>1, <5>1, Zenon DEF QueuesOK, AddsQueued
        <4>2. CASE i = Len(queue[t]) + 1 /\ j \in 1..Len(queue[t])
          <5>1. queue'[t][i] = task /\ queue'[t][j] = queue[t][j]
            BY <1>4, <4>2, Zenon
          <5>2. sock[Fd(task.io)] = "queued"
            BY <2>1, <2>2, <3>1, <4>2, <5>1, Zenon
          <5> QED
            BY <2>2, <3>1, <5>1, <5>2, Zenon
        <4>3. CASE j = Len(queue[t]) + 1 /\ i \in 1..Len(queue[t])
          <5>1. queue'[t][j] = task /\ queue'[t][i] = queue[t][i]
            BY <1>4, <4>3, Zenon
          <5>2. sock[Fd(task.io)] = "queued"
            BY <2>1, <2>2, <3>1, <4>3, <5>1, Zenon
          <5> QED
            BY <2>2, <3>1, <5>1, <5>2, Zenon
        <4> QED
          BY <1>4, <4>1, <4>2, <4>3, Zenon
      <3>2. sock'[Fd(queue'[t][i].io)] = "queued"
        BY <1>4, <2>1, <2>2, Zenon
      <3> QED
        BY <3>1, <3>2, Zenon
    <2>3. ASSUME NEW u \in Threads \ {t}, NEW i \in 1..Len(queue'[u]), queue'[u][i].op \in AddOps
          PROVE  /\ sock'[Fd(queue'[u][i].io)] = "queued"
                 /\ \A j \in 1..Len(queue'[u]) :
                      queue'[u][j].op \in AddOps /\ Fd(queue'[u][j].io) = Fd(queue'[u][i].io)
                        => j = i
      BY <1>3, <2>1, <2>3 DEF QueuesOK, AddsQueued
    <2> QED
      BY <2>2, <2>3, Zenon DEF AddsQueued
  <1> QED
    BY <1>3, <1>5, <1>6, <1>7, <1>8, Zenon DEF QueuesOK

-----------------------------------------------------------------------------
(* Handlers *)

\* The part of TypeOK about the handlers.
ConnType ==
  /\ conn \in [IoIds -> {"none", "kClosed", "kConnecting", "kConnected", "listen", "freed"}]
  /\ out \in [IoIds -> Seq(Msgs)]
  /\ busy \in [IoIds -> BOOLEAN]
  /\ opened \in [IoIds -> Nat]
  /\ closed \in [IoIds -> Nat]
  /\ released \subseteq Msgs
  /\ wire \in [IoIds -> Seq(Msgs)]

SockType == sock \in [Fds -> {"closed", "setup", "queued", "registered"}]

\* Destroying handlers closes at most their fds, and empties their queues.
LEMMA DestroyFacts ==
  ASSUME TypeOK, NEW S \in SUBSET IoIds, NEW Up \in SUBSET IoIds, NEW extra \in SUBSET Msgs,
         Destroy(S, Up, extra)
  PROVE  /\ SockType'
         /\ conn' \in [IoIds -> {"none", "kClosed", "kConnecting", "kConnected", "listen", "freed"}]
         /\ out' \in [IoIds -> Seq(Msgs)] /\ busy' \in [IoIds -> BOOLEAN]
         /\ closed' \in [IoIds -> Nat] /\ released' \subseteq Msgs
         /\ \A io \in IoIds : out'[io] \in {out[io], <<>>}
         /\ \A fd \in Fds : sock'[fd] = sock[fd] \/ \E io \in S : Fd(io) = fd
  <1>1. SockType' /\ \A fd \in Fds : sock'[fd] = sock[fd] \/ \E io \in S : Fd(io) = fd
    BY Zenon DEF Destroy, TypeOK, SockType
  <1>2. conn' \in [IoIds -> {"none", "kClosed", "kConnecting", "kConnected", "listen", "freed"}]
    BY Zenon DEF Destroy, TypeOK
  <1>3. closed' \in [IoIds -> Nat]
    BY DEF Destroy, TypeOK
  <1>4. out' \in [IoIds -> Seq(Msgs)] /\ \A io \in IoIds : out'[io] \in {out[io], <<>>}
    <2>1. \A io \in IoIds : out[io] \in Seq(Msgs)
      BY Zenon DEF TypeOK
    <2>2. <<>> \in Seq(Msgs)
      OBVIOUS
    <2> QED
      BY <2>1, <2>2, Zenon DEF Destroy
  <1>5. busy' \in [IoIds -> BOOLEAN]
    BY Zenon DEF Destroy, TypeOK
  <1>6. released' \subseteq Msgs
    <2>1. \A io \in S : Elems(out[io]) \subseteq Msgs
      BY ElemsFacts, Zenon DEF TypeOK
    <2>2. released \subseteq Msgs
      BY Zenon DEF TypeOK
    <2> QED
      BY <2>1, <2>2, Zenon DEF Destroy
  <1> QED
    BY <1>1, <1>2, <1>3, <1>4, <1>5, <1>6, Zenon

\* What the invariant says of sockets, descriptors and deletions.
FdsOK == AddsSetup /\ DescOwned /\ DeletingOwn

\* RealDelFd by the owner of a registered fd.
LEMMA DeleteFacts ==
  ASSUME TypeOK, FdsOK, NEW t \in Threads, NEW fd \in Fds, desc[fd] # NoIo, Owner(fd) = t,
         Idle(t), NEW Up \in SUBSET IoIds, NEW extra \in SUBSET Msgs,
         RealDelFd(t, fd, Up, extra), UNCHANGED <<desc, posting>>
  PROVE  /\ SockType' /\ deleting' \in [Threads -> Fds \cup {NoFd}]
         /\ conn' \in [IoIds -> {"none", "kClosed", "kConnecting", "kConnected", "listen", "freed"}]
         /\ out' \in [IoIds -> Seq(Msgs)] /\ busy' \in [IoIds -> BOOLEAN]
         /\ closed' \in [IoIds -> Nat] /\ released' \subseteq Msgs
         /\ \A io \in IoIds : out'[io] \in {out[io], <<>>}
         /\ KeepsQueued /\ FdsOK'
         /\ \A u \in Threads \ {t} : deleting'[u] = deleting[u]
  <1>1. desc[fd] \in IoIds /\ Fd(desc[fd]) = fd
    BY Zenon DEF TypeOK, FdsOK, DescOwned
  <1>2. sock[fd] = "registered"
    BY IoType, Zenon DEF FdsOK, DescOwned, Idle
  <1>3. /\ Destroy({desc[fd]}, Up, extra) /\ deleting' = [deleting EXCEPT ![t] = fd]
        /\ {desc[fd]} \in SUBSET IoIds
    BY <1>1, Zenon DEF RealDelFd
  <1>4. /\ deleting' \in [Threads -> Fds \cup {NoFd}] /\ deleting'[t] = fd
        /\ \A u \in Threads \ {t} : deleting'[u] = deleting[u]
    BY <1>3, Zenon DEF TypeOK
  <1>5. \A f \in Fds : f # fd => sock'[f] = sock[f]
    BY <1>1, <1>3, DestroyFacts, Zenon
  <1>6. KeepsQueued
    BY <1>2, <1>5, Zenon DEF KeepsQueued
  <1>7. AddsSetup'
    <2>1. \A c \in Clients : posting[c].op \in AddOps => Fd(posting[c].io) \in Fds
      BY PostingType, Zenon
    <2> QED
      BY <1>2, <1>5, <2>1, Zenon DEF FdsOK, AddsSetup
  <1>8. DescOwned'
    <2> SUFFICES ASSUME NEW f \in Fds, desc[f] # NoIo
                 PROVE  /\ Fd(desc[f]) = f
                        /\ sock'[f] = "registered" \/ deleting'[Owner(f)] = f
      BY Zenon DEF DescOwned
    <2>1. CASE f = fd
      BY <1>1, <1>4, <2>1, Zenon
    <2>2. CASE f # fd
      <3>1. deleting[t] # f
        BY IoType, Zenon DEF Idle
      <3> QED
        BY <1>4, <1>5, <2>2, <3>1, OwnerType, Zenon DEF FdsOK, DescOwned
    <2> QED
      BY <2>1, <2>2, Zenon
  <1>9. DeletingOwn'
    BY <1>4, Zenon DEF FdsOK, DeletingOwn
  <1> QED
    BY <1>3, <1>4, <1>6, <1>7, <1>8, <1>9, DestroyFacts, Zenon DEF FdsOK

-----------------------------------------------------------------------------
(* Sending *)

\* A step that leaves sockets and deletions alone.
LEMMA SameFds ==
  ASSUME FdsOK, UNCHANGED <<sock, desc, deleting, posting>>
  PROVE  FdsOK' /\ KeepsQueued
  BY Zenon DEF FdsOK, AddsSetup, DescOwned, DeletingOwn, KeepsQueued

\* What sending does to everything the invariant speaks of.
SendEffect(t) ==
  /\ SockType' /\ deleting' \in [Threads -> Fds \cup {NoFd}]
  /\ ConnType'
  /\ KeepsQueued /\ FdsOK'
  /\ NoMisdelivery'
  /\ \A u \in Threads \ {t} : deleting'[u] = deleting[u]

\* Messages of q leave for the wire of io, or stay in its queue.
LEMMA SendSomeFacts ==
  ASSUME TypeOK, FdsOK, NoMisdelivery, NEW t \in Threads, NEW io \in IoIds,
         NEW q \in Seq(Msgs), \A m \in Elems(q) : m[3] = io,
         SendSome(io, q), UNCHANGED <<desc, posting>>,
         conn' \in [IoIds -> {"none", "kClosed", "kConnecting", "kConnected", "listen", "freed"}],
         opened' \in [IoIds -> Nat]
  PROVE  SendEffect(t)
  <1>1. PICK k \in 0..Len(q) :
          /\ wire' = [wire EXCEPT ![io] = @ \o SubSeq(q, 1, k)]
          /\ released' = released \cup Elems(SubSeq(q, 1, k))
          /\ out' = [out EXCEPT ![io] = SubSeq(q, k + 1, Len(q))]
          /\ busy' = [busy EXCEPT ![io] = k < Len(q)]
          /\ UNCHANGED <<deleting, sock, closed>>
    BY Zenon DEF SendSome
  <1> DEFINE w == SubSeq(q, 1, k)
             r == SubSeq(q, k + 1, Len(q))
  <1>2. w \in Seq(Msgs) /\ r \in Seq(Msgs) /\ Elems(w) \subseteq Elems(q) /\ Elems(r) \subseteq Elems(q)
    BY PartFacts, Zenon
  <1>3. wire[io] \in Seq(Msgs) /\ Elems(q) \subseteq Msgs
    BY ElemsFacts, Zenon DEF TypeOK
  <1> HIDE DEF w, r
  <1>4. wire[io] \o w \in Seq(Msgs) /\ Elems(wire[io] \o w) = Elems(wire[io]) \cup Elems(w)
    BY <1>2, <1>3, ElemsFacts
  <1>5. wire' = [wire EXCEPT ![io] = wire[io] \o w] /\ out' = [out EXCEPT ![io] = r]
    BY <1>1, Zenon DEF w, r
  <1>6. released' \subseteq Msgs
    BY <1>1, <1>2, <1>3, Zenon DEF TypeOK, w
  <1>7. busy' \in [IoIds -> BOOLEAN]
    BY <1>1 DEF TypeOK
  <1>8. wire' \in [IoIds -> Seq(Msgs)] /\ out' \in [IoIds -> Seq(Msgs)]
    BY <1>2, <1>4, <1>5, Zenon DEF TypeOK
  <1>9. ConnType'
    BY <1>1, <1>6, <1>7, <1>8, Zenon DEF TypeOK, ConnType
  <1>10. NoMisdelivery'
    <2> SUFFICES ASSUME NEW x \in IoIds, NEW m \in Elems(out'[x]) \cup Elems(wire'[x])
                 PROVE  m[3] = x
      BY Zenon DEF NoMisdelivery
    <2>1. CASE x = io
      <3>1. out'[x] = r /\ wire'[x] = wire[io] \o w
        BY <1>5, <2>1, Zenon DEF TypeOK
      <3>2. m \in Elems(q) \/ m \in Elems(wire[io])
        BY <1>2, <1>4, <3>1, Zenon
      <3> QED
        BY <2>1, <3>2, Zenon DEF NoMisdelivery
    <2>2. CASE x # io
      <3>1. out'[x] = out[x] /\ wire'[x] = wire[x]
        BY <1>5, <2>2, Zenon DEF TypeOK
      <3> QED
        BY <3>1, Zenon DEF NoMisdelivery
    <2> QED
      BY <2>1, <2>2, Zenon
  <1>11. FdsOK' /\ KeepsQueued
    BY <1>1, SameFds, Zenon
  <1> QED
    BY <1>1, <1>9, <1>10, <1>11, Zenon DEF SendEffect, SockType, TypeOK

LEMMA SendFailsFacts ==
  ASSUME TypeOK, FdsOK, NoMisdelivery, NEW t \in Threads, NEW io \in IoIds,
         desc[Fd(io)] = io, Owner(Fd(io)) = t, Idle(t),
         NEW q \in Seq(Msgs), \A m \in Elems(q) : m[3] = io,
         SendFails(t, io, q), UNCHANGED <<desc, posting>>, opened' \in [IoIds -> Nat]
  PROVE  SendEffect(t)
  <1>1. PICK k \in 0..(Len(q) - 1) :
          /\ wire' = [wire EXCEPT ![io] = @ \o SubSeq(q, 1, k)]
          /\ RealDelFd(t, Fd(io), {io}, Elems(q))
    BY Zenon DEF SendFails
  <1> DEFINE w == SubSeq(q, 1, k)
  <1>2. w \in Seq(Msgs) /\ Elems(w) \subseteq Elems(q)
    <2>1. k \in 0..Len(q)
      OBVIOUS
    <2> QED
      BY <2>1, PartFacts, Zenon
  <1>3. wire[io] \in Seq(Msgs) /\ Elems(q) \in SUBSET Msgs /\ {io} \in SUBSET IoIds
    BY ElemsFacts DEF TypeOK
  <1> HIDE DEF w
  <1>4. wire[io] \o w \in Seq(Msgs) /\ Elems(wire[io] \o w) = Elems(wire[io]) \cup Elems(w)
    BY <1>2, <1>3, ElemsFacts
  <1>5. wire' = [wire EXCEPT ![io] = wire[io] \o w]
    BY <1>1, Zenon DEF w
  <1>6. Fd(io) \in Fds /\ desc[Fd(io)] # NoIo
    BY IoType, Zenon
  <1>7. /\ SockType' /\ deleting' \in [Threads -> Fds \cup {NoFd}]
        /\ conn' \in [IoIds -> {"none", "kClosed", "kConnecting", "kConnected", "listen", "freed"}]
        /\ out' \in [IoIds -> Seq(Msgs)] /\ busy' \in [IoIds -> BOOLEAN]
        /\ closed' \in [IoIds -> Nat] /\ released' \subseteq Msgs
        /\ \A x \in IoIds : out'[x] \in {out[x], <<>>}
        /\ KeepsQueued /\ FdsOK'
        /\ \A u \in Threads \ {t} : deleting'[u] = deleting[u]
    BY <1>1, <1>3, <1>6, DeleteFacts, Zenon
  <1>8. wire' \in [IoIds -> Seq(Msgs)]
    BY <1>4, <1>5, Zenon DEF TypeOK
  <1>9. ConnType'
    BY <1>7, <1>8, Zenon DEF ConnType
  <1>10. NoMisdelivery'
    <2> SUFFICES ASSUME NEW x \in IoIds, NEW m \in Elems(out'[x]) \cup Elems(wire'[x])
                 PROVE  m[3] = x
      BY Zenon DEF NoMisdelivery
    <2>1. Elems(out'[x]) \subseteq Elems(out[x])
      BY <1>7, ElemsFacts, Zenon
    <2>2. CASE x = io
      <3>1. wire'[x] = wire[io] \o w
        BY <1>5, <2>2, Zenon DEF TypeOK
      <3>2. m \in Elems(q) \/ m \in Elems(wire[io]) \cup Elems(out[io])
        BY <1>2, <1>4, <2>1, <2>2, <3>1, Zenon
      <3> QED
        BY <2>2, <3>2, Zenon DEF NoMisdelivery
    <2>3. CASE x # io
      <3>1. wire'[x] = wire[x]
        BY <1>5, <2>3, Zenon DEF TypeOK
      <3> QED
        BY <2>1, <3>1, Zenon DEF NoMisdelivery
    <2> QED
      BY <2>2, <2>3, Zenon
  <1> QED
    BY <1>7, <1>9, <1>10, Zenon DEF SendEffect

\* RealSendMsg on the thread that owns the fd.
LEMMA RealSendFacts ==
  ASSUME TypeOK, FdsOK, NoMisdelivery, NEW t \in Threads, NEW io \in IoIds,
         Owner(Fd(io)) = t, Idle(t), NEW m \in Msgs, m[3] = io,
         RealSendMsg(t, io, m), UNCHANGED <<desc, posting>>
  PROVE  SendEffect(t)
  <1>1. opened' \in [IoIds -> Nat]
    BY Zenon DEF RealSendMsg, TypeOK
  <1>2. out[io] \in Seq(Msgs) /\ \A x \in Elems(out[io]) : x[3] = io
    BY Zenon DEF TypeOK, NoMisdelivery
  <1> DEFINE q == Append(out[io], m)
  <1>3. q \in Seq(Msgs) /\ Elems(q) = Elems(out[io]) \cup {m}
    BY <1>2, ElemsFacts, AppendFacts
  <1> HIDE DEF q
  <1>4. CASE desc[Fd(io)] # io
    <2>1. released' = released \cup {m} /\ UNCHANGED <<deleting, sock, closed, conn, out, busy, wire>>
      BY <1>4, Zenon DEF RealSendMsg
    <2>2. ConnType' /\ SockType' /\ deleting' \in [Threads -> Fds \cup {NoFd}]
      BY <1>1, <2>1, Zenon DEF TypeOK, ConnType, SockType
    <2>3. NoMisdelivery'
      BY <2>1, Zenon DEF NoMisdelivery
    <2> QED
      BY <2>1, <2>2, <2>3, SameFds, Zenon DEF SendEffect
  <1>5. CASE desc[Fd(io)] = io
    <2>1. HandlerSend(t, io, m)
      BY <1>5, Zenon DEF RealSendMsg
    <2>2. CASE /\ out' = [out EXCEPT ![io] = q]
               /\ UNCHANGED <<deleting, sock, closed, conn, busy, released, wire>>
      <3>1. ConnType' /\ SockType' /\ deleting' \in [Threads -> Fds \cup {NoFd}]
        BY <1>1, <1>3, <2>2, Zenon DEF TypeOK, ConnType, SockType
      <3>2. \A x \in IoIds : out'[x] = IF x = io THEN q ELSE out[x]
        BY <2>2, Zenon DEF TypeOK
      <3>3. NoMisdelivery'
        BY <1>2, <1>3, <2>2, <3>2 DEF NoMisdelivery
      <3> QED
        BY <2>2, <3>1, <3>3, SameFds, Zenon DEF SendEffect
    <2>3. CASE SendSome(io, q) /\ UNCHANGED conn
      <3>1. conn' \in [IoIds -> {"none", "kClosed", "kConnecting", "kConnected", "listen", "freed"}]
        BY <2>3, Zenon DEF TypeOK
      <3> QED
        BY <1>1, <1>2, <1>3, <2>3, <3>1, SendSomeFacts, Zenon
    <2>4. CASE SendFails(t, io, q)
      BY <1>1, <1>2, <1>3, <1>5, <2>4, SendFailsFacts, Zenon
    <2> QED
      BY <2>1, <2>2, <2>3, <2>4, Zenon DEF HandlerSend, q
  <1> QED
    BY <1>4, <1>5, Zenon
=============================================================================
