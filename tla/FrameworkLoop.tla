--------------------------- MODULE FrameworkLoop ---------------------------
(***************************************************************************)
(* The invariant of Framework in parts, and that the steps of a framework  *)
(* thread keep it: its loop, its tasks, its events and the calls made from *)
(* its callbacks on connections that exist.                                *)
(***************************************************************************)
EXTENDS FrameworkLemmas

-----------------------------------------------------------------------------
(* The invariant in parts *)

CtlType ==
  /\ status \in {"kUninit", "kInit", "kStart"}
  /\ main \in {"up", "stopping", "stopped", "noFds", "noTasks", "noThreads"}
  /\ running \in [Threads -> BOOLEAN]
  /\ phase \in [Threads -> {"new", "events", "tasks", "exited"}]

QueueType == queue \in [Threads -> Seq(Tasks)] /\ batch \in [Threads -> Nat]

DelType == deleting \in [Threads -> Fds \cup {NoFd}]

SaltType == salt \in [Fds -> 0..MaxSalt]

DescType == desc \in [Fds -> IoIds \cup {NoIo}]

ApiType ==
  /\ posting \in [Clients -> Tasks \cup {NoTask}]
  /\ known \subseteq IoIds
  /\ nmsg \in [Senders -> 0..MaxMsgs]
  /\ ret \in [IoIds -> {"none", "0", "1", "fail"}]

CrashType == crash \in {"no", "assert", "divide", "null", "double_free"}

\* What all the proofs of a step start from, and what they end with.
Parts ==
  /\ CtlType /\ QueueType /\ DelType /\ SockType /\ SaltType /\ DescType /\ ConnType
  /\ ApiType /\ CrashType
  /\ QueuesOK /\ QueuesAddressed /\ FdsOK /\ ExitedQuiet /\ PostingAddressed /\ NoMisdelivery

LEMMA IndInvParts == (IndInv <=> TypeOK /\ Parts) /\ (Parts' => IndInv')
  <1>1. TypeOK => /\ CtlType /\ QueueType /\ DelType /\ SockType /\ SaltType /\ DescType
                  /\ ConnType /\ ApiType /\ CrashType
    BY Zenon DEF TypeOK, CtlType, QueueType, DelType, SockType, SaltType, DescType, ConnType,
           ApiType, CrashType
  <1>2. Owned /\ Addressed <=> QueuesOK /\ QueuesAddressed /\ FdsOK /\ ExitedQuiet /\ PostingAddressed
    BY Zenon DEF Owned, Addressed, QueuesOK, QueuesAddressed, FdsOK, PostingAddressed
  <1>3. Parts' => TypeOK'
    BY Zenon DEF Parts, TypeOK, CtlType, QueueType, DelType, SockType, SaltType, DescType, ConnType,
           ApiType, CrashType
  <1>4. Parts' => Owned' /\ Addressed'
    BY Zenon DEF Parts, Owned, Addressed, QueuesOK, QueuesAddressed, FdsOK, PostingAddressed
  <1>5. Parts' => NoMisdelivery'
    BY Zenon DEF Parts
  <1> QED
    BY <1>1, <1>2, <1>3, <1>4, <1>5, Zenon DEF IndInv, Parts

\* A step of a thread that has not ended.
LEMMA SameExit ==
  ASSUME ExitedQuiet, UNCHANGED <<phase, main>>,
         \A u \in Threads : phase[u] = "exited" => deleting'[u] = deleting[u] /\ batch'[u] = batch[u]
  PROVE  ExitedQuiet'
  BY Zenon DEF ExitedQuiet, Idle

LEMMA SamePosting ==
  ASSUME PostingAddressed, UNCHANGED posting
  PROVE  PostingAddressed'
  BY Zenon DEF PostingAddressed

LEMMA SameMessages ==
  ASSUME NoMisdelivery, UNCHANGED wire, \A io \in IoIds : out'[io] \in {out[io], <<>>}
  PROVE  NoMisdelivery'
  BY ElemsFacts, Zenon DEF NoMisdelivery

-----------------------------------------------------------------------------
(* The loop *)

LEMMA FreeFdStep ==
  ASSUME IndInv, NEW t \in Threads, FreeFd(t), UNCHANGED crash
  PROVE  IndInv'
  <1>1. TypeOK /\ Parts
    BY IndInvParts, Zenon
  <1> DEFINE fd == deleting[t]
  <1>2. fd \in Fds /\ Owner(fd) = t
    BY <1>1, Zenon DEF FreeFd, TypeOK, Parts, FdsOK, DeletingOwn
  <1>3. /\ desc' = [desc EXCEPT ![fd] = NoIo] /\ deleting' = [deleting EXCEPT ![t] = NoFd]
        /\ UNCHANGED <<status, main, running, phase, queue, batch, sock, salt,
                       connVars, posting, known, nmsg, ret>>
    BY Zenon DEF FreeFd
  <1>4. /\ DescType' /\ desc'[fd] = NoIo
        /\ \A f \in Fds : f # fd => desc'[f] = desc[f]
    BY <1>1, <1>2, <1>3, Zenon DEF TypeOK, DescType
  <1>5. /\ DelType' /\ deleting'[t] = NoFd
        /\ \A u \in Threads \ {t} : deleting'[u] = deleting[u]
    BY <1>1, <1>3, Zenon DEF TypeOK, DelType
  <1>6. AddsSetup' /\ KeepsQueued
    BY <1>1, <1>3, Zenon DEF Parts, FdsOK, AddsSetup, KeepsQueued
  <1>7. DescOwned'
    <2> SUFFICES ASSUME NEW f \in Fds, desc'[f] # NoIo
                 PROVE  /\ Fd(desc'[f]) = f
                        /\ sock'[f] = "registered" \/ deleting'[Owner(f)] = f
      BY Zenon DEF DescOwned
    <2>1. f # fd /\ desc'[f] = desc[f]
      BY <1>4, Zenon
    <2>2. Fd(desc[f]) = f /\ (sock[f] = "registered" \/ deleting[Owner(f)] = f)
      BY <1>1, <2>1, Zenon DEF Parts, FdsOK, DescOwned
    <2> QED
      BY <1>3, <1>5, <2>1, <2>2, OwnerType, Zenon
  <1>8. DeletingOwn'
    BY <1>1, <1>5, Zenon DEF Parts, FdsOK, DeletingOwn
  <1>9. ExitedQuiet'
    BY <1>1, <1>3, <1>5, Zenon DEF Parts, ExitedQuiet, Idle
  <1>10. QueuesOK' /\ QueuesAddressed'
    BY <1>1, <1>3, <1>6, SameQueue, Zenon DEF Parts
  <1>11. NoMisdelivery' /\ PostingAddressed'
    BY <1>1, <1>3, SamePosting, Zenon DEF Parts, NoMisdelivery, connVars
  <1>12. CtlType' /\ QueueType' /\ SockType' /\ SaltType' /\ ConnType' /\ ApiType' /\ CrashType'
    BY <1>1, <1>3, Zenon DEF Parts, CtlType, QueueType, SockType, SaltType, ConnType, connVars, ApiType,
                      CrashType
  <1>13. Parts'
    BY <1>4, <1>5, <1>6, <1>7, <1>8, <1>9, <1>10, <1>11, <1>12, Zenon DEF Parts, FdsOK
  <1> QED
    BY <1>13, IndInvParts, Zenon

\* LoopSwap and LoopNext.
LEMMA LoopStepFacts ==
  ASSUME IndInv, NEW t \in Threads, LoopSwap(t) \/ LoopNext(t), UNCHANGED crash
  PROVE  IndInv'
  <1>1. TypeOK /\ Parts
    BY IndInvParts, Zenon
  <1>2. /\ UNCHANGED <<status, main, running, queue, deleting, sock, salt, desc,
                       connVars, posting, known, nmsg, ret>>
        /\ phase[t] \in {"events", "tasks"} /\ Idle(t)
    BY Zenon DEF LoopSwap, LoopNext, InEvents
  <1>3. Len(queue[t]) \in Nat
    BY <1>1, TaskType, Zenon
  <1>4. /\ phase'[t] = "exited" => batch'[t] = 0
        /\ \A u \in Threads \ {t} : phase'[u] = phase[u] /\ batch'[u] = batch[u]
        /\ batch'[t] <= Len(queue[t])
        /\ batch' \in [Threads -> Nat]
        /\ phase' \in [Threads -> {"new", "events", "tasks", "exited"}]
    <2>1. CASE LoopSwap(t)
      BY <1>1, <1>3, <2>1 DEF LoopSwap, TypeOK
    <2>2. CASE LoopNext(t)
      BY <1>1, <1>3, <2>2 DEF LoopNext, TypeOK
    <2> QED
      BY <2>1, <2>2, Zenon
  <1>5. ExitedQuiet'
    BY <1>1, <1>2, <1>3, <1>4, Zenon DEF Parts, ExitedQuiet, Idle
  <1>6. QueuesOK' /\ QueuesAddressed'
    <2>1. BatchQueued'
      BY <1>1, <1>2, <1>3, <1>4, Zenon DEF Parts, QueuesOK, BatchQueued
    <2>2. TasksAtOwner' /\ AddsQueued' /\ QueuesAddressed'
      BY <1>1, <1>2 DEF Parts, QueuesOK, TasksAtOwner, AddsQueued, QueuesAddressed
    <2> QED
      BY <2>1, <2>2, Zenon DEF QueuesOK
  <1>7. FdsOK' /\ PostingAddressed' /\ NoMisdelivery'
    BY <1>1, <1>2, SameFds, SamePosting, Zenon DEF Parts, NoMisdelivery, connVars
  <1>8. /\ CtlType' /\ QueueType' /\ DelType' /\ SockType' /\ SaltType' /\ DescType' /\ ConnType'
        /\ ApiType' /\ CrashType'
    BY <1>1, <1>2, <1>4, Zenon DEF Parts, CtlType, QueueType, DelType, SockType, SaltType, DescType,
                            ConnType, connVars, ApiType, CrashType
  <1>9. Parts'
    BY <1>5, <1>6, <1>7, <1>8, Zenon DEF Parts
  <1> QED
    BY <1>9, IndInvParts, Zenon

-----------------------------------------------------------------------------
(* The tasks *)

\* A thread about to register an fd finds its descriptor unused.
LEMMA AddFree ==
  ASSUME IndInv, NEW t \in Threads, InTasks(t), Head(queue[t]).op \in AddOps
  PROVE  desc[Fd(Head(queue[t]).io)] = NoIo
  <1>1. TypeOK /\ QueuesOK /\ QueuesAddressed /\ FdsOK
    BY IndInvParts, Zenon DEF Parts
  <1>2. PICK fd \in Fds : fd = Fd(Head(queue[t]).io) /\ sock[fd] = "queued" /\ Owner(fd) = t
    BY <1>1, PopHead, Zenon
  <1>3. deleting[t] # fd
    BY IoType, Zenon DEF InTasks, Idle
  <1> QED
    BY <1>1, <1>2, <1>3, Zenon DEF FdsOK, DescOwned

LEMMA RunAddStep ==
  ASSUME IndInv, NEW t \in Threads, RunAdd(t), UNCHANGED crash
  PROVE  IndInv'
  <1>1. TypeOK /\ Parts
    BY IndInvParts, Zenon
  <1>2. Pop(t) /\ InTasks(t) /\ Head(queue[t]).op \in AddOps
    BY Zenon DEF RunAdd, Pop
  <1>3. desc[Fd(Head(queue[t]).io)] = NoIo
    BY <1>2, AddFree, Zenon
  <1>4. PICK io \in IoIds : io = Head(queue[t]).io
    BY <1>1, <1>2, PopHead, Zenon DEF Tasks, Parts
  <1>5. PICK fd \in Fds : fd = Fd(io) /\ Owner(fd) = t /\ sock[fd] = "queued" /\ desc[fd] = NoIo
    BY <1>1, <1>2, <1>3, <1>4, PopHead, Zenon DEF Parts
  <1>6. /\ desc' = [desc EXCEPT ![fd] = io]
        /\ sock' = [sock EXCEPT ![fd] = "registered"]
        /\ conn' = [conn EXCEPT ![io] = IF Head(queue[t]).op = "addAccept" THEN "kConnected" ELSE @]
        /\ opened' = [opened EXCEPT ![io] = IF Head(queue[t]).op = "addAccept" THEN @ + 1 ELSE @]
        /\ known' = known \cup IF Head(queue[t]).op = "addAccept" THEN {io} ELSE {}
        /\ UNCHANGED <<out, busy, closed, released, deleting, wire>>
    BY <1>4, <1>5, Zenon DEF RunAdd
  <1>7. UNCHANGED <<status, main, running, phase, salt, posting, nmsg, ret>>
    BY <1>2, Zenon DEF Pop
  <1>8. /\ DescType' /\ SockType'
        /\ desc'[fd] = io /\ sock'[fd] = "registered"
        /\ \A f \in Fds : f # fd => desc'[f] = desc[f] /\ sock'[f] = sock[f]
    BY <1>1, <1>6, Zenon DEF TypeOK, DescType, SockType
  <1>9. ConnType'
    BY <1>1, <1>6 DEF TypeOK, ConnType
  <1>10. QueueType' /\ QueuesOK' /\ QueuesAddressed'
    BY <1>1, <1>2, <1>4, <1>5, <1>8, PopQueue, Zenon DEF Parts, QueueType
  <1>11. DescOwned'
    BY <1>1, <1>5, <1>6, <1>8 DEF Parts, FdsOK, DescOwned
  <1>12. AddsSetup'
    <2>1. \A c \in Clients : posting[c].op \in AddOps => Fd(posting[c].io) \in Fds
      BY <1>1, PostingType, Zenon
    <2> QED
      BY <1>1, <1>5, <1>7, <1>8, <2>1, Zenon DEF Parts, FdsOK, AddsSetup
  <1>13. DeletingOwn' /\ PostingAddressed' /\ NoMisdelivery'
    BY <1>1, <1>6, <1>7, SamePosting, Zenon DEF Parts, FdsOK, DeletingOwn, NoMisdelivery
  <1>14. ExitedQuiet'
    BY <1>1, <1>2, <1>6, <1>7, SameExit, Zenon DEF Parts, Pop, InTasks, TypeOK
  <1>15. CtlType' /\ DelType' /\ SaltType' /\ ApiType' /\ CrashType'
    BY <1>1, <1>6, <1>7, Zenon DEF Parts, CtlType, DelType, SaltType, ApiType, CrashType
  <1>16. Parts'
    BY <1>8, <1>9, <1>10, <1>11, <1>12, <1>13, <1>14, <1>15, Zenon DEF Parts, FdsOK
  <1> QED
    BY <1>16, IndInvParts, Zenon

\* RunSend, RunClose and RunReactivate: taking a task that registers nothing.
LEMMA RunOther ==
  ASSUME IndInv, NEW t \in Threads, Pop(t), SendEffect(t), UNCHANGED <<desc, known>>, CrashType'
  PROVE  IndInv'
  <1>1. TypeOK /\ Parts
    BY IndInvParts, Zenon
  <1>2. /\ InTasks(t) /\ UNCHANGED <<status, main, running, phase, salt, posting, nmsg, ret>>
        /\ \A u \in Threads \ {t} : batch'[u] = batch[u]
    BY <1>1, Zenon DEF Pop, TypeOK
  <1>3. /\ SockType' /\ DelType' /\ ConnType' /\ KeepsQueued /\ FdsOK' /\ NoMisdelivery'
        /\ \A u \in Threads \ {t} : deleting'[u] = deleting[u]
    BY Zenon DEF SendEffect, DelType
  <1>4. QueueType' /\ QueuesOK' /\ QueuesAddressed'
    BY <1>1, <1>3, PopQueue, Zenon DEF Parts, QueueType, KeepsQueued
  <1>5. ExitedQuiet'
    BY <1>1, <1>2, <1>3, SameExit, Zenon DEF Parts, InTasks
  <1>6. CtlType' /\ SaltType' /\ DescType' /\ ApiType' /\ PostingAddressed'
    BY <1>1, <1>2, SamePosting, Zenon DEF Parts, CtlType, SaltType, DescType, ApiType
  <1>7. Parts'
    BY <1>3, <1>4, <1>5, <1>6, Zenon DEF Parts
  <1> QED
    BY <1>7, IndInvParts, Zenon

LEMMA RunSendStep ==
  ASSUME IndInv, NEW t \in Threads, RunSend(t), UNCHANGED crash
  PROVE  IndInv'
  <1>1. TypeOK /\ Parts
    BY IndInvParts, Zenon
  <1>2. /\ Pop(t) /\ InTasks(t) /\ Head(queue[t]).op = "send" /\ UNCHANGED <<desc, known>>
        /\ RealSendMsg(t, Head(queue[t]).io, Head(queue[t]).msg)
        /\ UNCHANGED posting /\ Idle(t)
    BY Zenon DEF RunSend, Pop, InTasks
  <1>3. PICK io \in IoIds, m \in Msgs :
          io = Head(queue[t]).io /\ m = Head(queue[t]).msg /\ m[3] = io /\ Owner(Fd(io)) = t
    BY <1>1, <1>2, PopHead, Zenon DEF Tasks, Parts
  <1>4. SendEffect(t)
    BY <1>1, <1>2, <1>3, RealSendFacts, Zenon DEF Parts
  <1> QED
    BY <1>1, <1>2, <1>4, RunOther, Zenon DEF Parts, CrashType

\* RealDelFd in a task or an event, with nothing written.
LEMMA DeleteEffect ==
  ASSUME IndInv, NEW t \in Threads, NEW fd \in Fds, desc[fd] # NoIo, Owner(fd) = t, Idle(t),
         NEW Up \in SUBSET IoIds, RealDelFd(t, fd, Up, {}),
         UNCHANGED <<desc, posting, opened, wire>>
  PROVE  SendEffect(t)
  <1>1. TypeOK /\ FdsOK /\ NoMisdelivery /\ {} \in SUBSET Msgs
    BY IndInvParts, Zenon DEF Parts
  <1>2. /\ SockType' /\ deleting' \in [Threads -> Fds \cup {NoFd}]
        /\ conn' \in [IoIds -> {"none", "kClosed", "kConnecting", "kConnected", "listen", "freed"}]
        /\ out' \in [IoIds -> Seq(Msgs)] /\ busy' \in [IoIds -> BOOLEAN]
        /\ closed' \in [IoIds -> Nat] /\ released' \subseteq Msgs
        /\ \A io \in IoIds : out'[io] \in {out[io], <<>>}
        /\ KeepsQueued /\ FdsOK'
        /\ \A u \in Threads \ {t} : deleting'[u] = deleting[u]
    BY <1>1, DeleteFacts, Zenon
  <1>3. ConnType'
    BY <1>1, <1>2, Zenon DEF ConnType, TypeOK
  <1>4. NoMisdelivery'
    BY <1>1, <1>2, SameMessages, Zenon
  <1> QED
    BY <1>2, <1>3, <1>4, Zenon DEF SendEffect

\* The handlers that get OnClosed.
LEMMA ConnectedType ==
  ASSUME TypeOK, NEW fd \in Fds, desc[fd] # NoIo
  PROVE  Connected({desc[fd]}) \in SUBSET IoIds
  BY Zenon DEF Connected, TypeOK

\* A step that leaves sockets and handlers alone, seen as SendEffect.
LEMMA NoEffect ==
  ASSUME IndInv, NEW t \in Threads, UNCHANGED <<sock, desc, deleting, posting, connVars>>
  PROVE  SendEffect(t)
  <1>1. TypeOK /\ Parts
    BY IndInvParts, Zenon
  <1>2. FdsOK' /\ KeepsQueued
    BY <1>1, SameFds, Zenon DEF Parts
  <1>3. SockType' /\ DelType' /\ ConnType' /\ NoMisdelivery'
    BY <1>1, Zenon DEF Parts, SockType, DelType, ConnType, NoMisdelivery, connVars
  <1> QED
    BY <1>2, <1>3, Zenon DEF SendEffect, DelType

LEMMA RunCloseStep ==
  ASSUME IndInv, NEW t \in Threads, RunClose(t), UNCHANGED crash
  PROVE  IndInv'
  <1>1. TypeOK /\ Parts
    BY IndInvParts, Zenon
  <1>2. Pop(t) /\ InTasks(t) /\ Idle(t) /\ UNCHANGED <<desc, known, posting>>
    BY Zenon DEF RunClose, Pop, InTasks
  <1>3. PICK fd \in Fds : fd = Fd(Head(queue[t]).io) /\ Owner(fd) = t
    BY <1>1, <1>2, PopHead, Zenon DEF Parts
  <1>4. SendEffect(t)
    <2>1. CASE desc[fd] = NoIo
      <3>1. UNCHANGED <<deleting, sock, connVars>>
        BY <1>3, <2>1, Zenon DEF RunClose
      <3> QED
        BY <1>2, <3>1, NoEffect, Zenon
    <2>2. CASE desc[fd] # NoIo
      <3>1. RealDelFd(t, fd, Connected({desc[fd]}), {}) /\ UNCHANGED <<opened, wire>>
        BY <1>3, <2>2, Zenon DEF RunClose
      <3> QED
        BY <1>1, <1>2, <1>3, <2>2, <3>1, ConnectedType, DeleteEffect, Zenon
    <2> QED
      BY <2>1, <2>2, Zenon
  <1> QED
    BY <1>1, <1>2, <1>4, RunOther, Zenon DEF Parts, CrashType

LEMMA RunReactivateStep ==
  ASSUME IndInv, NEW t \in Threads, RunReactivate(t)
  PROVE  IndInv'
  <1>1. TypeOK /\ Parts
    BY IndInvParts, Zenon
  <1>2. Pop(t) /\ UNCHANGED <<deleting, sock, connVars, desc, known, posting>>
    BY Zenon DEF RunReactivate, Pop
  <1>3. CrashType'
    BY <1>1, Zenon DEF RunReactivate, Parts, CrashType
  <1> QED
    BY <1>2, <1>3, NoEffect, RunOther, Zenon

-----------------------------------------------------------------------------
(* Events, and calls made from callbacks *)

\* A step of a running thread that leaves the queues alone.
LEMMA ThreadStep ==
  ASSUME IndInv, NEW t \in Threads, phase[t] # "exited", SendEffect(t),
         UNCHANGED <<status, main, running, phase, queue, batch, salt, desc, posting, known, ret, crash>>,
         nmsg' \in [Senders -> 0..MaxMsgs]
  PROVE  IndInv'
  <1>1. TypeOK /\ Parts
    BY IndInvParts, Zenon
  <1>2. /\ SockType' /\ DelType' /\ ConnType' /\ KeepsQueued /\ FdsOK' /\ NoMisdelivery'
        /\ \A u \in Threads \ {t} : deleting'[u] = deleting[u]
    BY Zenon DEF SendEffect, DelType
  <1>3. QueuesOK' /\ QueuesAddressed'
    BY <1>1, <1>2, SameQueue, Zenon DEF Parts
  <1>4. ExitedQuiet'
    BY <1>1, <1>2, SameExit, Zenon DEF Parts
  <1>5. CtlType' /\ QueueType' /\ SaltType' /\ DescType' /\ ApiType' /\ CrashType' /\ PostingAddressed'
    BY <1>1, SamePosting, Zenon DEF Parts, CtlType, QueueType, SaltType, DescType, ApiType, CrashType
  <1>6. Parts'
    BY <1>2, <1>3, <1>4, <1>5, Zenon DEF Parts
  <1> QED
    BY <1>6, IndInvParts, Zenon

\* OnReadEnds and ConnectFails.
LEMMA EndStep ==
  ASSUME IndInv, NEW t \in Threads, NEW fd \in Fds, OnReadEnds(t, fd) \/ ConnectFails(t, fd),
         UNCHANGED crash
  PROVE  IndInv'
  <1>1. TypeOK /\ Parts
    BY IndInvParts, Zenon
  <1>2. /\ phase[t] # "exited" /\ Idle(t) /\ Owner(fd) = t /\ desc[fd] # NoIo
        /\ UNCHANGED <<status, main, running, phase, queue, batch, salt, desc,
                       opened, wire, posting, known, nmsg, ret>>
    BY Zenon DEF OnReadEnds, ConnectFails, EventOn, InEvents
  <1>3. PICK Up \in SUBSET IoIds : RealDelFd(t, fd, Up, {})
    BY <1>1, <1>2, ConnectedType, Zenon DEF OnReadEnds, ConnectFails
  <1>4. SendEffect(t)
    BY <1>2, <1>3, DeleteEffect, Zenon
  <1> QED
    BY <1>1, <1>2, <1>4, ThreadStep, Zenon DEF TypeOK

LEMMA OnWriteStep ==
  ASSUME IndInv, NEW t \in Threads, NEW fd \in Fds, OnWrite(t, fd), UNCHANGED crash
  PROVE  IndInv'
  <1>1. TypeOK /\ Parts
    BY IndInvParts, Zenon
  <1>2. PICK io \in IoIds : io = desc[fd] /\ Fd(io) = fd
    BY <1>1 DEF OnWrite, EventOn, TypeOK, Parts, FdsOK, DescOwned
  <1>3. /\ phase[t] # "exited" /\ Idle(t) /\ Owner(fd) = t
        /\ opened' = [opened EXCEPT ![io] = IF conn[io] = "kConnecting" THEN @ + 1 ELSE @]
        /\ \/ SendSome(io, out[io]) /\ conn' = [conn EXCEPT ![io] = "kConnected"]
           \/ SendFails(t, io, out[io])
        /\ UNCHANGED <<status, main, running, phase, queue, batch, salt, desc,
                       posting, known, nmsg, ret>>
    BY <1>2, Zenon DEF OnWrite, EventOn, InEvents
  <1>4. opened' \in [IoIds -> Nat]
    BY <1>1, <1>3 DEF TypeOK
  <1>5. out[io] \in Seq(Msgs) /\ \A m \in Elems(out[io]) : m[3] = io
    BY <1>1, Zenon DEF TypeOK, Parts, NoMisdelivery
  <1>6. SendEffect(t)
    <2>1. CASE SendSome(io, out[io]) /\ conn' = [conn EXCEPT ![io] = "kConnected"]
      <3>1. conn' \in [IoIds -> {"none", "kClosed", "kConnecting", "kConnected", "listen", "freed"}]
        BY <1>1, <2>1, Zenon DEF TypeOK
      <3> QED
        BY <1>1, <1>3, <1>4, <1>5, <2>1, <3>1, SendSomeFacts, Zenon DEF Parts
    <2>2. CASE SendFails(t, io, out[io])
      BY <1>1, <1>2, <1>3, <1>4, <1>5, <2>2, SendFailsFacts, Zenon DEF Parts
    <2> QED
      BY <1>3, <2>1, <2>2, Zenon
  <1> QED
    BY <1>1, <1>3, <1>6, ThreadStep, Zenon DEF TypeOK

\* A thread posts a task that registers nothing.
LEMMA PostStep ==
  ASSUME IndInv, NEW task \in Tasks, Post(Owner(Fd(task.io)), task),
         task.op \notin AddOps, task.op = "send" => task.msg \in Msgs /\ task.msg[3] = task.io,
         UNCHANGED <<status, main, running, phase, batch, deleting, sock, salt,
                     desc, connVars, posting, known, ret, crash>>,
         nmsg' \in [Senders -> 0..MaxMsgs]
  PROVE  IndInv'
  <1>1. TypeOK /\ Parts
    BY IndInvParts, Zenon
  <1>2. FdsOK' /\ KeepsQueued
    BY <1>1, SameFds, Zenon DEF Parts
  <1>3. QueueType' /\ QueuesOK' /\ QueuesAddressed'
    BY <1>1, <1>2, PostQueue, Zenon DEF Parts, QueueType
  <1>4. ExitedQuiet'
    BY <1>1, SameExit, Zenon DEF Parts
  <1>5. PostingAddressed' /\ NoMisdelivery'
    BY <1>1, SamePosting, Zenon DEF Parts, NoMisdelivery, connVars
  <1>6. /\ CtlType' /\ DelType' /\ SockType' /\ SaltType' /\ DescType' /\ ConnType'
        /\ ApiType' /\ CrashType'
    BY <1>1, Zenon DEF Parts, CtlType, DelType, SockType, SaltType, DescType, ConnType, connVars, ApiType,
                CrashType
  <1>7. Parts'
    BY <1>2, <1>3, <1>4, <1>5, <1>6, Zenon DEF Parts
  <1> QED
    BY <1>7, IndInvParts, Zenon

LEMMA AcceptFailsStep ==
  ASSUME IndInv, NEW t \in Threads, NEW lfd \in Fds, AcceptFails(t, lfd), UNCHANGED crash
  PROVE  IndInv'
  <1>1. TypeOK /\ Parts
    BY IndInvParts, Zenon
  <1>2. /\ desc[lfd] \in IoIds /\ Fd(desc[lfd]) = lfd /\ Owner(lfd) = t
        /\ UNCHANGED <<status, main, running, phase, batch, deleting, sock, salt,
                       desc, connVars, posting, known, nmsg, ret>>
    BY <1>1 DEF AcceptFails, EventOn, TypeOK, Parts, FdsOK, DescOwned
  <1> DEFINE task == Task("reactivate", desc[lfd], NoMsg)
  <1>3. task \in Tasks /\ task.io = desc[lfd] /\ task.op = "reactivate" /\ task.op \notin AddOps
    BY <1>2, Zenon DEF Task, Tasks, Ops, AddOps
  <1>4. Post(Owner(Fd(task.io)), task)
    BY <1>2, <1>3, Zenon DEF AcceptFails
  <1> HIDE DEF task
  <1> QED
    BY <1>1, <1>2, <1>3, <1>4, PostStep, Zenon DEF TypeOK

LEMMA ThreadSendStep ==
  ASSUME IndInv, NEW t \in Threads, NEW io \in IoIds, ThreadSend(t, io), UNCHANGED crash
  PROVE  IndInv'
  <1>1. TypeOK /\ Parts
    BY IndInvParts, Zenon
  <1> DEFINE m == <<t, nmsg[t] + 1, io>>
  <1>2. /\ t \in Senders /\ phase[t] # "exited" /\ nmsg[t] < MaxMsgs
        /\ nmsg' = [nmsg EXCEPT ![t] = @ + 1]
        /\ UNCHANGED <<status, main, running, phase, batch, salt, desc, posting, known, ret>>
    BY Zenon DEF ThreadSend, Calls, Senders
  <1>3. nmsg[t] + 1 \in 1..MaxMsgs /\ nmsg' \in [Senders -> 0..MaxMsgs]
    BY <1>1, <1>2, BoundAssumption DEF TypeOK
  <1>4. m \in Msgs /\ m[3] = io
    BY <1>2, <1>3, Zenon DEF Msgs
  <1>5. CASE Owner(Fd(io)) = t
    <2>1. Idle(t) /\ RealSendMsg(t, io, m) /\ UNCHANGED queue
      BY <1>5, Zenon DEF ThreadSend
    <2> HIDE DEF m
    <2>2. SendEffect(t)
      BY <1>1, <1>2, <1>4, <1>5, <2>1, RealSendFacts, Zenon DEF Parts
    <2> QED
      BY <1>2, <1>3, <2>1, <2>2, ThreadStep, Zenon
  <1>6. CASE Owner(Fd(io)) # t
    <2> DEFINE task == Task("send", io, m)
    <2>1. Post(Owner(Fd(io)), task) /\ UNCHANGED <<deleting, sock, connVars>>
      BY <1>6, Zenon DEF ThreadSend
    <2> HIDE DEF m
    <2>2. /\ task \in Tasks /\ task.io = io /\ task.op = "send" /\ task.op \notin AddOps
          /\ task.msg = m
      BY <1>4, Zenon DEF Task, Tasks, Ops, AddOps
    <2> HIDE DEF task
    <2> QED
      BY <1>2, <1>3, <1>4, <2>1, <2>2, PostStep, Zenon
  <1> QED
    BY <1>5, <1>6, Zenon

LEMMA ThreadCloseStep ==
  ASSUME IndInv, NEW t \in Threads, NEW io \in IoIds, ThreadClose(t, io), UNCHANGED crash
  PROVE  IndInv'
  <1> DEFINE task == Task("close", io, NoMsg)
  <1>1. task \in Tasks /\ task.io = io /\ task.op = "close" /\ task.op \notin AddOps
    BY Zenon DEF Task, Tasks, Ops, AddOps
  <1>2. /\ Post(Owner(Fd(task.io)), task)
        /\ UNCHANGED <<status, main, running, phase, batch, deleting, sock, salt,
                       desc, connVars, posting, known, nmsg, ret>>
    BY <1>1, Zenon DEF ThreadClose
  <1>3. nmsg' \in [Senders -> 0..MaxMsgs]
    BY <1>2, IndInvParts, Zenon DEF TypeOK
  <1> HIDE DEF task
  <1> QED
    BY <1>1, <1>2, <1>3, PostStep, Zenon
=============================================================================
