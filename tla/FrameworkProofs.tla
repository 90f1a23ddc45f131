-------------------------- MODULE FrameworkProofs --------------------------
(***************************************************************************)
(* That new connections, the calls from outside, and Start, Stop and       *)
(* Uninit keep the invariant of Framework, and the theorems: for any       *)
(* number of fds, threads, clients, reuses of an fd, messages and tasks.   *)
(***************************************************************************)
EXTENDS FrameworkLoop

-----------------------------------------------------------------------------
(* New connections *)

\* The OS hands out fd, which was closed.  Its descriptor may still be in use,
\* but then its owner is about to free it.
LEMMA OpenFacts ==
  ASSUME IndInv, NEW fd \in Fds, sock[fd] = "closed", salt[fd] < MaxSalt,
         NEW x \in {"closed", "setup", "queued"},
         salt' = [salt EXCEPT ![fd] = @ + 1], sock' = [sock EXCEPT ![fd] = x],
         UNCHANGED <<desc, deleting>>
  PROVE  /\ SockType' /\ SaltType' /\ KeepsQueued /\ DescOwned' /\ DeletingOwn'
         /\ sock'[fd] = x /\ \A f \in Fds : f # fd => sock'[f] = sock[f]
         /\ UNCHANGED posting => AddsSetup'
  <1>1. TypeOK /\ Parts
    BY IndInvParts, Zenon
  <1>2. SockType' /\ sock'[fd] = x /\ \A f \in Fds : f # fd => sock'[f] = sock[f]
    BY <1>1, Zenon DEF TypeOK, SockType
  <1>3. SaltType'
    BY <1>1, NextIo, Zenon DEF TypeOK, SaltType
  <1>4. KeepsQueued
    BY <1>2, Zenon DEF KeepsQueued
  <1>5. DescOwned' /\ DeletingOwn'
    BY <1>1, <1>2, Zenon DEF Parts, FdsOK, DescOwned, DeletingOwn
  <1>6. ASSUME UNCHANGED posting PROVE AddsSetup'
    <2>1. \A c \in Clients : posting[c].op \in AddOps => Fd(posting[c].io) \in Fds
      BY <1>1, PostingType, Zenon
    <2> QED
      BY <1>1, <1>2, <1>6, <2>1, Zenon DEF Parts, FdsOK, AddsSetup
  <1> QED
    BY <1>2, <1>3, <1>4, <1>5, <1>6, Zenon

\* A thread opens a socket and posts the task that is to register it.
LEMMA OpenPostStep ==
  ASSUME IndInv, NEW fd \in Fds, sock[fd] = "closed", salt[fd] < MaxSalt,
         salt' = [salt EXCEPT ![fd] = @ + 1], sock' = [sock EXCEPT ![fd] = "queued"],
         NEW op \in AddOps, Post(Owner(fd), Task(op, <<fd, salt[fd] + 1>>, NoMsg)),
         ConnType', UNCHANGED <<out, wire>>, known' \subseteq IoIds,
         ret' \in [IoIds -> {"none", "0", "1", "fail"}],
         UNCHANGED <<status, main, running, phase, batch, deleting, desc, posting, nmsg, crash>>
  PROVE  IndInv'
  <1>1. TypeOK /\ Parts
    BY IndInvParts, Zenon
  <1>2. PICK io \in IoIds : io = <<fd, salt[fd] + 1>> /\ Fd(io) = fd
    BY <1>1, NextIo, Zenon
  <1> DEFINE task == Task(op, io, NoMsg)
  <1>3. task \in Tasks /\ task.io = io /\ task.op = op /\ task.op # "send"
    BY Zenon DEF Task, Tasks, Ops, AddOps
  <1>4. Post(Owner(Fd(task.io)), task)
    BY <1>2, <1>3, Zenon
  <1> HIDE DEF task
  <1>5. /\ SockType' /\ SaltType' /\ KeepsQueued /\ DescOwned' /\ DeletingOwn' /\ AddsSetup'
        /\ sock'[fd] = "queued"
    BY OpenFacts, Zenon
  <1>6. QueueType' /\ QueuesOK' /\ QueuesAddressed'
    BY <1>1, <1>2, <1>3, <1>4, <1>5, PostQueue, Zenon DEF Parts, QueueType
  <1>7. ExitedQuiet'
    BY <1>1, SameExit, Zenon DEF Parts
  <1>8. PostingAddressed' /\ NoMisdelivery'
    BY <1>1, SamePosting, Zenon DEF Parts, NoMisdelivery
  <1>9. CtlType' /\ DelType' /\ DescType' /\ ApiType' /\ CrashType'
    BY <1>1, Zenon DEF Parts, CtlType, DelType, DescType, ApiType, CrashType
  <1>10. Parts'
    BY <1>5, <1>6, <1>7, <1>8, <1>9, Zenon DEF Parts, FdsOK
  <1> QED
    BY <1>10, IndInvParts, Zenon

LEMMA AcceptStep ==
  ASSUME IndInv, NEW t \in Threads, NEW lfd \in Fds, NEW fd \in Fds, Accept(t, lfd, fd),
         UNCHANGED crash
  PROVE  IndInv'
  <1>1. TypeOK /\ Parts
    BY IndInvParts, Zenon
  <1>2. /\ sock[fd] = "closed" /\ salt[fd] < MaxSalt
        /\ salt' = [salt EXCEPT ![fd] = @ + 1]
        /\ sock' = [sock EXCEPT ![fd] = "queued"]
        /\ conn' = [conn EXCEPT ![<<fd, salt[fd] + 1>>] = "kClosed"]
        /\ Post(Owner(fd), Task("addAccept", <<fd, salt[fd] + 1>>, NoMsg))
        /\ UNCHANGED <<status, main, running, phase, batch, deleting, desc, out,
                       busy, opened, closed, released, wire, posting, known, nmsg, ret>>
    BY Zenon DEF Accept
  <1>3. ConnType'
    BY <1>1, <1>2, Zenon DEF TypeOK, ConnType
  <1>4. known' \subseteq IoIds /\ ret' \in [IoIds -> {"none", "0", "1", "fail"}]
    BY <1>1, <1>2, Zenon DEF TypeOK
  <1>5. "addAccept" \in AddOps
    BY Zenon DEF AddOps
  <1> QED
    BY <1>2, <1>3, <1>4, <1>5, OpenPostStep, Zenon

LEMMA OpenSocketFacts ==
  ASSUME TypeOK, NEW fd \in Fds, NEW r \in {"0", "1", "fail", "listen"}, NEW next,
         OpenSocket(fd, r, next)
  PROVE  /\ ConnType' /\ UNCHANGED <<out, wire>>
         /\ sock[fd] = "closed" /\ salt[fd] < MaxSalt
         /\ salt' = [salt EXCEPT ![fd] = @ + 1]
         /\ sock' = [sock EXCEPT ![fd] = IF r = "fail" THEN "closed" ELSE next]
  <1>1. conn' \in [IoIds -> {"none", "kClosed", "kConnecting", "kConnected", "listen", "freed"}]
    BY Zenon DEF OpenSocket, TypeOK
  <1> QED
    BY <1>1, Zenon DEF OpenSocket, TypeOK, ConnType

\* A connect that failed at once.
LEMMA OpenFailStep ==
  ASSUME IndInv, NEW fd \in Fds, NEW next, OpenSocket(fd, "fail", next),
         ret' = [ret EXCEPT ![<<fd, salt[fd] + 1>>] = "fail"],
         UNCHANGED <<status, main, loopVars, desc, posting, known, nmsg, crash>>
  PROVE  IndInv'
  <1>1. TypeOK /\ Parts
    BY IndInvParts, Zenon
  <1>2. /\ ConnType' /\ UNCHANGED <<out, wire>>
        /\ sock[fd] = "closed" /\ salt[fd] < MaxSalt
        /\ salt' = [salt EXCEPT ![fd] = @ + 1]
        /\ sock' = [sock EXCEPT ![fd] = "closed"]
    BY <1>1, OpenSocketFacts, Zenon
  <1>3. UNCHANGED <<running, phase, queue, batch, deleting>>
    BY Zenon DEF loopVars
  <1>4. SockType' /\ SaltType' /\ KeepsQueued /\ DescOwned' /\ DeletingOwn' /\ AddsSetup'
    BY <1>2, <1>3, OpenFacts, Zenon
  <1>5. QueuesOK' /\ QueuesAddressed'
    BY <1>1, <1>3, <1>4, SameQueue, Zenon DEF Parts
  <1>6. ExitedQuiet'
    BY <1>1, <1>3, SameExit, Zenon DEF Parts
  <1>7. PostingAddressed' /\ NoMisdelivery'
    BY <1>1, <1>2, SamePosting, Zenon DEF Parts, NoMisdelivery
  <1>8. CtlType' /\ QueueType' /\ DelType' /\ DescType' /\ ApiType' /\ CrashType'
    BY <1>1, <1>3, Zenon DEF Parts, CtlType, QueueType, DelType, DescType, ApiType, CrashType
  <1>9. Parts'
    BY <1>2, <1>4, <1>5, <1>6, <1>7, <1>8, Zenon DEF Parts, FdsOK
  <1> QED
    BY <1>9, IndInvParts, Zenon

LEMMA ThreadConnectStep ==
  ASSUME IndInv, NEW t \in Threads, NEW fd \in Fds, NEW r \in {"0", "1", "fail"},
         ThreadConnect(t, fd, r), UNCHANGED crash
  PROVE  IndInv'
  <1>1. TypeOK /\ Parts
    BY IndInvParts, Zenon
  <1>2. /\ OpenSocket(fd, r, "queued")
        /\ ret' = [ret EXCEPT ![<<fd, salt[fd] + 1>>] = r]
        /\ UNCHANGED <<status, main, running, phase, batch, deleting, desc, posting, nmsg>>
    BY Zenon DEF ThreadConnect
  <1>3. CASE r = "fail"
    <2>1. UNCHANGED <<queue, known>>
      BY <1>3, Zenon DEF ThreadConnect
    <2> QED
      BY <1>2, <1>3, <2>1, OpenFailStep, Zenon DEF loopVars
  <1>4. CASE r # "fail"
    <2>1. /\ Post(Owner(fd), Task("addConn", <<fd, salt[fd] + 1>>, NoMsg))
          /\ known' = known \cup {<<fd, salt[fd] + 1>>}
      BY <1>4, Zenon DEF ThreadConnect
    <2>2. /\ ConnType' /\ UNCHANGED <<out, wire>>
          /\ sock[fd] = "closed" /\ salt[fd] < MaxSalt
          /\ salt' = [salt EXCEPT ![fd] = @ + 1]
          /\ sock' = [sock EXCEPT ![fd] = "queued"]
      BY <1>1, <1>2, <1>4, OpenSocketFacts
    <2>3. known' \subseteq IoIds
      BY <1>1, <2>1, <2>2, NextIo, Zenon DEF TypeOK
    <2>4. ret' \in [IoIds -> {"none", "0", "1", "fail"}]
      BY <1>1, <1>2, Zenon DEF TypeOK
    <2>5. "addConn" \in AddOps
      BY Zenon DEF AddOps
    <2> QED
      BY <1>2, <2>1, <2>2, <2>3, <2>4, <2>5, OpenPostStep, Zenon
  <1> QED
    BY <1>3, <1>4, Zenon

-----------------------------------------------------------------------------
(* Calls from outside *)

\* What a client's first half-step of Connect or Bind does.
LEMMA ClientOpenStep ==
  ASSUME IndInv, NEW c \in Clients, NEW fd \in Fds, NEW r \in {"0", "1", "listen"},
         OpenSocket(fd, r, "setup"), NEW op \in AddOps,
         posting' = [posting EXCEPT ![c] = Task(op, <<fd, salt[fd] + 1>>, NoMsg)],
         UNCHANGED <<status, main, loopVars, desc, known, nmsg, ret, crash>>
  PROVE  IndInv'
  <1>1. TypeOK /\ Parts
    BY IndInvParts, Zenon
  <1>2. /\ ConnType' /\ UNCHANGED <<out, wire>>
        /\ sock[fd] = "closed" /\ salt[fd] < MaxSalt
        /\ salt' = [salt EXCEPT ![fd] = @ + 1]
        /\ sock' = [sock EXCEPT ![fd] = "setup"]
    BY <1>1, OpenSocketFacts
  <1>3. UNCHANGED <<running, phase, queue, batch, deleting>>
    BY Zenon DEF loopVars
  <1>4. /\ SockType' /\ SaltType' /\ KeepsQueued /\ DescOwned' /\ DeletingOwn'
        /\ sock'[fd] = "setup" /\ \A f \in Fds : f # fd => sock'[f] = sock[f]
    BY <1>2, <1>3, OpenFacts, Zenon
  <1>5. PICK io \in IoIds : io = <<fd, salt[fd] + 1>> /\ Fd(io) = fd
    BY <1>1, <1>2, NextIo, Zenon
  <1>6. PICK task \in Tasks : task = Task(op, io, NoMsg) /\ task.io = io /\ task.op = op
    <2>1. /\ Task(op, io, NoMsg) \in Tasks
          /\ Task(op, io, NoMsg).io = io /\ Task(op, io, NoMsg).op = op
      BY Zenon DEF Task, Tasks, Ops
    <2> QED
      BY <2>1, Zenon
  <1>7. /\ posting' \in [Clients -> Tasks \cup {NoTask}] /\ posting'[c] = task
        /\ \A d \in Clients \ {c} : posting'[d] = posting[d]
    BY <1>1, <1>5, <1>6, Zenon DEF TypeOK
  <1>8. AddsSetup'
    <2>1. \A d \in Clients \ {c} : posting'[d].op \in AddOps =>
            /\ Fd(posting'[d].io) # fd
            /\ sock'[Fd(posting'[d].io)] = "setup"
      BY <1>1, <1>2, <1>4, <1>7, PostingType DEF Parts, FdsOK, AddsSetup
    <2>2. /\ Fd(posting'[c].io) = fd /\ sock'[fd] = "setup"
      BY <1>4, <1>5, <1>6, <1>7, Zenon
    <2>3. ASSUME NEW d \in Clients \ {c}, NEW e \in Clients \ {c},
                 posting'[d].op \in AddOps, posting'[e].op \in AddOps,
                 Fd(posting'[d].io) = Fd(posting'[e].io)
          PROVE  d = e
      BY <1>1, <1>7, <2>3, Zenon DEF Parts, FdsOK, AddsSetup
    <2> QED
      BY <2>1, <2>2, <2>3 DEF AddsSetup
  <1>9. PostingAddressed'
    BY <1>1, <1>6, <1>7, Zenon DEF Parts, PostingAddressed, AddOps
  <1>10. QueuesOK' /\ QueuesAddressed'
    BY <1>1, <1>3, <1>4, SameQueue, Zenon DEF Parts
  <1>11. ExitedQuiet' /\ NoMisdelivery'
    BY <1>1, <1>2, <1>3, SameExit, Zenon DEF Parts, NoMisdelivery
  <1>12. CtlType' /\ QueueType' /\ DelType' /\ DescType' /\ ApiType' /\ CrashType'
    BY <1>1, <1>3, <1>7, Zenon DEF Parts, CtlType, QueueType, DelType, DescType, ApiType, CrashType
  <1>13. Parts'
    BY <1>2, <1>4, <1>8, <1>9, <1>10, <1>11, <1>12, Zenon DEF Parts, FdsOK
  <1> QED
    BY <1>13, IndInvParts, Zenon

LEMMA ClientConnectStep ==
  ASSUME IndInv, NEW c \in Clients, NEW fd \in Fds, NEW r \in {"0", "1", "fail"},
         ClientConnect(c, fd, r), UNCHANGED crash
  PROVE  IndInv'
  <1>1. OpenSocket(fd, r, "setup") /\ UNCHANGED <<status, main, loopVars, desc, known, nmsg>>
    BY Zenon DEF ClientConnect
  <1>2. CASE r = "fail"
    <2>1. ret' = [ret EXCEPT ![<<fd, salt[fd] + 1>>] = "fail"] /\ UNCHANGED posting
      BY <1>2, Zenon DEF ClientConnect
    <2> QED
      BY <1>1, <1>2, <2>1, OpenFailStep, Zenon
  <1>3. CASE r # "fail"
    <2>1. /\ posting' = [posting EXCEPT ![c] = Task("addConn", <<fd, salt[fd] + 1>>, NoMsg)]
          /\ UNCHANGED ret
      BY <1>3, Zenon DEF ClientConnect
    <2>2. "addConn" \in AddOps /\ r \in {"0", "1", "listen"}
      BY <1>3, Zenon DEF AddOps
    <2> QED
      BY <1>1, <2>1, <2>2, ClientOpenStep, Zenon
  <1> QED
    BY <1>2, <1>3, Zenon

LEMMA ClientBindStep ==
  ASSUME IndInv, NEW c \in Clients, NEW fd \in Fds, ClientBind(c, fd), UNCHANGED crash
  PROVE  IndInv'
  <1>1. /\ OpenSocket(fd, "listen", "setup") /\ UNCHANGED <<status, main, loopVars, desc, known, nmsg, ret>>
        /\ posting' = [posting EXCEPT ![c] = Task("addServ", <<fd, salt[fd] + 1>>, NoMsg)]
    BY Zenon DEF ClientBind
  <1>2. "addServ" \in AddOps
    BY Zenon DEF AddOps
  <1> QED
    BY <1>1, <1>2, ClientOpenStep, Zenon

\* ClientSend and ClientClose: the client holds a task that registers nothing.
LEMMA ClientCallStep ==
  ASSUME IndInv, NEW c \in Clients, NEW task \in Tasks, task.op \notin AddOps,
         task.op = "send" => task.msg \in Msgs /\ task.msg[3] = task.io,
         posting' = [posting EXCEPT ![c] = task],
         nmsg' \in [Senders -> 0..MaxMsgs],
         UNCHANGED <<status, main, loopVars, sock, salt, desc, connVars, known, ret, crash>>
  PROVE  IndInv'
  <1>1. TypeOK /\ Parts
    BY IndInvParts, Zenon
  <1>2. UNCHANGED <<running, phase, queue, batch, deleting>>
    BY Zenon DEF loopVars
  <1>3. /\ posting' \in [Clients -> Tasks \cup {NoTask}] /\ posting'[c] = task
        /\ \A d \in Clients \ {c} : posting'[d] = posting[d]
    BY <1>1, Zenon DEF TypeOK
  <1>4. FdsOK' /\ KeepsQueued
    <2>1. AddsSetup'
      BY <1>1, <1>3, Zenon DEF Parts, FdsOK, AddsSetup
    <2>2. DescOwned' /\ DeletingOwn' /\ KeepsQueued
      BY <1>1, <1>2, Zenon DEF Parts, FdsOK, DescOwned, DeletingOwn, KeepsQueued
    <2> QED
      BY <2>1, <2>2, Zenon DEF FdsOK
  <1>5. PostingAddressed'
    BY <1>1, <1>3, Zenon DEF Parts, PostingAddressed
  <1>6. QueuesOK' /\ QueuesAddressed'
    BY <1>1, <1>2, <1>4, SameQueue, Zenon DEF Parts
  <1>7. ExitedQuiet' /\ NoMisdelivery'
    BY <1>1, <1>2, SameExit, Zenon DEF Parts, NoMisdelivery, connVars
  <1>8. /\ CtlType' /\ QueueType' /\ DelType' /\ SockType' /\ SaltType' /\ DescType' /\ ConnType'
        /\ ApiType' /\ CrashType'
    BY <1>1, <1>2, <1>3, Zenon DEF Parts, CtlType, QueueType, DelType, SockType, SaltType, DescType,
                            ConnType, connVars, ApiType, CrashType
  <1>9. Parts'
    BY <1>4, <1>5, <1>6, <1>7, <1>8, Zenon DEF Parts
  <1> QED
    BY <1>9, IndInvParts, Zenon

LEMMA ClientSendStep ==
  ASSUME IndInv, NEW c \in Clients, NEW io \in IoIds, ClientSend(c, io), UNCHANGED crash
  PROVE  IndInv'
  <1>1. TypeOK
    BY IndInvParts, Zenon
  <1> DEFINE m == <<c, nmsg[c] + 1, io>>
             task == Task("send", io, m)
  <1>2. /\ nmsg[c] < MaxMsgs /\ nmsg' = [nmsg EXCEPT ![c] = @ + 1]
        /\ posting' = [posting EXCEPT ![c] = task]
        /\ UNCHANGED <<status, main, loopVars, sock, salt, desc, connVars, known, ret>>
    BY Zenon DEF ClientSend
  <1>3. nmsg[c] + 1 \in 1..MaxMsgs /\ nmsg' \in [Senders -> 0..MaxMsgs] /\ c \in Senders
    BY <1>1, <1>2, BoundAssumption DEF TypeOK, Senders
  <1>4. m \in Msgs /\ m[3] = io
    BY <1>3, Zenon DEF Msgs
  <1> HIDE DEF m
  <1>5. task \in Tasks /\ task.io = io /\ task.op \notin AddOps /\ task.msg = m
    BY <1>4, Zenon DEF Task, Tasks, Ops, AddOps
  <1> HIDE DEF task
  <1> QED
    BY <1>2, <1>3, <1>4, <1>5, ClientCallStep, Zenon

LEMMA ClientCloseStep ==
  ASSUME IndInv, NEW c \in Clients, NEW io \in IoIds, ClientClose(c, io), UNCHANGED crash
  PROVE  IndInv'
  <1> DEFINE task == Task("close", io, NoMsg)
  <1>1. /\ posting' = [posting EXCEPT ![c] = task]
        /\ UNCHANGED <<status, main, loopVars, sock, salt, desc, connVars, known, nmsg, ret>>
    BY Zenon DEF ClientClose
  <1>2. nmsg' \in [Senders -> 0..MaxMsgs]
    BY <1>1, IndInvParts, Zenon DEF TypeOK
  <1>3. task \in Tasks /\ task.op \notin AddOps /\ task.op # "send"
    BY Zenon DEF Task, Tasks, Ops, AddOps
  <1> HIDE DEF task
  <1> QED
    BY <1>1, <1>2, <1>3, ClientCallStep, Zenon

LEMMA ClientPostStep ==
  ASSUME IndInv, NEW c \in Clients, ClientPost(c), UNCHANGED crash
  PROVE  IndInv'
  <1>1. TypeOK /\ Parts
    BY IndInvParts, Zenon
  <1>2. PICK task \in Tasks : task = posting[c] /\ task.io \in IoIds /\ Fd(task.io) \in Fds
    BY <1>1, PostingType, Zenon DEF ClientPost
  <1>3. PICK fd \in Fds : fd = Fd(task.io)
    BY <1>2, Zenon
  <1>4. /\ Post(Owner(Fd(task.io)), task)
        /\ posting' = [posting EXCEPT ![c] = NoTask]
        /\ sock' = IF task.op \in AddOps THEN [sock EXCEPT ![fd] = "queued"] ELSE sock
        /\ known' = IF task.op = "addConn" THEN known \cup {task.io} ELSE known
        /\ ret' = IF task.op = "addConn"
                  THEN [ret EXCEPT ![task.io] = IF conn[task.io] = "kConnected" THEN "0" ELSE "1"]
                  ELSE ret
        /\ UNCHANGED <<status, main, running, phase, batch, deleting, salt, desc, connVars, nmsg>>
    BY <1>2, <1>3, Zenon DEF ClientPost
  <1>5. /\ posting' \in [Clients -> Tasks \cup {NoTask}] /\ posting'[c] = NoTask
        /\ \A d \in Clients \ {c} : posting'[d] = posting[d]
    BY <1>1, <1>4, Zenon DEF TypeOK
  <1>6. ret' \in [IoIds -> {"none", "0", "1", "fail"}] /\ known' \subseteq IoIds
    BY <1>1, <1>2, <1>4, Zenon DEF TypeOK
  <1>7. task.op \in AddOps => sock[fd] = "setup" /\ sock'[fd] = "queued"
    BY <1>1, <1>2, <1>3, <1>4, Zenon DEF Parts, FdsOK, AddsSetup, TypeOK
  <1>8. SockType' /\ \A f \in Fds : sock'[f] = sock[f] \/ (f = fd /\ task.op \in AddOps)
    BY <1>1, <1>4, Zenon DEF TypeOK, SockType
  <1>9. KeepsQueued
    BY <1>7, <1>8, Zenon DEF KeepsQueued
  <1>10. QueueType' /\ QueuesOK' /\ QueuesAddressed'
    <2>1. task.op = "send" => task.msg \in Msgs /\ task.msg[3] = task.io
      BY <1>1, <1>2, Zenon DEF Parts, PostingAddressed
    <2>2. task.op \in AddOps => sock[Fd(task.io)] # "queued" /\ sock'[Fd(task.io)] = "queued"
      BY <1>3, <1>7, Zenon
    <2>3. batch' \in [Threads -> Nat]
      BY <1>1, <1>4, Zenon DEF TypeOK
    <2> QED
      BY <1>1, <1>4, <1>9, <2>1, <2>2, <2>3, PostQueue, Zenon DEF Parts, QueueType
  <1>11. AddsSetup'
    <2>1. NoTask.op \notin AddOps
      BY Zenon DEF NoTask, AddOps
    <2>2. \A d \in Clients \ {c} : posting[d].op \in AddOps =>
            /\ Fd(posting[d].io) \in Fds /\ sock[Fd(posting[d].io)] = "setup"
            /\ task.op \in AddOps => Fd(posting[d].io) # fd
      BY <1>1, <1>2, <1>3, PostingType, Zenon DEF Parts, FdsOK, AddsSetup
    <2>3. \A d \in Clients \ {c} : posting[d].op \in AddOps => sock'[Fd(posting[d].io)] = "setup"
      BY <1>8, <2>2, Zenon
    <2> QED
      BY <1>1, <1>5, <2>1, <2>3, Zenon DEF Parts, FdsOK, AddsSetup
  <1>12. DescOwned' /\ DeletingOwn'
    BY <1>1, <1>4, <1>7, <1>8, Zenon DEF Parts, FdsOK, DescOwned, DeletingOwn
  <1>13. PostingAddressed'
    <2>1. NoTask.op # "send"
      BY Zenon DEF NoTask
    <2> QED
      BY <1>1, <1>5, <2>1, Zenon DEF Parts, PostingAddressed
  <1>14. ExitedQuiet' /\ NoMisdelivery'
    BY <1>1, <1>4, SameExit, Zenon DEF Parts, NoMisdelivery, connVars
  <1>15. CtlType' /\ DelType' /\ SaltType' /\ DescType' /\ ConnType' /\ ApiType' /\ CrashType'
    BY <1>1, <1>4, <1>5, <1>6, Zenon DEF Parts, CtlType, DelType, SaltType, DescType, ConnType, connVars,
                                  ApiType, CrashType
  <1>16. Parts'
    BY <1>8, <1>10, <1>11, <1>12, <1>13, <1>14, <1>15, Zenon DEF Parts, FdsOK
  <1> QED
    BY <1>16, IndInvParts, Zenon

\* Steps that change nothing but crash.
LEMMA CrashStep ==
  ASSUME IndInv, CrashType',
         UNCHANGED <<status, main, loopVars, sock, salt, desc, connVars, posting, known, nmsg, ret>>
  PROVE  IndInv'
  <1>1. TypeOK /\ Parts
    BY IndInvParts, Zenon
  <1>2. UNCHANGED <<running, phase, queue, batch, deleting>>
    BY Zenon DEF loopVars
  <1>3. FdsOK' /\ KeepsQueued
    BY <1>1, <1>2, SameFds, Zenon DEF Parts
  <1>4. QueuesOK' /\ QueuesAddressed' /\ PostingAddressed' /\ ExitedQuiet' /\ NoMisdelivery'
    BY <1>1, <1>2, <1>3, SameQueue, SamePosting, SameExit, Zenon DEF Parts, NoMisdelivery, connVars
  <1>5. /\ CtlType' /\ QueueType' /\ DelType' /\ SockType' /\ SaltType' /\ DescType' /\ ConnType'
        /\ ApiType'
    BY <1>1, <1>2, Zenon DEF Parts, CtlType, QueueType, DelType, SockType, SaltType, DescType, ConnType,
                      connVars, ApiType
  <1>6. Parts'
    BY <1>3, <1>4, <1>5, Zenon DEF Parts
  <1> QED
    BY <1>6, IndInvParts, Zenon

LEMMA FatalSteps ==
  ASSUME IndInv, FatalStep
  PROVE  IndInv'
  <1>1. ASSUME NEW t \in Threads, RunAddFails(t) PROVE IndInv'
    BY <1>1, CrashStep, Zenon DEF RunAddFails, CrashType
  <1>2. ASSUME NEW t \in Threads, RunReactivate(t) PROVE IndInv'
    BY <1>2, RunReactivateStep, Zenon
  <1>3. ASSUME NEW c \in Clients, ClientCrash(c) PROVE IndInv'
    BY <1>3, CrashStep, Zenon DEF ClientCrash, CrashType
  <1>4. ASSUME NEW c \in Clients, ClientPostAssert(c) PROVE IndInv'
    BY <1>4, CrashStep, Zenon DEF ClientPostAssert, CrashType
  <1> QED
    BY <1>1, <1>2, <1>3, <1>4, Zenon DEF FatalStep

-----------------------------------------------------------------------------
(* The main thread *)

\* Start, StopThreads, JoinThreads and SetUninit touch status_, running_ and
\* the threads only.
LEMMA ControlStep ==
  ASSUME IndInv, Start \/ StopThreads \/ JoinThreads \/ SetUninit, UNCHANGED crash
  PROVE  IndInv'
  <1>1. TypeOK /\ Parts
    BY IndInvParts, Zenon
  <1>2. UNCHANGED <<queue, batch, deleting, sock, salt, desc, connVars, posting, known, nmsg, ret>>
    BY Zenon DEF Start, StopThreads, JoinThreads, SetUninit, loopVars, apiVars
  <1>3. CtlType'
    BY <1>1, Zenon DEF Start, StopThreads, JoinThreads, SetUninit, loopVars, Parts, CtlType
  <1>4. ExitedQuiet'
    <2>1. CASE Start
      BY <1>1, <2>1, Zenon DEF Start, Parts, ExitedQuiet
    <2>2. CASE StopThreads
      BY <1>1, <2>2, Zenon DEF StopThreads, Parts, ExitedQuiet, Idle
    <2>3. CASE JoinThreads
      BY <1>1, <2>3, Zenon DEF JoinThreads, loopVars, Parts, ExitedQuiet, Idle
    <2>4. CASE SetUninit
      BY <1>1, <2>4, Zenon DEF SetUninit, loopVars, Parts, ExitedQuiet, Idle
    <2> QED
      BY <2>1, <2>2, <2>3, <2>4, Zenon
  <1>5. FdsOK' /\ KeepsQueued
    BY <1>1, <1>2, SameFds, Zenon DEF Parts
  <1>6. QueuesOK' /\ QueuesAddressed' /\ PostingAddressed' /\ NoMisdelivery'
    BY <1>1, <1>2, <1>5, SameQueue, SamePosting, Zenon DEF Parts, NoMisdelivery, connVars
  <1>7. /\ QueueType' /\ DelType' /\ SockType' /\ SaltType' /\ DescType' /\ ConnType'
        /\ ApiType' /\ CrashType'
    BY <1>1, <1>2, Zenon DEF Parts, QueueType, DelType, SockType, SaltType, DescType, ConnType,
                      connVars, ApiType, CrashType
  <1>8. Parts'
    BY <1>3, <1>4, <1>5, <1>6, <1>7, Zenon DEF Parts
  <1> QED
    BY <1>8, IndInvParts, Zenon

\* Once the threads are joined nothing is being deleted: descriptors in use
\* are those of registered fds.
LEMMA Joined ==
  ASSUME IndInv, main \notin {"up", "stopping"}
  PROVE  /\ \A t \in Threads : phase[t] = "exited" /\ Idle(t) /\ batch[t] = 0
         /\ \A fd \in Fds : desc[fd] # NoIo =>
              /\ desc[fd] \in IoIds /\ Fd(desc[fd]) = fd /\ sock[fd] = "registered"
  <1>1. TypeOK /\ Parts
    BY IndInvParts, Zenon
  <1>2. \A t \in Threads : phase[t] = "exited" /\ Idle(t) /\ batch[t] = 0
    BY <1>1, Zenon DEF Parts, ExitedQuiet
  <1>3. ASSUME NEW fd \in Fds, desc[fd] # NoIo
        PROVE  desc[fd] \in IoIds /\ Fd(desc[fd]) = fd /\ sock[fd] = "registered"
    <2>1. deleting[Owner(fd)] # fd
      BY <1>2, OwnerType, IoType, Zenon DEF Idle
    <2> QED
      BY <1>1, <1>3, <2>1 DEF TypeOK, Parts, FdsOK, DescOwned
  <1> QED
    BY <1>2, <1>3, Zenon

\* What a step of Uninit that destroys handlers keeps.
LEMMA UninitFacts ==
  ASSUME IndInv, main \notin {"up", "stopping"}, main' \in {"noFds", "noTasks", "noThreads"},
         NEW S \in SUBSET IoIds, NEW Up \in SUBSET IoIds, NEW extra \in SUBSET Msgs,
         Destroy(S, Up, extra), \A io \in S : sock[Fd(io)] \in {"queued", "registered"},
         UNCHANGED <<status, running, phase, batch, deleting, salt, opened, wire, posting, known,
                     nmsg, ret, crash>>
  PROVE  /\ CtlType' /\ DelType' /\ SockType' /\ SaltType' /\ ConnType' /\ ApiType' /\ CrashType'
         /\ AddsSetup' /\ DeletingOwn' /\ ExitedQuiet' /\ PostingAddressed' /\ NoMisdelivery'
         /\ \A fd \in Fds : sock'[fd] = sock[fd] \/ \E io \in S : Fd(io) = fd
  <1>1. TypeOK /\ Parts
    BY IndInvParts, Zenon
  <1>2. /\ SockType'
        /\ conn' \in [IoIds -> {"none", "kClosed", "kConnecting", "kConnected", "listen", "freed"}]
        /\ out' \in [IoIds -> Seq(Msgs)] /\ busy' \in [IoIds -> BOOLEAN]
        /\ closed' \in [IoIds -> Nat] /\ released' \subseteq Msgs
        /\ \A io \in IoIds : out'[io] \in {out[io], <<>>}
        /\ \A fd \in Fds : sock'[fd] = sock[fd] \/ \E io \in S : Fd(io) = fd
    BY <1>1, DestroyFacts, Zenon
  <1>3. ConnType'
    BY <1>1, <1>2, Zenon DEF ConnType, Parts
  <1>4. CtlType' /\ DelType' /\ SaltType' /\ ApiType' /\ CrashType'
    BY <1>1, Zenon DEF Parts, CtlType, DelType, SaltType, ApiType, CrashType
  <1>5. AddsSetup'
    <2>1. \A c \in Clients : posting[c].op \in AddOps => sock'[Fd(posting[c].io)] = "setup"
      BY <1>1, <1>2, PostingType, Zenon DEF Parts, FdsOK, AddsSetup
    <2> QED
      BY <1>1, <2>1, Zenon DEF Parts, FdsOK, AddsSetup
  <1>6. DeletingOwn' /\ PostingAddressed'
    BY <1>1, SamePosting, Zenon DEF Parts, FdsOK, DeletingOwn
  <1>7. ExitedQuiet'
    BY <1>1, Joined, Zenon DEF ExitedQuiet, Idle
  <1>8. NoMisdelivery'
    BY <1>1, <1>2, SameMessages, Zenon DEF Parts
  <1> QED
    BY <1>2, <1>3, <1>4, <1>5, <1>6, <1>7, <1>8, Zenon

LEMMA UninitFdsStep ==
  ASSUME IndInv, UninitFds, UNCHANGED crash
  PROVE  IndInv'
  <1>1. TypeOK /\ Parts
    BY IndInvParts, Zenon
  <1> DEFINE S == {desc[fd] : fd \in {f \in Fds : desc[f] # NoIo}}
  <1>2. /\ main = "stopped" /\ main' = "noFds" /\ Destroy(S, Connected(S), {})
        /\ desc' = [fd \in Fds |-> NoIo]
        /\ UNCHANGED <<status, running, phase, queue, batch, deleting, salt, opened, wire, posting,
                       known, nmsg, ret>>
    BY Zenon DEF UninitFds, loopVars, apiVars
  <1>3. S \in SUBSET IoIds /\ \A io \in S : sock[Fd(io)] = "registered"
    BY <1>2, Joined, Zenon
  <1>4. Connected(S) \in SUBSET IoIds /\ {} \in SUBSET Msgs
    BY <1>3, Zenon DEF Connected
  <1> HIDE DEF S
  <1>5. /\ CtlType' /\ DelType' /\ SockType' /\ SaltType' /\ ConnType' /\ ApiType' /\ CrashType'
        /\ AddsSetup' /\ DeletingOwn' /\ ExitedQuiet' /\ PostingAddressed' /\ NoMisdelivery'
        /\ \A fd \in Fds : sock'[fd] = sock[fd] \/ \E io \in S : Fd(io) = fd
    BY <1>2, <1>3, <1>4, UninitFacts, Zenon
  <1>6. KeepsQueued
    BY <1>3, <1>5, Zenon DEF KeepsQueued
  <1>7. QueuesOK' /\ QueuesAddressed' /\ QueueType'
    BY <1>1, <1>2, <1>6, SameQueue, Zenon DEF Parts, QueueType
  <1>8. DescType' /\ DescOwned'
    BY <1>2, Zenon DEF DescType, DescOwned
  <1>9. Parts'
    BY <1>5, <1>7, <1>8, Zenon DEF Parts, FdsOK
  <1> QED
    BY <1>9, IndInvParts, Zenon

\* UninitThreads and DeleteThreads.
LEMMA DrainStep ==
  ASSUME IndInv, UninitThreads \/ DeleteThreads, UNCHANGED crash
  PROVE  IndInv'
  <1>1. TypeOK /\ Parts
    BY IndInvParts, Zenon
  <1> DEFINE left == UNION {Elems(queue[t]) : t \in Threads}
             S == {k.io : k \in {j \in left : j.op \in {"addConn", "addServ"}}}
             M == {k.msg : k \in {j \in left : j.op = "send"}}
  <1>2. /\ main \notin {"up", "stopping"} /\ main' \in {"noFds", "noTasks", "noThreads"}
        /\ Destroy(S, Connected(S), M)
        /\ queue' = [t \in Threads |-> <<>>]
        /\ UNCHANGED <<status, running, phase, batch, deleting, salt, desc, opened, wire, posting,
                       known, nmsg, ret>>
    BY Zenon DEF UninitThreads, DeleteThreads, Drain, apiVars
  <1>3. \A k \in left : \E t \in Threads : \E i \in 1..Len(queue[t]) : k = queue[t][i]
    BY Zenon DEF Elems
  <1> HIDE DEF left
  <1>4. \A k \in left : /\ k.op \in AddOps => k.io \in IoIds /\ sock[Fd(k.io)] = "queued"
                        /\ k.op = "send" => k.msg \in Msgs
    <2> SUFFICES ASSUME NEW k \in left
                 PROVE  /\ k.op \in AddOps => k.io \in IoIds /\ sock[Fd(k.io)] = "queued"
                        /\ k.op = "send" => k.msg \in Msgs
      BY Zenon
    <2>0. PICK t \in Threads : \E i \in 1..Len(queue[t]) : k = queue[t][i]
      BY <1>3, Zenon
    <2>1. PICK i \in 1..Len(queue[t]) : k = queue[t][i]
      BY <2>0, Zenon
    <2>2. k.io \in IoIds
      BY <1>1, <2>1, TaskType, Zenon
    <2> QED
      BY <1>1, <2>1, <2>2, Zenon DEF Parts, QueuesOK, AddsQueued, QueuesAddressed
  <1>5. S \in SUBSET IoIds /\ \A io \in S : sock[Fd(io)] = "queued"
    BY <1>4, Zenon DEF AddOps
  <1>6. M \in SUBSET Msgs
    BY <1>4, Zenon
  <1>7. Connected(S) \in SUBSET IoIds
    BY <1>5, Zenon DEF Connected
  <1> HIDE DEF S, M
  <1>8. /\ CtlType' /\ DelType' /\ SockType' /\ SaltType' /\ ConnType' /\ ApiType' /\ CrashType'
        /\ AddsSetup' /\ DeletingOwn' /\ ExitedQuiet' /\ PostingAddressed' /\ NoMisdelivery'
        /\ \A fd \in Fds : sock'[fd] = sock[fd] \/ \E io \in S : Fd(io) = fd
    BY <1>2, <1>5, <1>6, <1>7, UninitFacts, Zenon
  <1>9. DescOwned' /\ DescType'
    <2>1. \A fd \in Fds : desc[fd] # NoIo => sock'[fd] = "registered" /\ Fd(desc[fd]) = fd
      BY <1>2, <1>5, <1>8, Joined, Zenon
    <2> QED
      BY <1>1, <1>2, <2>1, Zenon DEF DescOwned, DescType, Parts
  <1>10. \A t \in Threads : queue'[t] = <<>> /\ Len(queue'[t]) = 0 /\ batch'[t] = 0
    BY <1>2, Joined, Zenon
  <1>11. QueuesOK' /\ QueuesAddressed'
    BY <1>10 DEF QueuesOK, TasksAtOwner, AddsQueued, BatchQueued, QueuesAddressed
  <1>12. QueueType'
    BY <1>1, <1>2 DEF QueueType, Parts
  <1>13. Parts'
    BY <1>8, <1>9, <1>11, <1>12, Zenon DEF Parts, FdsOK
  <1> QED
    BY <1>13, IndInvParts, Zenon

-----------------------------------------------------------------------------
(* The theorems *)

LEMMA InitHolds == Init => IndInv
  <1> SUFFICES ASSUME Init PROVE IndInv
    BY Zenon
  <1>1. 0 \in 0..MaxSalt /\ 0 \in 0..MaxMsgs
    BY BoundAssumption
  <1>2. <<>> \in Seq(Tasks) /\ <<>> \in Seq(Msgs)
    OBVIOUS
  <1>3. TypeOK
    BY <1>1, <1>2, Zenon DEF Init, TypeOK
  <1>4. TasksAtOwner /\ AddsQueued /\ BatchQueued
    BY DEF Init, TasksAtOwner, AddsQueued, BatchQueued
  <1>5. AddsSetup /\ DescOwned /\ DeletingOwn /\ ExitedQuiet
    BY Zenon DEF Init, AddsSetup, DescOwned, DeletingOwn, ExitedQuiet, NoTask, AddOps
  <1>6. Addressed
    <2>1. /\ \A t \in Threads : Len(queue[t]) = 0
          /\ \A c \in Clients : posting[c] = NoTask
      BY Zenon DEF Init
    <2>2. NoTask.op # "send"
      BY Zenon DEF NoTask
    <2> QED
      BY <2>1, <2>2 DEF Addressed
  <1>7. NoMisdelivery
    BY ElemsFacts, Zenon DEF Init, NoMisdelivery
  <1> QED
    BY <1>3, <1>4, <1>5, <1>6, <1>7, Zenon DEF IndInv, Owned

LEMMA NextKeeps == IndInv /\ [Next]_vars => IndInv'
  <1> SUFFICES ASSUME IndInv, [Next]_vars PROVE IndInv'
    BY Zenon
  <1>1. CASE UNCHANGED vars
    <2>1. /\ UNCHANGED <<status, main, loopVars, sock, salt, desc, connVars, posting, known, nmsg, ret>>
          /\ UNCHANGED crash
      BY <1>1, Zenon DEF vars
    <2>2. CrashType'
      BY <2>1, IndInvParts, Zenon DEF Parts, CrashType
    <2> QED
      BY <2>1, <2>2, CrashStep, Zenon
  <1>2. CASE FatalStep
    BY <1>2, FatalSteps, Zenon
  <1>3. ASSUME NEW t \in Threads, LoopStep(t), UNCHANGED crash PROVE IndInv'
    BY <1>3, FreeFdStep, LoopStepFacts, RunAddStep, RunSendStep, RunCloseStep, Zenon DEF LoopStep
  <1>4. ASSUME NEW t \in Threads, EventStep(t), UNCHANGED crash PROVE IndInv'
    BY <1>4, EndStep, OnWriteStep, AcceptFailsStep, AcceptStep, Zenon DEF EventStep
  <1>5. ASSUME NEW t \in Threads, CallbackStep(t), UNCHANGED crash PROVE IndInv'
    BY <1>5, ThreadConnectStep, ThreadSendStep, ThreadCloseStep, Zenon DEF CallbackStep
  <1>6. ASSUME NEW c \in Clients, ClientStep(c), UNCHANGED crash PROVE IndInv'
    BY <1>6, ClientConnectStep, ClientBindStep, ClientSendStep, ClientCloseStep, ClientPostStep, Zenon
       DEF ClientStep
  <1>7. ASSUME MainStep, UNCHANGED crash PROVE IndInv'
    BY <1>7, ControlStep, UninitFdsStep, DrainStep, Zenon DEF MainStep
  <1> QED
    BY <1>1, <1>2, <1>3, <1>4, <1>5, <1>6, <1>7, Zenon DEF Next

(* The inductive invariant: tasks wait with the thread that owns their fd, *)
(* an fd is to be registered by one task at most, descriptors in use are   *)
(* those of open fds or of the one their owner is just deleting, and each  *)
(* message is on its way to the io id it was sent to.                      *)
THEOREM Ownership == Spec => []IndInv
  <1>1. Init => IndInv
    BY InitHolds, Zenon
  <1>2. IndInv /\ [Next]_vars => IndInv'
    BY NextKeeps, Zenon
  <1> QED
    BY <1>1, <1>2, PTL DEF Spec

(* RealAddFd never meets a descriptor in use (tcp_connect.cc:130), however *)
(* many threads accept, connect, close and reuse the same fds.             *)
THEOREM AddsSucceed == Spec => []AddFindsFdFree
  <1>1. IndInv => AddFindsFdFree
    BY AddFree, Zenon DEF AddFindsFdFree
  <1> QED
    BY <1>1, Ownership, PTL

(* A message is queued on and written to no connection but the one whose   *)
(* io id SendMsg was given, however often the fd was reused meanwhile.     *)
THEOREM MessagesArriveWhereSent == Spec => []NoMisdelivery
  <1>1. IndInv => NoMisdelivery
    BY Zenon DEF IndInv
  <1> QED
    BY <1>1, Ownership, PTL

(* Every variable keeps its type, through shutdown too.                    *)
THEOREM FrameworkTypes == Spec => []TypeOK
  <1>1. IndInv => TypeOK
    BY Zenon DEF IndInv
  <1> QED
    BY <1>1, Ownership, PTL
=============================================================================
