---------------------------- MODULE Server_proofs ----------------------------
(***************************************************************************)
(* For any number of connections and descriptors, however phones, worker,  *)
(* main thread and signals interleave: every descriptor has one owner and  *)
(* only resets leak one, nobody waits for a busy worker, and the end is    *)
(* prompt.  The invariant says where a connection may be while it is       *)
(* handed from one socket to the next, and what `done` tells of the worker.*)
(***************************************************************************)
EXTENDS Server, TLAPS

(* Which of the sockets may hold a connection.                             *)
HandedOver ==
  /\ socket["tmpConn"].valid => main \in {"choosing", "joining", "moving"}
  /\ ~raced /\ socket["conn"].valid => main = "starting" \/ worker = "starting"
  /\ socket["socket_"].valid =>
       worker \in {"looping", "receiving", "commanding", "finishing", "ending"}

(* The slot is empty when it is filled, and a worker that is done reads no *)
(* more.                                                                   *)
SlotIsFree ==
  /\ main \in {"moving", "starting"} => worker = "none"
  /\ done => worker \in {"none", "ending", "ended"}

(* What is begun after a signal was under way before it.                   *)
Ending ==
  /\ main \in {"leaving", "left"} => exitReq
  /\ raced => exitReq /\ main \in {"left", "exited"}
  /\ main \in {"left", "exited"} /\ worker = "starting" => raced
  /\ main = "polling" \/ ~exitReq => late.taken = 0
  /\ worker = "receiving" \/ ~exitReq => late.begun = 0

Owned == OneOwner /\ HandedOver
Slot == SlotIsFree /\ AcceptorNeverWaits
End == Ending /\ ExitIsPrompt

IInv == TypeOK /\ Owned /\ Slot /\ End /\ NothingLeaks
------------------------------------------------------------------------------
LEMMA InitEstablishes == Init => IInv
<1> SUFFICES ASSUME Init PROVE IInv
  OBVIOUS
<1>1. \A s \in Sockets : socket[s] = [fd |-> NoFd, valid |-> FALSE]
  BY DEF Init, Dead
<1>2. TypeOK
  <2>1. socket \in [Sockets -> [fd : Fd \cup {NoFd}, valid : BOOLEAN]]
    BY DEF Init, Dead
  <2>2. << >> \in Seq(Conn)
    OBVIOUS
  <2> QED
    BY <2>1, <2>2 DEF Init, TypeOK
<1>3. Owned
  BY <1>1 DEF Init, Owned, OneOwner, HandedOver, Sockets
<1>4. Slot
  BY DEF Init, Slot, SlotIsFree, AcceptorNeverWaits
<1>5. End
  BY DEF Init, End, Ending, ExitIsPrompt
<1>6. NothingLeaks
  BY DEF Init, NothingLeaks, Leaked
<1> QED
  BY <1>2, <1>3, <1>4, <1>5, <1>6 DEF IInv
------------------------------------------------------------------------------
(* Sockets stay sockets, whichever is moved or loses its valid_.           *)
LEMMA SocketTypes ==
  ASSUME TypeOK, NEW s \in Sockets, NEW t \in Sockets
  PROVE  /\ Invalidate(s) => socket' \in [Sockets -> [fd : Fd \cup {NoFd}, valid : BOOLEAN]]
         /\ Move(s, t) => socket' \in [Sockets -> [fd : Fd \cup {NoFd}, valid : BOOLEAN]]
         /\ socket' = [socket EXCEPT ![s] = Dead]
              => socket' \in [Sockets -> [fd : Fd \cup {NoFd}, valid : BOOLEAN]]
<1>1. Dead \in [fd : Fd \cup {NoFd}, valid : BOOLEAN]
  BY DEF Dead
<1>2. [socket[s] EXCEPT !.valid = FALSE] \in [fd : Fd \cup {NoFd}, valid : BOOLEAN]
  BY DEF TypeOK
<1>3. socket \in [Sockets -> [fd : Fd \cup {NoFd}, valid : BOOLEAN]]
  BY DEF TypeOK
<1>4. CASE Invalidate(s)
  <2>1. socket' = [socket EXCEPT ![s] = [socket[s] EXCEPT !.valid = FALSE]]
    BY <1>4 DEF Invalidate
  <2> QED
    BY <1>2, <1>3, <2>1
<1>5. CASE Move(s, t)
  <2> DEFINE moved == [socket EXCEPT ![t] = socket[s]]
  <2>1. moved \in [Sockets -> [fd : Fd \cup {NoFd}, valid : BOOLEAN]]
    BY <1>3
  <2>2. socket' = [moved EXCEPT ![s] = Dead]
    BY <1>5 DEF Move
  <2> HIDE DEF moved
  <2> QED
    BY <1>1, <2>1, <2>2
<1> QED
  BY <1>1, <1>3, <1>4, <1>5

LEMMA TypeStep == TypeOK /\ [Next]_vars => TypeOK'
<1> SUFFICES ASSUME TypeOK, [Next]_vars PROVE TypeOK'
  OBVIOUS
<1> USE DEF TypeOK, Goto, WorkerGoto, envVars, kernelVars, phoneVars, historyVars,
            CloseFd, Invalidate, Move, Dead, Count, Sockets
<1>1. CASE Test
  BY <1>1 DEF Test
<1>2. CASE Accept
  <2>1. CASE {f \in Fd : file[f] = NoConn} = {}
    BY <1>2, <2>1 DEF Accept
  <2>2. ASSUME NEW f \in Fd,
               file' = [file EXCEPT ![f] = Head(queue)],
               queue' = Tail(queue),
               socket' = [socket EXCEPT !["tmpConn"] = [fd |-> f, valid |-> TRUE]],
               Count("taken"), Goto("choosing"),
               queue # << >>,
               UNCHANGED <<exitReq, done, worker, phoneVars, raced>>
        PROVE  TypeOK'
    <3>1. Head(queue) \in Conn /\ Tail(queue) \in Seq(Conn)
      BY <2>2
    <3>2. late' \in [taken : Nat, begun : Nat]
      BY <2>2
    <3> QED
      BY <2>2, <3>1, <3>2
  <2> QED
    BY <1>2, <2>1, <2>2 DEF Accept
<1>3. CASE Choose
  BY <1>3 DEF Choose
<1>4. CASE Join
  BY <1>4 DEF Join
<1>5. CASE MoveConn
  BY <1>5 DEF MoveConn
<1>6. CASE StartWorker
  BY <1>6 DEF StartWorker
<1>7. CASE Refuse
  BY <1>7 DEF Refuse
<1>8. CASE Leave
  BY <1>8 DEF Leave
<1>9. CASE Shutdown
  BY <1>9 DEF Shutdown
<1>10. CASE Take
  <2>1. socket' \in [Sockets -> [fd : Fd \cup {NoFd}, valid : BOOLEAN]]
    BY <1>10, SocketTypes DEF Take, Sockets
  <2> QED
    BY <1>10, <2>1 DEF Take
<1>11. CASE Loop
  BY <1>11 DEF Loop
<1>12. CASE Receive
  <2>1. socket' \in [Sockets -> [fd : Fd \cup {NoFd}, valid : BOOLEAN]]
    BY <1>12, SocketTypes DEF Receive, Sockets
  <2>2. command' \in [Conn -> {"none", "unread", "running", "ran", "refused", "lost"}]
    BY <1>12 DEF Receive
  <2>3. late' \in [taken : Nat, begun : Nat]
    BY <1>12 DEF Receive
  <2> QED
    BY <1>12, <2>1, <2>2, <2>3 DEF Receive
<1>13. CASE ProcessCommand
  BY <1>13 DEF ProcessCommand
<1>14. CASE ReceiveEnd
  BY <1>14 DEF ReceiveEnd
<1>15. CASE ReceiveHangup
  BY <1>15 DEF ReceiveHangup
<1>16. CASE ReceiveTimeout
  BY <1>16 DEF ReceiveTimeout
<1>17. CASE Done
  BY <1>17 DEF Done
<1>18. CASE Destroy
  BY <1>18 DEF Destroy
<1>19. CASE Signal
  <2>1. socket' \in [Sockets -> [fd : Fd \cup {NoFd}, valid : BOOLEAN]]
    BY <1>19, SocketTypes DEF Signal, Sockets
  <2> QED
    BY <1>19, <2>1 DEF Signal
<1>20. CASE Phone
  <2>1. PICK c \in Conn : Connect(c) \/ Send(c) \/ Hangup(c) \/ LoseCommand(c)
    BY <1>20 DEF Phone
  <2>2. CASE Connect(c)
    <3>1. Append(queue, c) \in Seq(Conn)
      OBVIOUS
    <3> QED
      BY <2>2, <3>1 DEF Connect
  <2>3. CASE Send(c)
    BY <2>3 DEF Send
  <2>4. CASE Hangup(c)
    BY <2>4 DEF Hangup
  <2>5. CASE LoseCommand(c)
    BY <2>5 DEF LoseCommand
  <2> QED
    BY <2>1, <2>2, <2>3, <2>4, <2>5
<1>21. CASE UNCHANGED vars
  BY <1>21 DEF vars
<1> QED
  BY <1>1, <1>2, <1>3, <1>4, <1>5, <1>6, <1>7, <1>8, <1>9, <1>10, <1>11, <1>12,
     <1>13, <1>14, <1>15, <1>16, <1>17, <1>18, <1>19, <1>20, <1>21
     DEF Next, Main, Worker

(* The slot.                                                               *)
LEMMA SlotStep == Slot /\ [Next]_vars => Slot'
<1> SUFFICES ASSUME Slot, [Next]_vars PROVE Slot'
  OBVIOUS
<1> USE DEF Slot, SlotIsFree, AcceptorNeverWaits, Goto, WorkerGoto, envVars
<1>1. CASE Main
  BY <1>1 DEF Main, Test, Accept, Choose, Join, MoveConn, StartWorker, Refuse,
              Leave, Shutdown
<1>2. CASE Worker
  BY <1>2 DEF Worker, Take, Loop, Receive, ProcessCommand, ReceiveEnd,
              ReceiveHangup, ReceiveTimeout, Done, Destroy
<1>3. CASE Signal
  BY <1>3 DEF Signal
<1>4. CASE Phone
  BY <1>4 DEF Phone, Connect, Send, Hangup, LoseCommand
<1>5. CASE UNCHANGED vars
  BY <1>5 DEF vars
<1> QED
  BY <1>1, <1>2, <1>3, <1>4, <1>5 DEF Next

(* The end: after exitReq nothing leads to another poll() or recv().       *)
LEMMA EndStep == TypeOK /\ End /\ [Next]_vars => End'
<1> SUFFICES ASSUME TypeOK, End, [Next]_vars PROVE End'
  OBVIOUS
<1> USE DEF End, Ending, ExitIsPrompt, Goto, WorkerGoto, envVars, kernelVars,
            phoneVars, historyVars
<1>0. late \in [taken : Nat, begun : Nat]
  BY DEF TypeOK
<1>1. CASE Accept
  <2>1. CASE late' = late /\ main' = "test"
    BY <1>0, <1>1, <2>1 DEF Accept
  <2>2. CASE Count("taken") /\ Goto("choosing")
    <3>1. late.taken = 0 /\ late.taken' <= 1 /\ late.begun' = late.begun
      BY <1>0, <1>1, <2>2 DEF Accept, Count
    <3>2. ~exitReq => late'.taken = 0 /\ late'.begun = 0
      BY <1>0, <1>1, <2>2 DEF Count
    <3> QED
      BY <1>0, <1>1, <2>2, <3>1, <3>2 DEF Accept
  <2> QED
    BY <1>1, <2>1, <2>2 DEF Accept
<1>2. CASE Receive
  <2>1. late.begun = 0 /\ late.begun' <= 1 /\ late.taken' = late.taken
    BY <1>0, <1>2 DEF Receive, Count
  <2>2. ~exitReq => late'.begun = 0
    BY <1>0, <1>2 DEF Receive, Count
  <2> QED
    BY <1>0, <1>2, <2>1, <2>2 DEF Receive
<1>3. CASE Leave
  <2>1. raced' <=> worker = "starting"
    BY <1>3 DEF Leave
  <2>2. UNCHANGED <<exitReq, worker, late>> /\ main = "leaving" /\ main' = "left"
    BY <1>3 DEF Leave
  <2> QED
    BY <2>1, <2>2
<1>8. CASE Main /\ ~Accept /\ ~Leave
  BY <1>8 DEF Main, Test, Choose, Join, MoveConn, StartWorker, Refuse, Shutdown
<1>4. CASE Worker /\ ~Receive
  BY <1>4 DEF Worker, Take, Loop, ProcessCommand, ReceiveEnd,
              ReceiveHangup, ReceiveTimeout, Done, Destroy
<1>5. CASE Signal
  BY <1>5 DEF Signal
<1>6. CASE Phone
  BY <1>6 DEF Phone, Connect, Send, Hangup, LoseCommand
<1>7. CASE UNCHANGED vars
  BY <1>7 DEF vars
<1> QED
  BY <1>1, <1>2, <1>3, <1>4, <1>5, <1>6, <1>7, <1>8 DEF Next, Main, Worker

(* What the three ways to change a socket do to all of them.               *)
LEMMA Invalidation ==
  ASSUME TypeOK, NEW s \in Sockets, Invalidate(s), NEW t \in Sockets
  PROVE  /\ socket'[t].fd = socket[t].fd
         /\ t # s => socket'[t] = socket[t]
         /\ ~socket'[s].valid
<1>1. socket' = [socket EXCEPT ![s] = [socket[s] EXCEPT !.valid = FALSE]]
  BY DEF Invalidate
<1>2. socket \in [Sockets -> [fd : Fd \cup {NoFd}, valid : BOOLEAN]]
  BY DEF TypeOK
<1> QED
  BY <1>1, <1>2

LEMMA Moving ==
  ASSUME TypeOK, NEW s \in Sockets, NEW t \in Sockets, s # t, Move(s, t),
         NEW u \in Sockets
  PROVE  /\ socket'[t] = socket[s]
         /\ ~socket'[s].valid
         /\ u \notin {s, t} => socket'[u] = socket[u]
<1>1. socket \in [Sockets -> [fd : Fd \cup {NoFd}, valid : BOOLEAN]]
  BY DEF TypeOK
<1> QED
  BY <1>1 DEF Move, Dead

LEMMA Closing ==
  ASSUME TypeOK, NEW s \in Sockets, CloseFd(s), NEW f \in Fd
  PROVE  file'[f] = IF socket[s].valid /\ f = socket[s].fd THEN NoConn ELSE file[f]
<1>1. file \in [Fd -> Conn \cup {NoConn}]
  BY DEF TypeOK
<1> QED
  BY <1>1 DEF CloseFd

LEMMA OwnedStep == TypeOK /\ Owned /\ Slot /\ End /\ [Next]_vars => Owned'
<1> SUFFICES ASSUME TypeOK, Owned, Slot, End, [Next]_vars PROVE Owned'
  OBVIOUS
<1> USE DEF Owned, Goto, WorkerGoto, envVars, kernelVars, phoneVars, historyVars
<1> DEFINE T == "tmpConn"  C == "conn"  S == "socket_"
<1>0. /\ T \in Sockets /\ C \in Sockets /\ S \in Sockets
      /\ \A s \in Sockets : s = T \/ s = C \/ s = S
  BY DEF Sockets
<1>a. /\ socket \in [Sockets -> [fd : Fd \cup {NoFd}, valid : BOOLEAN]]
      /\ file \in [Fd -> Conn \cup {NoConn}]
  BY DEF TypeOK
(* Steps that leave sockets, descriptors and raced alone. *)
<1>1. ASSUME UNCHANGED <<socket, file, raced>>, HandedOver' PROVE Owned'
  BY <1>1 DEF OneOwner
<1>2. CASE Accept
  <2>1. CASE UNCHANGED socket /\ main' = "test"
    BY <1>1, <1>2, <2>1 DEF Accept, HandedOver
  <2>2. ASSUME NEW f \in Fd, file[f] = NoConn,
               file' = [file EXCEPT ![f] = Head(queue)],
               socket' = [socket EXCEPT !["tmpConn"] = [fd |-> f, valid |-> TRUE]],
               main' = "choosing", queue # << >>, main = "polling",
               UNCHANGED <<worker, raced>>
        PROVE  Owned'
    <3>1. Head(queue) \in Conn /\ Head(queue) # NoConn
      <4>1. Head(queue) \in Conn
        BY <2>2 DEF TypeOK
      <4> QED
        BY <4>1, ServerAssumption DEF Conn, NoConn
    <3>2. /\ socket'[T] = [fd |-> f, valid |-> TRUE]
          /\ socket'[C] = socket[C] /\ socket'[S] = socket[S]
      BY <1>0, <1>a, <2>2
    <3>3. file'[f] # NoConn /\ \A g \in Fd \ {f} : file'[g] = file[g]
      BY <1>a, <2>2, <3>1
    <3>4. OneOwner'
      BY <1>0, <2>2, <3>2, <3>3 DEF OneOwner
    <3>5. HandedOver'
      BY <2>2, <3>2 DEF HandedOver
    <3> QED
      BY <3>4, <3>5
  <2> QED
    BY <1>2, <2>1, <2>2 DEF Accept
<1>3. CASE MoveConn
  <2>1. socket'[C] = socket[T] /\ ~socket'[T].valid /\ socket'[S] = socket[S]
    BY <1>0, <1>3, Moving DEF MoveConn
  <2>2. HandedOver'
    BY <1>3, <2>1 DEF MoveConn, HandedOver
  <2>3. OneOwner'
    BY <1>0, <1>3, <2>1 DEF MoveConn, OneOwner
  <2> QED
    BY <2>2, <2>3
<1>4. CASE Refuse
  <2>1. ~socket'[T].valid /\ socket'[C] = socket[C] /\ socket'[S] = socket[S]
    BY <1>0, <1>4, Invalidation DEF Refuse
  <2>2. HandedOver'
    BY <1>4, <2>1 DEF Refuse, HandedOver
  <2>3. OneOwner'
    BY <1>0, <1>4, <2>1, Closing DEF Refuse, OneOwner
  <2> QED
    BY <2>2, <2>3
<1>5. CASE Leave
  <2>1. raced' <=> worker = "starting"
    BY <1>5 DEF Leave
  <2>2. UNCHANGED <<socket, worker>> /\ main = "leaving" /\ main' = "left"
    BY <1>5 DEF Leave
  <2>3. ~raced
    BY <2>2 DEF End, Ending
  <2>4. HandedOver'
    BY <2>1, <2>2, <2>3 DEF HandedOver
  <2>5. ASSUME ~raced' PROVE file' = file
    <3>1. ~socket["conn"].valid
      BY <2>1, <2>2, <2>3, <2>5 DEF HandedOver
    <3> QED
      BY <1>5, <3>1 DEF Leave, CloseFd
  <2>6. OneOwner'
    BY <2>1, <2>2, <2>3, <2>5 DEF OneOwner
  <2> QED
    BY <2>4, <2>6
<1>6. CASE Take
  <2>1. CASE Move("conn", "socket_")
    <3>1. socket'[S] = socket[C] /\ ~socket'[C].valid /\ socket'[T] = socket[T]
      BY <1>0, <2>1, Moving
    <3>2. HandedOver'
      BY <1>6, <3>1 DEF Take, HandedOver
    <3>3. OneOwner'
      BY <1>0, <1>6, <3>1 DEF Take, OneOwner
    <3> QED
      BY <3>2, <3>3
  <2>2. CASE main \in {"left", "exited"} /\ socket' = [socket EXCEPT !["socket_"] = Dead]
    <3>1. ~socket'[S].valid /\ socket'[C] = socket[C] /\ socket'[T] = socket[T]
      BY <1>0, <1>a, <2>2 DEF Dead
    <3>2. raced
      BY <1>6, <2>2 DEF Take, End, Ending
    <3>3. HandedOver'
      BY <1>6, <3>1, <3>2 DEF Take, HandedOver
    <3>4. OneOwner'
      BY <1>6, <3>2 DEF Take, OneOwner
    <3> QED
      BY <3>3, <3>4
  <2> QED
    BY <1>6, <2>1, <2>2 DEF Take
(* recv() and a signal in it: only socket_ loses its valid_. *)
<1>7. ASSUME \/ Receive \/ ReceiveHangup
             \/ Signal /\ Invalidate("socket_") /\ worker' = "looping"
                       /\ main' = main /\ worker = "receiving"
      PROVE  Owned'
  <2>1. CASE UNCHANGED socket
    BY <1>1, <1>7, <2>1 DEF Receive, ReceiveHangup, Signal, HandedOver
  <2>2. CASE Invalidate("socket_")
    <3>1. ~socket'[S].valid /\ socket'[C] = socket[C] /\ socket'[T] = socket[T]
      BY <1>0, <2>2, Invalidation
    <3>2. UNCHANGED <<file, raced, main>> /\ worker = "receiving" /\ worker' # "starting"
      BY <1>7 DEF Receive, ReceiveHangup, Signal
    <3>3. HandedOver'
      BY <3>1, <3>2 DEF HandedOver
    <3>4. OneOwner'
      BY <1>0, <3>1, <3>2 DEF OneOwner
    <3> QED
      BY <3>3, <3>4
  <2> QED
    BY <1>7, <2>1, <2>2 DEF Receive, ReceiveHangup, Signal
<1>8. CASE ReceiveEnd
  <2>1. ~socket'[S].valid /\ socket'[C] = socket[C] /\ socket'[T] = socket[T]
    BY <1>0, <1>8, Invalidation DEF ReceiveEnd
  <2>2. HandedOver'
    BY <1>8, <2>1 DEF ReceiveEnd, HandedOver
  <2>3. OneOwner'
    BY <1>0, <1>8, <2>1, Closing DEF ReceiveEnd, OneOwner
  <2> QED
    BY <2>2, <2>3
<1>9. CASE Destroy
  <2>1. ~socket'[S].valid /\ socket'[C] = socket[C] /\ socket'[T] = socket[T]
    BY <1>0, <1>a, <1>9 DEF Destroy, Dead
  <2>2. HandedOver'
    BY <1>9, <2>1 DEF Destroy, HandedOver
  <2>3. OneOwner'
    BY <1>0, <1>9, <2>1, Closing DEF Destroy, OneOwner
  <2> QED
    BY <2>2, <2>3
<1>10. CASE Test \/ Choose \/ Join \/ StartWorker \/ Shutdown
  BY <1>1, <1>10 DEF Test, Choose, Join, StartWorker, Shutdown, HandedOver, Slot,
                     SlotIsFree
<1>11. CASE Loop \/ ProcessCommand \/ ReceiveTimeout \/ Done
  BY <1>1, <1>11 DEF Loop, ProcessCommand, ReceiveTimeout, Done, HandedOver
<1>12. CASE Signal /\ UNCHANGED <<worker, socket>>
  BY <1>1, <1>12 DEF Signal, HandedOver
<1>13. CASE Phone
  <2>1. UNCHANGED <<main, worker, socket, file, raced>>
    BY <1>13 DEF Phone, Connect, Send, Hangup, LoseCommand
  <2> QED
    BY <1>1, <2>1 DEF HandedOver
<1>14. CASE UNCHANGED vars
  BY <1>1, <1>14 DEF vars, HandedOver
<1> QED
  BY <1>2, <1>3, <1>4, <1>5, <1>6, <1>7, <1>8, <1>9, <1>10, <1>11, <1>12, <1>13,
     <1>14 DEF Next, Main, Worker, Signal

(* Before a signal, only what a reset leaves behind is held by no socket.  *)
LEMMA LeakStep ==
  TypeOK /\ Owned /\ Slot /\ End /\ NothingLeaks /\ [Next]_vars => NothingLeaks'
<1> SUFFICES ASSUME TypeOK, Owned, Slot, End, NothingLeaks, [Next]_vars,
                    ~exitReq', NEW f \in Leaked'
             PROVE  phone'[file'[f]] = "reset"
  BY DEF NothingLeaks
<1> USE DEF Goto, WorkerGoto, envVars, kernelVars, phoneVars, historyVars
<1> DEFINE T == "tmpConn"  C == "conn"  S == "socket_"
<1>0. /\ T \in Sockets /\ C \in Sockets /\ S \in Sockets
      /\ \A s \in Sockets : s = T \/ s = C \/ s = S
  BY DEF Sockets
<1>a. /\ socket \in [Sockets -> [fd : Fd \cup {NoFd}, valid : BOOLEAN]]
      /\ file \in [Fd -> Conn \cup {NoConn}]
      /\ phone \in [Conn -> {"new", "open", "closed", "reset"}]
  BY DEF TypeOK
<1>b. ~exitReq
  BY DEF Next, Main, Worker, Phone, Test, Accept, Choose, Join, MoveConn,
         StartWorker, Refuse, Leave, Shutdown, Take, Loop, Receive,
         ProcessCommand, ReceiveEnd, ReceiveHangup, ReceiveTimeout, Done,
         Destroy, Signal, Connect, Send, Hangup, LoseCommand, vars
<1>c. ~raced /\ main \notin {"leaving", "left"} /\ OneOwner
  BY <1>b DEF End, Ending, Owned
<1>d. /\ f \in Fd /\ file'[f] # NoConn
      /\ \A s \in Sockets : socket'[s].valid => socket'[s].fd # f
  BY DEF Leaked
(* What was held by no socket before was reset, and a reset is for good. *)
<1>1. ASSUME file'[f] = file[f], UNCHANGED phone,
             \A s \in Sockets : socket[s].valid => socket[s].fd # f
      PROVE  phone'[file'[f]] = "reset"
  BY <1>1, <1>b, <1>d DEF NothingLeaks, Leaked
<1>2. CASE Accept
  <2>1. CASE UNCHANGED <<socket, file>>
    BY <1>1, <1>2, <1>d, <2>1 DEF Accept
  <2>2. ASSUME NEW g \in Fd,
               file' = [file EXCEPT ![g] = Head(queue)],
               socket' = [socket EXCEPT !["tmpConn"] = [fd |-> g, valid |-> TRUE]],
               main = "polling", UNCHANGED phone
        PROVE  phone'[file'[f]] = "reset"
    <3>1. /\ socket'[T] = [fd |-> g, valid |-> TRUE]
          /\ socket'[C] = socket[C] /\ socket'[S] = socket[S]
      BY <1>0, <1>a, <2>2
    <3>2. g # f
      BY <1>0, <1>d, <3>1
    <3>3. file'[f] = file[f]
      BY <1>a, <1>d, <2>2, <3>2
    <3>4. ~socket[T].valid
      BY <2>2 DEF Owned, HandedOver
    <3> QED
      BY <1>0, <1>1, <1>d, <2>2, <3>1, <3>3, <3>4
  <2> QED
    BY <1>2, <2>1, <2>2 DEF Accept
<1>3. CASE MoveConn
  <2>1. socket'[C] = socket[T] /\ ~socket'[T].valid /\ socket'[S] = socket[S]
    BY <1>0, <1>3, Moving DEF MoveConn
  <2>2. ~socket[C].valid
    BY <1>3, <1>c DEF MoveConn, Owned, HandedOver, Slot, SlotIsFree
  <2> QED
    BY <1>0, <1>1, <1>3, <1>d, <2>1, <2>2 DEF MoveConn
<1>4. CASE Refuse
  <2>1. ~socket'[T].valid /\ socket'[C] = socket[C] /\ socket'[S] = socket[S]
    BY <1>0, <1>4, Invalidation DEF Refuse
  <2>2. file'[f] = file[f] /\ (socket[T].valid => socket[T].fd # f)
    BY <1>0, <1>4, <1>d, Closing DEF Refuse
  <2> QED
    BY <1>0, <1>1, <1>4, <1>d, <2>1, <2>2 DEF Refuse
<1>5. CASE Take
  <2>1. ~socket[S].valid
    BY <1>5 DEF Take, Owned, HandedOver
  <2>2. CASE Move("conn", "socket_")
    <3>1. socket'[S] = socket[C] /\ ~socket'[C].valid /\ socket'[T] = socket[T]
      BY <1>0, <2>2, Moving
    <3> QED
      BY <1>0, <1>1, <1>5, <1>d, <2>1, <3>1 DEF Take
  <2>3. CASE socket' = [socket EXCEPT !["socket_"] = Dead]
    <3>1. socket'[C] = socket[C] /\ socket'[T] = socket[T]
      BY <1>0, <1>a, <2>3
    <3> QED
      BY <1>0, <1>1, <1>5, <1>d, <2>1, <3>1 DEF Take
  <2> QED
    BY <1>5, <2>2, <2>3 DEF Take
(* Only a reset takes valid_ from an open socket. *)
<1>6. CASE Receive \/ ReceiveHangup
  <2>1. UNCHANGED <<file, phone>>
    BY <1>6 DEF Receive, ReceiveHangup
  <2>2. CASE UNCHANGED socket
    BY <1>1, <1>d, <2>1, <2>2
  <2>3. CASE Invalidate("socket_") /\ phone[Served] = "reset"
    <3>1. socket'[C] = socket[C] /\ socket'[T] = socket[T]
      BY <1>0, <2>3, Invalidation
    <3>2. CASE socket[S].valid /\ socket[S].fd = f
      BY <2>1, <2>3, <3>2 DEF Served
    <3>3. CASE ~(socket[S].valid /\ socket[S].fd = f)
      BY <1>0, <1>1, <1>d, <2>1, <3>1, <3>3
    <3> QED
      BY <3>2, <3>3
  <2> QED
    BY <1>6, <2>2, <2>3 DEF Receive, ReceiveHangup
<1>7. CASE ReceiveEnd \/ Destroy
  <2>1. socket'[C] = socket[C] /\ socket'[T] = socket[T]
    <3>1. CASE ReceiveEnd
      BY <1>0, <3>1, Invalidation DEF ReceiveEnd
    <3>2. CASE Destroy
      BY <1>0, <1>a, <3>2 DEF Destroy
    <3> QED
      BY <1>7, <3>1, <3>2
  <2>2. file'[f] = file[f] /\ (socket[S].valid => socket[S].fd # f)
    BY <1>0, <1>7, <1>d, Closing DEF ReceiveEnd, Destroy
  <2>3. UNCHANGED phone
    BY <1>7 DEF ReceiveEnd, Destroy
  <2> QED
    BY <1>0, <1>1, <1>d, <2>1, <2>2, <2>3
<1>8. CASE Phone
  <2>1. UNCHANGED <<socket, file>>
    BY <1>8 DEF Phone, Connect, Send, Hangup, LoseCommand
  <2>2. f \in Leaked
    BY <1>d, <2>1 DEF Leaked
  <2>3. phone[file[f]] = "reset" /\ file[f] \in Conn
    BY <1>a, <1>b, <1>d, <2>1, <2>2 DEF NothingLeaks
  <2>4. \A c \in Conn : phone[c] = "reset" => phone'[c] = "reset"
    <3>1. PICK c \in Conn : Connect(c) \/ Send(c) \/ Hangup(c) \/ LoseCommand(c)
      BY <1>8 DEF Phone
    <3> QED
      BY <1>a, <3>1 DEF Connect, Send, Hangup, LoseCommand
  <2> QED
    BY <2>1, <2>3, <2>4
<1>9. CASE UNCHANGED <<socket, file, phone>>
  BY <1>1, <1>9, <1>d
<1>10. ~Leave /\ ~Signal
  BY <1>c DEF Leave, Signal
<1>11. CASE \/ Test \/ Choose \/ Join \/ StartWorker \/ Shutdown \/ Loop
            \/ ProcessCommand \/ ReceiveTimeout \/ Done \/ UNCHANGED vars
  BY <1>9, <1>11 DEF Test, Choose, Join, StartWorker, Shutdown, Loop,
                     ProcessCommand, ReceiveTimeout, Done, vars
<1> QED
  BY <1>2, <1>3, <1>4, <1>5, <1>6, <1>7, <1>8, <1>10, <1>11 DEF Next, Main, Worker
------------------------------------------------------------------------------
(* What the theorems below are parts of.                                   *)
THEOREM Invariant == Spec => []IInv
<1>1. IInv /\ [Next]_vars => IInv'
  BY TypeStep, SlotStep, EndStep, OwnedStep, LeakStep DEF IInv
<1> QED
  BY InitEstablishes, <1>1, PTL DEF Spec

(* Sockets, threads, kernel and phones keep their types.                   *)
THEOREM TypeCorrect == Spec => []TypeOK
<1>1. IInv => TypeOK
  BY DEF IInv
<1> QED
  BY <1>1, Invariant, PTL

(* No descriptor is closed twice and no connection is read by two: every   *)
(* open one has one owner, unless the program ended under its worker.      *)
THEOREM DescriptorsHaveOneOwner == Spec => []OneOwner
<1>1. IInv => OneOwner
  BY DEF IInv, Owned
<1> QED
  BY <1>1, Invariant, PTL

(* Only phones that are reset cost a descriptor.                           *)
THEOREM OnlyResetsLeak == Spec => []NothingLeaks
<1>1. IInv => NothingLeaks
  BY DEF IInv
<1> QED
  BY <1>1, Invariant, PTL

(* exec() never joins a worker that is still with its phone.               *)
THEOREM AcceptingGoesOn == Spec => []AcceptorNeverWaits
<1>1. IInv => AcceptorNeverWaits
  BY DEF IInv, Slot
<1> QED
  BY <1>1, Invariant, PTL

(* One connection and one command at most follow a signal.                 *)
THEOREM TheEndIsPrompt == Spec => []ExitIsPrompt
<1>1. IInv => ExitIsPrompt
  BY DEF IInv, End
<1> QED
  BY <1>1, Invariant, PTL
=============================================================================
