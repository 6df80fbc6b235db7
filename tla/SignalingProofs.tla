-------------------------- MODULE SignalingProofs ---------------------------
(***************************************************************************)
(* Proofs about Signaling, for any number of sessions and whatever the     *)
(* specifications are, with client and server in one process or in two.    *)
(***************************************************************************)
EXTENDS Signaling, TLAPS

USE DEF config, asked, srv, reg

LEMMA Constants ==
  /\ 1 \in Copy /\ 2 \in Copy /\ \A i \in Copy : i = 1 \/ i = 2
  /\ "server" \in Process /\ "client" \in Process /\ ClientProcess \in Process
  /\ \A p \in Process : p = "server" \/ p = "client"
  BY DEF Copy, Process, ClientProcess

LEMMA InitEstablishes == Init => SignalingInv
<1> SUFFICES ASSUME Init PROVE SignalingInv
  OBVIOUS
<1>1. TypeOK
  BY SignalingAssumption, Constants DEF Init, TypeOK, Process
<1>2. DeleteOnce
  BY DEF Init, DeleteOnce, SomeServed, Served, Finds
<1>3. Order /\ Entry /\ ClosedByOne
  BY Constants DEF Init, Order, Entry, ClosedByOne
<1> QED BY <1>1, <1>2, <1>3 DEF SignalingInv

-----------------------------------------------------------------------------
(* The registry and the DELETE handlers, entry by entry *)

\* The places of a DELETE handler.
Place == {"none", "sent", "found", "closing", "done", "missed"}

LEMMA DeleteSet ==
  ASSUME TypeOK, NEW x \in Session, NEW i \in Copy, NEW v \in Place,
         delete' = [delete EXCEPT ![x][i] = v]
  PROVE  /\ delete' \in [Session -> [Copy -> Place]]
         /\ \A y \in Session, j \in Copy :
              delete'[y][j] = IF y = x /\ j = i THEN v ELSE delete[y][j]
<1>1. delete \in [Session -> [Copy -> Place]]
  BY DEF TypeOK, Place
<1> QED BY <1>1

\* DELETE handler i of session x moves to place v, and no other does.
Moves(x, i, v) ==
  \A y \in Session, j \in Copy :
    delete'[y][j] = IF y = x /\ j = i THEN v ELSE delete[y][j]

LEMMA DeleteMoves ==
  ASSUME TypeOK, NEW x \in Session, NEW i \in Copy, NEW v, delete' = [delete EXCEPT ![x][i] = v]
  PROVE  Moves(x, i, v)
<1>1. delete \in [Session -> [Copy -> Place]]
  BY DEF TypeOK, Place
<1> QED BY <1>1 DEF Moves

LEMMA LookUpMoves ==
  ASSUME TypeOK, NEW x \in Session, NEW i \in Copy, LookUp(x, i)
  PROVE  Moves(x, i, IF entry["server"][x] = "server" THEN "found" ELSE "missed")
<1>1. delete' = [delete EXCEPT ![x][i] = IF entry["server"][x] = "server" THEN "found" ELSE "missed"]
  BY DEF LookUp, SetDelete
<1> QED BY <1>1, DeleteMoves

LEMMA TestClosedMoves ==
  ASSUME TypeOK, NEW x \in Session, NEW i \in Copy, TestClosed(x, i)
  PROVE  Moves(x, i, IF target[x] = "none" \/ closed[x] THEN "done" ELSE "closing")
<1>1. delete' = [delete EXCEPT ![x][i] = IF target[x] = "none" \/ closed[x] THEN "done" ELSE "closing"]
  BY DEF TestClosed, SetDelete
<1> QED BY <1>1, DeleteMoves

LEMMA CloseTargetMoves ==
  ASSUME TypeOK, NEW x \in Session, NEW i \in Copy, CloseTarget(x, i)
  PROVE  Moves(x, i, "done")
<1>1. delete' = [delete EXCEPT ![x][i] = "done"]
  BY DEF CloseTarget, SetDelete
<1> QED BY <1>1, DeleteMoves

\* A served DELETE stays served, and one that is done stays done.
LEMMA ClosingKeeps ==
  ASSUME TypeOK, NEW x \in Session, NEW i \in Copy, TestClosed(x, i) \/ CloseTarget(x, i),
         NEW y \in Session, NEW j \in Copy
  PROVE  /\ Served(y, j)' <=> Served(y, j)
         /\ Finds(y, j)' <=> Finds(y, j)
         /\ delete[y][j] = "none" <=> delete'[y][j] = "none"
<1>1. CASE TestClosed(x, i)
  <2>1. Moves(x, i, "done") \/ Moves(x, i, "closing")
    BY <1>1, TestClosedMoves
  <2>2. delete[x][i] = "found"
    BY <1>1 DEF TestClosed
  <2> QED BY <2>1, <2>2 DEF Moves, Served, Finds
<1>2. CASE CloseTarget(x, i)
  <2>1. Moves(x, i, "done") /\ delete[x][i] = "closing"
    BY <1>2, CloseTargetMoves DEF CloseTarget
  <2> QED BY <2>1 DEF Moves, Served, Finds
<1> QED BY <1>1, <1>2

LEMMA SendingMoves ==
  ASSUME TypeOK, NEW x \in Session, Finish(x) \/ CloseAgain(x)
  PROVE  \/ UNCHANGED delete
         \/ client[x] = "over" /\ delete[x][2] = "none" /\ Moves(x, 2, "sent")
         \/ client[x] = "open" /\ Moves(x, 1, "sent")
<1>1. CASE UNCHANGED delete
  BY <1>1
<1>2. CASE delete' = [delete EXCEPT ![x][1] = "sent"] /\ Finish(x)
  BY <1>2, DeleteMoves, Constants DEF Finish
<1>3. CASE CloseAgain(x)
  <2>1. delete' = [delete EXCEPT ![x][2] = "sent"]
    BY <1>3 DEF CloseAgain
  <2>2. Moves(x, 2, "sent")
    BY <2>1, DeleteMoves, Constants
  <2> QED BY <1>3, <2>2 DEF CloseAgain
<1> QED BY <1>1, <1>2, <1>3 DEF Finish

LEMMA EntryPut ==
  ASSUME TypeOK, NEW p \in Process, NEW x \in Session, NEW v \in {"none", "server", "client"},
         PutEntry(p, x, v)
  PROVE  /\ entry' \in [Process -> [Session -> {"none", "server", "client"}]]
         /\ \A q \in Process, y \in Session :
              entry'[q][y] = IF q = p /\ y = x THEN v ELSE entry[q][y]
<1>1. entry \in [Process -> [Session -> {"none", "server", "client"}]]
  BY DEF TypeOK
<1> QED BY <1>1 DEF PutEntry

LEMMA TypeKept == TypeOK /\ [Next]_vars => TypeOK'
<1> SUFFICES ASSUME TypeOK, [Next]_vars PROVE TypeOK'
  OBVIOUS
<1> USE Constants, SignalingAssumption DEF TypeOK, Put
<1>1. ASSUME NEW x \in Session, NEW i \in 1..2, StartTunnel(x,i) PROVE TypeOK'
  BY <1>1 DEF StartTunnel, ClientProcess
<1>2. ASSUME NEW x \in Session, NEW p \in Paths, StartDial(x,p) PROVE TypeOK'
  BY <1>2 DEF StartDial, ClientProcess
<1>3. ASSUME NEW x \in Session, Answered(x) PROVE TypeOK'
  BY <1>3 DEF Answered, ClientProcess
<1>4. ASSUME NEW x \in Session, Fails(x) PROVE TypeOK'
  BY <1>4 DEF Fails, ClientProcess
<1>5. ASSUME NEW x \in Session, Posting(x) PROVE TypeOK'
  <2>1. CASE Resolve(x)
    BY <2>1 DEF Resolve, ClientProcess
  <2>2. CASE Refuse(x)
    BY <2>2 DEF Refuse, ClientProcess
  <2>3. CASE Store(x)
    BY <2>3, EntryPut DEF Store, ClientProcess
  <2> QED BY <1>5, <2>1, <2>2, <2>3 DEF Posting
<1>6. ASSUME NEW x \in Session, Register(x) PROVE TypeOK'
  <2>1. entry' \in [Process -> [Session -> {"none", "server", "client"}]]
    BY <1>6, EntryPut DEF Register
  <2>2. ClientProcess' = ClientProcess
    BY <1>6 DEF Register, ClientProcess
  <2>3. CASE via[x] = 0
    <3>1. client' = [client EXCEPT ![x] = "waiting"] /\ lock' = [lock EXCEPT ![ClientProcess] = x]
      BY <1>6, <2>3 DEF Register
    <3>2. \A y \in Session : client'[y] = "waiting" <=> lock'[ClientProcess] = y
      BY <1>6, <3>1 DEF Register
    <3> QED BY <1>6, <2>1, <2>2, <3>1, <3>2 DEF Register
  <2>4. CASE via[x] # 0
    <3>1. client' = [client EXCEPT ![x] = "open"] /\ lock' = lock
      BY <1>6, <2>4 DEF Register
    <3>2. \A y \in Session : client'[y] = "waiting" <=> lock'[ClientProcess] = y
      BY <1>6, <3>1 DEF Register
    <3> QED BY <1>6, <2>1, <2>2, <3>1, <3>2 DEF Register
  <2> QED BY <2>3, <2>4
<1>7. ASSUME NEW x \in Session, HandshakeEnds(x) PROVE TypeOK'
  <2>1. PICK r \in {"open", "failed"} : client' = [client EXCEPT ![x] = r]
    BY <1>7 DEF HandshakeEnds
  <2>2. ClientProcess' = ClientProcess /\ lock' = [lock EXCEPT ![ClientProcess] = None]
    BY <1>7 DEF HandshakeEnds, ClientProcess
  <2>3. \A y \in Session : client'[y] = "waiting" <=> lock'[ClientProcess] = y
    BY <1>7, <2>1, <2>2 DEF HandshakeEnds
  <2> QED BY <1>7, <2>1, <2>2, <2>3 DEF HandshakeEnds
<1>8. ASSUME NEW x \in Session, Finish(x) PROVE TypeOK'
  <2>1. delete' \in [Session -> [Copy -> Place]]
    BY <1>8, DeleteSet DEF Finish, Place
  <2> QED BY <1>8, <2>1 DEF Finish, ClientProcess, Place
<1>9. ASSUME NEW x \in Session, CloseAgain(x) PROVE TypeOK'
  <2>1. delete' \in [Session -> [Copy -> Place]]
    BY <1>9, DeleteSet DEF CloseAgain, Place
  <2> QED BY <1>9, <2>1 DEF CloseAgain, ClientProcess, Place
<1>10. ASSUME NEW x \in Session, DialTarget(x) \/ TargetEnds(x) PROVE TypeOK'
  <2>0. \/ target' = target
        \/ target' = [target EXCEPT ![x] = "open"]
        \/ target' = [target EXCEPT ![x] = "closed"]
    BY <1>10 DEF DialTarget, TargetEnds
  <2>1. target' \in [Session -> {"none", "open", "closed"}]
    BY <2>0
  <2>2. closed' = closed \/ closed' = [closed EXCEPT ![x] = TRUE]
    BY <1>10 DEF DialTarget, TargetEnds
  <2>3. closed' \in [Session -> BOOLEAN]
    BY <2>2
  <2>4. /\ UNCHANGED <<shared, client, handler, closes, delete, lock, entry>>
        /\ ClientProcess' = ClientProcess
    BY <1>10 DEF DialTarget, TargetEnds, ClientProcess
  <2> QED BY <2>1, <2>3, <2>4
<1>11. ASSUME NEW x \in Session, NEW i \in Copy, LookUp(x, i) PROVE TypeOK'
  <2>1. delete' \in [Session -> [Copy -> Place]]
    BY <1>11, DeleteSet DEF LookUp, Place, SetDelete
  <2>2. entry' \in [Process -> [Session -> {"none", "server", "client"}]]
    BY <1>11, EntryPut DEF LookUp
  <2> QED BY <1>11, <2>1, <2>2 DEF LookUp, ClientProcess, Place
<1>12. ASSUME NEW x \in Session, NEW i \in Copy, TestClosed(x, i) PROVE TypeOK'
  <2>1. delete' \in [Session -> [Copy -> Place]]
    BY <1>12, DeleteSet DEF TestClosed, Place, SetDelete
  <2> QED BY <1>12, <2>1 DEF TestClosed, ClientProcess, Place
<1>13. ASSUME NEW x \in Session, NEW i \in Copy, CloseTarget(x, i) PROVE TypeOK'
  <2>1. delete' \in [Session -> [Copy -> Place]]
    BY <1>13, DeleteSet DEF CloseTarget, Place, SetDelete
  <2>2. closes' \in [Session -> Nat]
    BY <1>13 DEF CloseTarget
  <2>3. target' \in [Session -> {"none", "open", "closed"}] /\ closed' \in [Session -> BOOLEAN]
    BY <1>13 DEF CloseTarget
  <2> QED BY <1>13, <2>1, <2>2, <2>3 DEF CloseTarget, ClientProcess, Place
<1>14. CASE UNCHANGED vars
  BY <1>14 DEF vars, ClientProcess
<1> QED BY <1>1, <1>2, <1>3, <1>4, <1>5, <1>6, <1>7, <1>8, <1>9, <1>10, <1>11, <1>12, <1>13, <1>14
        DEF Next, Deleting

-----------------------------------------------------------------------------

LEMMA OrderKept == TypeOK /\ Order /\ [Next]_vars => Order'
<1> SUFFICES ASSUME TypeOK, Order, [Next]_vars PROVE Order'
  OBVIOUS
<1> USE Constants DEF TypeOK, Order, Put
<1>1. ASSUME NEW x \in Session, NEW i \in 1..2, StartTunnel(x, i) PROVE Order'
  BY <1>1 DEF StartTunnel
<1>2. ASSUME NEW x \in Session, NEW p \in Paths, StartDial(x, p) PROVE Order'
  BY <1>2 DEF StartDial
<1>3. ASSUME NEW x \in Session, Answered(x) \/ Fails(x) PROVE Order'
  BY <1>3 DEF Answered, Fails
<1>4. ASSUME NEW x \in Session, Resolve(x) \/ Refuse(x) PROVE Order'
  BY <1>4 DEF Resolve, Refuse
<1>5. ASSUME NEW x \in Session, Store(x) PROVE Order'
  <2>1. \A y \in Session : entry'["server"][y] = IF y = x THEN "server" ELSE entry["server"][y]
    BY <1>5, EntryPut DEF Store
  <2> QED BY <1>5, <2>1 DEF Store
<1>6. ASSUME NEW x \in Session, Register(x) PROVE Order'
  <2>1. \A y \in Session : y # x => entry'["server"][y] = entry["server"][y]
    BY <1>6, EntryPut DEF Register
  <2>2. UNCHANGED <<handler, delete>> /\ handler[x] = "answered"
    BY <1>6 DEF Register
  <2>3. \A y \in Session : y # x => client'[y] = client[y]
    BY <1>6 DEF Register
  <2>4. \A i \in Copy : delete[x][i] = "none"
    BY <1>6 DEF Register
  <2> QED BY <2>1, <2>2, <2>3, <2>4
<1>7. ASSUME NEW x \in Session, HandshakeEnds(x) PROVE Order'
  BY <1>7 DEF HandshakeEnds
\* The client is over when it sends the first DELETE, and the transport repeats
\* only what was sent.
<1>8. ASSUME NEW x \in Session, Finish(x) \/ CloseAgain(x) PROVE Order'
  <2>1. \A y \in Session, i \in Copy : y # x => delete'[y][i] = delete[y][i]
    BY <1>8, SendingMoves DEF Moves
  <2>2. UNCHANGED <<handler, entry>>
    BY <1>8 DEF Finish, CloseAgain
  <2>3. client[x] \in {"open", "over"} /\ client'[x] = "over"
    BY <1>8 DEF Finish, CloseAgain
  <2>4. \A y \in Session : y # x => client'[y] = client[y]
    BY <1>8 DEF Finish, CloseAgain
  <2> SUFFICES ASSUME NEW y \in Session PROVE
         /\ client'[y] \in {"answered", "waiting", "open", "over"} => handler'[y] = "answered"
         /\ handler'[y] # "answered" => entry'["server"][y] = "none"
         /\ \A i \in Copy : delete'[y][i] # "none" => client'[y] = "over"
    OBVIOUS
  <2>5. CASE y = x
    BY <2>2, <2>3, <2>5
  <2>6. CASE y # x
    BY <2>1, <2>2, <2>4, <2>6
  <2> QED BY <2>5, <2>6
<1>9. ASSUME NEW x \in Session, DialTarget(x) \/ TargetEnds(x) PROVE Order'
  BY <1>9 DEF DialTarget, TargetEnds
<1>10. ASSUME NEW x \in Session, NEW i \in Copy, LookUp(x, i) PROVE Order'
  <2>1. \A y \in Session, j \in Copy : delete'[y][j] # "none" => delete[y][j] # "none"
    <3>1. Moves(x, i, IF entry["server"][x] = "server" THEN "found" ELSE "missed")
      BY <1>10, LookUpMoves
    <3>2. delete[x][i] # "none"
      BY <1>10 DEF LookUp
    <3> QED BY <3>1, <3>2 DEF Moves
  <2>2. \A y \in Session : entry'["server"][y] = IF y = x THEN "none" ELSE entry["server"][y]
    BY <1>10, EntryPut DEF LookUp
  <2> QED BY <1>10, <2>1, <2>2 DEF LookUp
<1>11. ASSUME NEW x \in Session, NEW i \in Copy, TestClosed(x, i) \/ CloseTarget(x, i)
       PROVE Order'
  <2>1. \A y \in Session, j \in Copy : delete'[y][j] # "none" => delete[y][j] # "none"
    BY <1>11, ClosingKeeps
  <2> QED BY <1>11, <2>1 DEF TestClosed, CloseTarget
<1>12. CASE UNCHANGED vars
  BY <1>12 DEF vars
<1> QED BY <1>1, <1>2, <1>3, <1>4, <1>5, <1>6, <1>7, <1>8, <1>9, <1>10, <1>11, <1>12
        DEF Next, Posting, Deleting

\* Sending a DELETE serves none.
LEMMA SendingKeeps ==
  ASSUME TypeOK, Order, NEW x \in Session, Finish(x) \/ CloseAgain(x), NEW y \in Session, NEW j \in Copy
  PROVE  /\ Served(y, j)' <=> Served(y, j)
         /\ Served(y, j) => delete'[y][j] = delete[y][j]
<1> USE Constants
<1>1. CASE UNCHANGED delete
  BY <1>1 DEF Served
<1>2. CASE delete[x][2] = "none" /\ Moves(x, 2, "sent")
  BY <1>2 DEF Moves, Served
<1>3. CASE client[x] = "open" /\ Moves(x, 1, "sent")
  <2>1. delete[x][1] = "none"
    BY <1>3 DEF Order
  <2> QED BY <1>3, <2>1 DEF Moves, Served
<1> QED BY <1>1, <1>2, <1>3, SendingMoves

LEMMA EntryKept == TypeOK /\ Order /\ Entry /\ [Next]_vars => Entry'
<1> SUFFICES ASSUME TypeOK, Order, Entry, [Next]_vars PROVE Entry'
  OBVIOUS
<1> USE Constants DEF TypeOK, Entry, SomeServed, Served, Put
<1>1. ASSUME NEW x \in Session, NEW i \in 1..2, StartTunnel(x, i) PROVE Entry'
  BY <1>1 DEF StartTunnel
<1>2. ASSUME NEW x \in Session, NEW p \in Paths, StartDial(x, p) PROVE Entry'
  BY <1>2 DEF StartDial
<1>3. ASSUME NEW x \in Session, Answered(x) \/ Fails(x) PROVE Entry'
  BY <1>3 DEF Answered, Fails
<1>4. ASSUME NEW x \in Session, Resolve(x) \/ Refuse(x) PROVE Entry'
  <2>1. UNCHANGED <<shared, client, delete, entry>>
    BY <1>4 DEF Resolve, Refuse
  <2>2. \A y \in Session : handler'[y] = "answered" => handler[y] = "answered"
    BY <1>4 DEF Resolve, Refuse
  <2> QED BY <2>1, <2>2
<1>5. ASSUME NEW x \in Session, Store(x) PROVE Entry'
  <2>1. \A y \in Session : entry'["server"][y] = IF y = x THEN "server" ELSE entry["server"][y]
    BY <1>5, EntryPut DEF Store
  <2>2. /\ UNCHANGED <<shared, delete>>
        /\ \A y \in Session : y # x => handler'[y] = handler[y]
    BY <1>5 DEF Store
  <2> QED BY <2>1, <2>2
\* With one process the client's Connection replaces the server's; with two it
\* goes into the registry of the client.
<1>6. ASSUME NEW x \in Session, Register(x) PROVE Entry'
  <2>1. /\ UNCHANGED <<shared, handler, delete>>
        /\ \A y \in Session : y # x => client'[y] = client[y]
    BY <1>6 DEF Register
  <2>2. CASE shared
    <3>1. \A y \in Session : entry'["server"][y] = IF y = x THEN "client" ELSE entry["server"][y]
      BY <1>6, <2>2, EntryPut DEF Register, ClientProcess
    <3> QED BY <2>1, <2>2, <3>1
  <2>3. CASE ~shared
    <3>1. \A y \in Session : entry'["server"][y] = entry["server"][y]
      BY <1>6, <2>3, EntryPut DEF Register, ClientProcess
    <3> QED BY <2>1, <2>3, <3>1
  <2> QED BY <2>2, <2>3
<1>7. ASSUME NEW x \in Session, HandshakeEnds(x) PROVE Entry'
  BY <1>7 DEF HandshakeEnds
<1>8. ASSUME NEW x \in Session, Finish(x) \/ CloseAgain(x) PROVE Entry'
  <2>1. \A y \in Session, i \in Copy : Served(y, i)' <=> Served(y, i)
    BY <1>8, SendingKeeps
  <2>2. UNCHANGED <<shared, handler, entry>>
    BY <1>8 DEF Finish, CloseAgain
  <2> QED BY <2>1, <2>2
<1>9. ASSUME NEW x \in Session, DialTarget(x) \/ TargetEnds(x) PROVE Entry'
  BY <1>9 DEF DialTarget, TargetEnds
<1>10. ASSUME NEW x \in Session, NEW i \in Copy, LookUp(x, i) PROVE Entry'
  <2>0. Moves(x, i, "found") \/ Moves(x, i, "missed")
    BY <1>10, LookUpMoves
  <2>1. /\ \A y \in Session, j \in Copy : y # x => delete'[y][j] = delete[y][j]
        /\ Served(x, i)'
    BY <2>0 DEF Moves
  <2>2. \A y \in Session : entry'["server"][y] = IF y = x THEN "none" ELSE entry["server"][y]
    BY <1>10, EntryPut DEF LookUp
  <2>3. UNCHANGED <<shared, handler>>
    BY <1>10 DEF LookUp
  <2>4. \A y \in Session : (\A j \in Copy : ~Served(y, j)') =>
                         y # x /\ \A j \in Copy : ~Served(y, j)
    BY <2>1
  <2> SUFFICES ASSUME NEW y \in Session PROVE
         /\ ~shared' => entry'["server"][y] # "client"
         /\ ~shared' /\ handler'[y] = "answered" /\ (\A j \in Copy : ~Served(y, j))'
              => entry'["server"][y] = "server"
    OBVIOUS
  <2>5. CASE y = x
    BY <2>2, <2>3, <2>4, <2>5
  <2>6. CASE y # x
    <3>1. entry'["server"][y] = entry["server"][y]
      BY <2>2, <2>6
    <3>2. /\ shared' = shared /\ handler'[y] = handler[y]
          /\ (\A j \in Copy : ~Served(y, j))' => \A j \in Copy : ~Served(y, j)
      BY <2>3, <2>4
    <3> QED BY <3>1, <3>2
  <2> QED BY <2>5, <2>6
<1>11. ASSUME NEW x \in Session, NEW i \in Copy, TestClosed(x, i) \/ CloseTarget(x, i)
       PROVE Entry'
  <2>1. \A y \in Session, j \in Copy : Served(y, j) => Served(y, j)'
    BY <1>11, ClosingKeeps
  <2>2. UNCHANGED <<shared, client, handler, entry>>
    BY <1>11 DEF TestClosed, CloseTarget
  <2> QED BY <2>1, <2>2
<1>12. CASE UNCHANGED vars
  BY <1>12 DEF vars
<1> QED BY <1>1, <1>2, <1>3, <1>4, <1>5, <1>6, <1>7, <1>8, <1>9, <1>10, <1>11, <1>12
        DEF Next, Posting, Deleting

\* The actions that leave what the DELETE handlers have done alone.
Other(x) ==
  \/ \E i \in 1..2 : StartTunnel(x, i)
  \/ \E p \in Paths : StartDial(x, p)
  \/ Answered(x) \/ Fails(x) \/ Posting(x) \/ Register(x) \/ HandshakeEnds(x)
  \/ DialTarget(x) \/ TargetEnds(x)

LEMMA OtherKeeps ==
  ASSUME NEW x \in Session, Other(x)
  PROVE  UNCHANGED <<shared, delete, closes>>
<1>1. CASE \/ \E i \in 1..2 : StartTunnel(x, i)
           \/ \E p \in Paths : StartDial(x, p)
           \/ Answered(x) \/ Fails(x)
  BY <1>1 DEF StartTunnel, StartDial, Answered, Fails
<1>2. CASE Posting(x)
  BY <1>2 DEF Posting, Resolve, Refuse, Store
<1>3. CASE Register(x) \/ HandshakeEnds(x) \/ DialTarget(x) \/ TargetEnds(x)
  BY <1>3 DEF Register, HandshakeEnds, DialTarget, TargetEnds
<1> QED BY <1>1, <1>2, <1>3 DEF Other

\* An id that was taken out does not come back: its client is over.
LEMMA OtherKeepsGone ==
  ASSUME TypeOK, Order, NEW x \in Session, Other(x),
         NEW y \in Session, client[y] = "over"
  PROVE  entry'["server"][y] = entry["server"][y]
<1> USE Constants
<1>1. handler[y] = "answered"
  BY DEF Order
<1>2. CASE Store(x)
  <2>1. x # y
    BY <1>1, <1>2 DEF Store
  <2> QED BY <1>2, <2>1, EntryPut DEF Store
<1>3. CASE Register(x)
  <2>1. x # y
    BY <1>3 DEF Register
  <2> QED BY <1>3, <2>1, EntryPut DEF Register
<1>4. CASE \/ \E i \in 1..2 : StartTunnel(x, i)
           \/ \E p \in Paths : StartDial(x, p)
           \/ Answered(x) \/ Fails(x)
  BY <1>4 DEF StartTunnel, StartDial, Answered, Fails
<1>5. CASE Resolve(x) \/ Refuse(x) \/ HandshakeEnds(x) \/ DialTarget(x) \/ TargetEnds(x)
  BY <1>5 DEF Resolve, Refuse, HandshakeEnds, DialTarget, TargetEnds
<1> QED BY <1>2, <1>3, <1>4, <1>5 DEF Other, Posting

LEMMA StepCases ==
  [Next]_vars => \/ \E x \in Session : Other(x)
                 \/ \E x \in Session : Finish(x) \/ CloseAgain(x)
                 \/ \E x \in Session, i \in Copy : LookUp(x, i)
                 \/ \E x \in Session, i \in Copy : TestClosed(x, i)
                 \/ \E x \in Session, i \in Copy : CloseTarget(x, i)
                 \/ UNCHANGED vars
<1>1. ASSUME NEW x \in Session, Deleting(x)
      PROVE \E i \in Copy : LookUp(x, i) \/ TestClosed(x, i) \/ CloseTarget(x, i)
  BY <1>1 DEF Deleting
<1>2. ASSUME NEW x \in Session, NEW i \in 1..2, StartTunnel(x, i) PROVE Other(x)
  BY <1>2 DEF Other
<1>3. ASSUME NEW x \in Session, NEW p \in Paths, StartDial(x, p) PROVE Other(x)
  BY <1>3 DEF Other
<1> QED BY <1>1, <1>2, <1>3 DEF Next, Other

LEMMA ClosedByOneKept ==
  TypeOK /\ DeleteOnce /\ Order /\ ClosedByOne /\ [Next]_vars => ClosedByOne'
<1> SUFFICES ASSUME TypeOK, DeleteOnce, Order, ClosedByOne, [Next]_vars
             PROVE ClosedByOne'
  OBVIOUS
<1> USE Constants DEF TypeOK, ClosedByOne, Put
<1>1. ASSUME NEW x \in Session, Other(x) PROVE ClosedByOne'
  BY <1>1, OtherKeeps
<1>2. ASSUME NEW x \in Session, Finish(x) \/ CloseAgain(x) PROVE ClosedByOne'
  <2>1. \A y \in Session, j \in Copy : delete[y][j] = "done" => delete'[y][j] = "done"
    <3>1. CASE UNCHANGED delete
      BY <3>1
    <3>2. CASE delete[x][2] = "none" /\ Moves(x, 2, "sent")
      BY <3>2 DEF Moves
    <3>3. CASE client[x] = "open" /\ Moves(x, 1, "sent")
      <4>1. delete[x][1] = "none"
        BY <3>3 DEF Order
      <4> QED BY <3>3, <4>1 DEF Moves
    <3> QED BY <1>2, <3>1, <3>2, <3>3, SendingMoves
  <2> QED BY <1>2, <2>1 DEF Finish, CloseAgain
<1>3. ASSUME NEW x \in Session, NEW i \in Copy, LookUp(x, i) \/ TestClosed(x, i)
      PROVE ClosedByOne'
  <2>1. \A y \in Session, j \in Copy : delete[y][j] = "done" => delete'[y][j] = "done"
    <3>1. CASE LookUp(x, i)
      BY <3>1, LookUpMoves DEF LookUp, Moves
    <3>2. CASE TestClosed(x, i)
      BY <3>2, TestClosedMoves DEF TestClosed, Moves
    <3> QED BY <1>3, <3>1, <3>2
  <2> QED BY <1>3, <2>1 DEF LookUp, TestClosed
\* The other copy did not find the Connection, so it closed nothing.
<1>4. ASSUME NEW x \in Session, NEW i \in Copy, CloseTarget(x, i) PROVE ClosedByOne'
  <2>1. Finds(x, i) /\ Served(x, i) /\ delete[x][i] # "done"
    BY <1>4 DEF CloseTarget, Finds, Served
  <2>2. \A j \in Copy : Finds(x, j) => j = i
    BY <2>1 DEF DeleteOnce
  <2>3. \A j \in Copy : delete[x][j] = "done" => Finds(x, j)
    BY DEF Finds, Served
  <2>4. closes[x] = 0
    BY <2>1, <2>2, <2>3
  <2>5. \A y \in Session : closes'[y] = IF y = x THEN 1 ELSE closes[y]
    BY <1>4, <2>4 DEF CloseTarget
  <2>6. /\ \A y \in Session, j \in Copy : delete[y][j] = "done" => delete'[y][j] = "done"
        /\ delete'[x][i] = "done"
    BY <1>4, CloseTargetMoves DEF Moves
  <2> QED BY <2>5, <2>6
<1>5. CASE UNCHANGED vars
  BY <1>5 DEF vars
<1> QED BY StepCases, <1>1, <1>2, <1>3, <1>4, <1>5

\* DeleteOnce without the number of closes: what it says of registry and handlers.
Gone(x) ==
  /\ \A i, j \in Copy : Finds(x, i) /\ Finds(x, j) => i = j
  /\ SomeServed(x) => entry["server"][x] = "none" /\ (shared \/ SomeFinds(x))

LEMMA GoneKept ==
  TypeOK /\ Order /\ Entry /\ (\A x \in Session : Gone(x)) /\ [Next]_vars
    => \A x \in Session : Gone(x)'
<1> SUFFICES ASSUME TypeOK, Order, Entry, \A x \in Session : Gone(x), [Next]_vars,
                    NEW y \in Session
             PROVE  Gone(y)'
  OBVIOUS
<1> USE Constants DEF Gone, SomeServed, SomeFinds
<1>0. ASSUME NEW i \in Copy, Served(y, i) PROVE client[y] = "over"
  BY <1>0 DEF Order, Served
<1>1. ASSUME NEW x \in Session, Other(x) PROVE Gone(y)'
  <2>1. /\ \A j \in Copy : Served(y, j)' <=> Served(y, j)
        /\ \A j \in Copy : Finds(y, j)' <=> Finds(y, j)
        /\ shared' = shared
    BY <1>1, OtherKeeps DEF Served, Finds
  <2>2. (\E i \in Copy : Served(y, i)) => entry'["server"][y] = entry["server"][y]
    BY <1>0, <1>1, OtherKeepsGone
  <2> QED BY <2>1, <2>2
<1>2. ASSUME NEW x \in Session, Finish(x) \/ CloseAgain(x) PROVE Gone(y)'
  <2>1. \A j \in Copy : /\ Served(y, j)' <=> Served(y, j)
                        /\ Served(y, j) => delete'[y][j] = delete[y][j]
    BY <1>2, SendingKeeps
  <2>2. \A j \in Copy : Finds(y, j)' <=> Finds(y, j)
    BY <2>1 DEF Finds
  <2> QED BY <1>2, <2>1, <2>2 DEF Finish, CloseAgain
<1>3. ASSUME NEW x \in Session, NEW i \in Copy, LookUp(x, i) PROVE Gone(y)'
  <2>1. CASE y # x
    <3>1. \A j \in Copy : delete'[y][j] = delete[y][j]
      BY <1>3, <2>1, LookUpMoves DEF Moves
    <3>2. entry'["server"][y] = entry["server"][y]
      BY <1>3, <2>1, EntryPut DEF LookUp
    <3> QED BY <1>3, <3>1, <3>2 DEF LookUp, Served, Finds
  <2>2. CASE y = x
    <3>1. /\ delete'[y][i] = IF entry["server"][y] = "server" THEN "found" ELSE "missed"
          /\ \A j \in Copy : j # i => delete'[y][j] = delete[y][j]
      BY <1>3, <2>2, LookUpMoves DEF Moves
    <3>2. entry'["server"][y] = "none" /\ shared' = shared
      BY <1>3, <2>2, EntryPut DEF LookUp
    <3>3. ~Served(y, i) /\ ~Finds(y, i) /\ client[y] = "over" /\ handler[y] = "answered"
      BY <1>3, <2>2 DEF LookUp, Served, Finds, Order
    <3>4. \A j \in Copy : j # i => (Finds(y, j)' <=> Finds(y, j))
      BY <3>1 DEF Finds, Served
    <3>5. Finds(y, i)' <=> entry["server"][y] = "server"
      BY <3>1 DEF Finds, Served
    <3>6. CASE \E j \in Copy : Served(y, j)
      BY <3>2, <3>3, <3>4, <3>5, <3>6
    <3>7. CASE \A j \in Copy : ~Served(y, j)
      BY <3>2, <3>3, <3>4, <3>5, <3>7 DEF Entry, Finds
    <3> QED BY <3>6, <3>7
  <2> QED BY <2>1, <2>2
<1>4. ASSUME NEW x \in Session, NEW i \in Copy, TestClosed(x, i) \/ CloseTarget(x, i)
      PROVE Gone(y)'
  <2>1. /\ \A j \in Copy : Served(y, j)' <=> Served(y, j)
        /\ \A j \in Copy : Finds(y, j)' <=> Finds(y, j)
    BY <1>4, ClosingKeeps
  <2>2. UNCHANGED <<shared, entry>>
    BY <1>4 DEF TestClosed, CloseTarget
  <2> QED BY <2>1, <2>2
<1>5. CASE UNCHANGED vars
  BY <1>5 DEF vars, Served, Finds
<1> QED BY StepCases, <1>1, <1>2, <1>3, <1>4, <1>5

LEMMA DeleteOnceKept == SignalingInv /\ [Next]_vars => DeleteOnce'
<1> SUFFICES ASSUME SignalingInv, [Next]_vars PROVE DeleteOnce'
  OBVIOUS
<1>1. TypeOK' /\ ClosedByOne'
  BY TypeKept, ClosedByOneKept DEF SignalingInv
<1>2. \A x \in Session : (closes[x] <= 1)'
  BY <1>1 DEF ClosedByOne, TypeOK
<1>3. \A x \in Session : Gone(x)'
  BY GoneKept DEF SignalingInv, DeleteOnce, Gone
<1> QED BY <1>2, <1>3 DEF DeleteOnce, Gone

-----------------------------------------------------------------------------

\* The inductive invariant: order of the registrations, whose Connection the
\* registry holds, and who closed the target.
THEOREM InvariantHolds == Spec => []SignalingInv
<1>1. SignalingInv /\ [Next]_vars => SignalingInv'
  BY TypeKept, OrderKept, EntryKept, ClosedByOneKept, DeleteOnceKept DEF SignalingInv
<1> QED BY InitEstablishes, <1>1, PTL DEF Spec

\* Every variable keeps its type, and connectionsLock is held across steps by
\* the one dial that waits for its handshake.
THEOREM TypeCorrect == Spec => []TypeOK
<1>1. SignalingInv => TypeOK
  BY DEF SignalingInv
<1> QED BY InvariantHolds, <1>1, PTL

\* Two closers of one connection, whatever their DELETEs race with: the id
\* does not come back, at most one handler finds the server's Connection (one
\* does, if the client is a process of its own), and the target connection is
\* closed by them at most once.
THEOREM DeleteIsIdempotent == Spec => []DeleteOnce
<1>1. SignalingInv => DeleteOnce
  BY DEF SignalingInv
<1> QED BY InvariantHolds, <1>1, PTL

-----------------------------------------------------------------------------
(* The ports of a target *)

\* What the command line passes on: lists of a name and at least one port.
Lists ==
  \A l \in TargetLists :
    /\ DOMAIN l \subseteq Nat
    /\ \A i \in DOMAIN l : l[i].name \in Seq(Token) /\ l[i].ports \in Seq(Token) \ {<<>>}

\* Every offset into a range can be written down.
Offsets ==
  \A l \in TargetLists : \A i \in DOMAIN l : TargetOk(l[i]) =>
    \A n \in 0..(LastPort(l[i]) - FirstPort(l[i])) : \E t \in Token : IsNumber(t) /\ Number[t] = n

LEMMA PortsAreNumbers ==
  ASSUME NEW spec, spec.ports \in Seq(Token) \ {<<>>}, TargetOk(spec)
  PROVE  FirstPort(spec) \in Nat /\ LastPort(spec) \in Nat /\ FirstPort(spec) <= LastPort(spec)
<1>1. Len(spec.ports) \in Nat \ {0} /\ DOMAIN spec.ports = 1..Len(spec.ports)
  OBVIOUS
<1>2. IsNumber(spec.ports[1]) /\ (Len(spec.ports) # 1 => IsNumber(spec.ports[2]))
  <2>1. 1 \in {1, 2} \cap DOMAIN spec.ports
    BY <1>1
  <2>2. Len(spec.ports) # 1 => 2 \in {1, 2} \cap DOMAIN spec.ports
    <3>1. ASSUME NEW k \in Nat \ {0}, k # 1 PROVE 2 \in 1..k
      BY <3>1
    <3> QED BY <1>1, <3>1
  <2> QED BY <2>1, <2>2 DEF TargetOk
<1> QED BY <1>2, TargetsAssumption DEF TargetOk, FirstPort, LastPort, IsNumber

\* The specification that wins its name is the one that is served under it.
LEMMA WinnerIsServed ==
  ASSUME Lists, specs \in TargetLists, NEW i \in DOMAIN specs, Wins(specs, i)
  PROVE  /\ specs[i].name \in DOMAIN targets
         /\ targets[specs[i].name] = ParseTarget(specs[i])
<1> DEFINE First == CHOOSE j \in DOMAIN specs : specs[j].name = specs[i].name /\ Wins(specs, j)
<1>1. First \in DOMAIN specs /\ specs[First].name = specs[i].name /\ Wins(specs, First)
  OBVIOUS
<1>2. First <= i /\ i <= First
  BY <1>1 DEF Wins
<1>3. First = i
  BY <1>1, <1>2 DEF Lists
<1> QED BY <1>3 DEF targets, ParseTargets

LEMMA RangeReached ==
  ASSUME Lists, Offsets, specs \in TargetLists, NEW i \in DOMAIN specs, TargetOk(specs[i]),
         Wins(specs, i), Len(specs[i].name) = 1
  PROVE  Reaches(specs[i].name[1])
           = {[host |-> specs[i].host, port |-> n] : n \in FirstPort(specs[i])..LastPort(specs[i])}
<1> DEFINE t == specs[i].name[1]
           low == FirstPort(specs[i])
           high == LastPort(specs[i])
           At(n) == [host |-> specs[i].host, port |-> n]
           Asked == {<<t>>} \cup {<<t, u>> : u \in Token}
<1>1. low \in Nat /\ high \in Nat /\ low <= high
  BY PortsAreNumbers DEF Lists
<1>2. <<t>> = specs[i].name
  BY DEF Lists
<1>3. /\ <<t>> \in DOMAIN targets
      /\ targets[<<t>>] = [host |-> specs[i].host, start |-> low, count |-> high - low + 1]
  BY <1>2, WinnerIsServed DEF ParseTarget
<1>4. Found(targets, <<t>>) /\ Address(targets, <<t>>) = At(low)
  BY <1>1, <1>3 DEF Found, Address, Offset, InRange
<1>5. ASSUME NEW u \in Token
      PROVE  /\ Found(targets, <<t, u>>) <=> IsNumber(u) /\ (Number[u] = 0 \/ Number[u] < high - low + 1)
             /\ Found(targets, <<t, u>>) => Address(targets, <<t, u>>) = At(low + Number[u])
  BY <1>3 DEF Found, Address, Offset, InRange
<1>6. ASSUME NEW p \in Asked, Found(targets, p)
      PROVE  \E n \in low..high : Address(targets, p) = At(n)
  <2>1. CASE p = <<t>>
    BY <1>1, <1>4, <2>1
  <2>2. ASSUME NEW u \in Token, p = <<t, u>> PROVE \E n \in low..high : Address(targets, p) = At(n)
    <3>1. Number[u] \in Nat /\ (Number[u] = 0 \/ Number[u] < high - low + 1)
      BY <1>5, <1>6, <2>2, TargetsAssumption DEF IsNumber
    <3>2. low + Number[u] \in low..high
      BY <1>1, <3>1
    <3> QED BY <1>5, <1>6, <2>2, <3>2
  <2> QED BY <2>1, <2>2
<1>7. ASSUME NEW n \in low..high
      PROVE  \E p \in Asked : Found(targets, p) /\ Address(targets, p) = At(n)
  <2>1. n - low \in 0..(high - low) /\ low + (n - low) = n
    BY <1>1
  <2>2. PICK u \in Token : IsNumber(u) /\ Number[u] = n - low
    BY <2>1 DEF Offsets
  <2>3. Number[u] < high - low + 1
    BY <1>1, <2>1, <2>2
  <2>4. Found(targets, <<t, u>>)
    BY <1>5, <2>2, <2>3
  <2> QED BY <1>5, <2>1, <2>2, <2>4
<1>8. Reaches(t) = {Address(targets, p) : p \in {q \in Asked : Found(targets, q)}}
  BY DEF Reaches
<1> HIDE DEF At, Asked, t, low, high
<1>9. Reaches(t) = {At(n) : n \in low..high}
  BY <1>6, <1>7, <1>8
<1> QED BY <1>9 DEF At, t, low, high

\* The configuration never changes.
LEMMA ConfigKept == [Next]_vars => UNCHANGED config
  BY DEF Next, vars, StartTunnel, StartDial, Answered, Fails, Posting, Resolve, Refuse, Store,
         Register, HandshakeEnds, Finish, CloseAgain, DialTarget, TargetEnds, Deleting, LookUp,
         TestClosed, CloseTarget

\* Parser and handler agree: for all specifications, the paths of a target
\* reach every port of its range and no other.
THEOREM ServesWholeRange ==
  ASSUME Lists, Offsets
  PROVE  Spec => []RangesServed
<1> DEFINE Started == specs \in TargetLists /\ \A i \in DOMAIN specs : TargetOk(specs[i])
<1>1. Init => Started
  BY DEF Init
<1>2. Started /\ [Next]_vars => Started'
  <2>1. [Next]_vars => specs' = specs
    BY ConfigKept
  <2> QED BY <2>1
<1>3. Started => RangesServed
  BY RangeReached DEF RangesServed
<1> HIDE DEF Started
<1> QED BY <1>1, <1>2, <1>3, PTL DEF Spec
=============================================================================
