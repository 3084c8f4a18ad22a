------------------------- MODULE WorkerProcessProofs -------------------------
(***************************************************************************)
(* Proofs about WorkerProcess, for any activities, threads and limits.     *)
(*                                                                         *)
(* A loop that never called the model beside another is the only one in    *)
(* run_agent when it is there, so what setup_llm left it finds again. A    *)
(* connection belongs to an activity that is at its statements; of those   *)
(* the threads allow Threads and the worker's loop one, which is no more   *)
(* than PoolMax together with the one that asks.                           *)
(***************************************************************************)
EXTENDS WorkerProcess, FiniteSetTheorems, TLAPS

\* The default client and its name, as a loop that met no other finds them.
Clients ==
    /\ \A t, u \in Tasks :
          (pc[t] \in Agent /\ pc[u] \in Agent /\ LoopOf(t) # LoopOf(u))
              => LoopOf(t) \in met
    /\ \A t \in Tasks : LoopOf(t) \notin met =>
          /\ pc[t] = "naming" => client = LoopOf(t)
          /\ pc[t] \in {"ready", "asking", "sleeping"}
                => client = LoopOf(t) /\ named = LoopOf(t)
    /\ \A l \in Loops : (l \notin met /\ named = l)
          => \/ client = l
             \/ \E u \in Tasks : pc[u] = "naming" /\ LoopOf(u) # l
    /\ AloneThroughOwnClient

\* Who can hold a connection, and that nobody holds two.
Room ==
    /\ taken = {<<t, 1>> : t \in {u \in Tasks : pc[u] = "holding"}}
    /\ IsFiniteSet(OnThreads) /\ Cardinality(OnThreads) <= Threads
    /\ \A t, u \in Calls : (t # u /\ pc[t] \notin Suspended) => pc[u] \in Suspended

\* Only a job or a call of the model is in run_agent: they have a loop.
Kinds == \A t \in Tasks : pc[t] \in Agent => LoopOf(t) \in Loops

IInv == TypeOK /\ OnePool /\ Kinds /\ Clients /\ Room

----------------------------------------------------------------------------
LEMMA InitIInv == Init => IInv
<1> SUFFICES ASSUME Init PROVE IInv
  OBVIOUS
<1>1. TypeOK /\ OnePool
  BY DEF Init, TypeOK, OnePool, Points, Suspended
<1>2. Kinds /\ Clients
  BY NamesAssumption DEF Init, Kinds, Clients, AloneThroughOwnClient, Agent, Loops
<1>3. Room
  <2>1. OnThreads = {}
    BY DEF Init, OnThreads, Tasks
  <2>2. \A t \in Calls : pc[t] \in Suspended
    BY DEF Init, Tasks, Suspended
  <2>3. taken = {} /\ {u \in Tasks : pc[u] = "holding"} = {}
    BY DEF Init
  <2> QED BY <2>1, <2>2, <2>3, FS_EmptySet, SizesAssumption DEF Room
<1> QED BY <1>1, <1>2, <1>3 DEF IInv

----------------------------------------------------------------------------
(* Types.                                                                  *)

LEMMA TypeStep ==
    ASSUME TypeOK, OnePool, Kinds, Room, NEW t \in Tasks, TaskStep(t)
    PROVE  TypeOK' /\ OnePool' /\ Kinds'
<1> USE DEF TypeOK, OnePool, Kinds, Goto, Points, Suspended, Agent, Loops,
            globals, database
<1>1. CASE Start(t)
  BY <1>1 DEF Start
<1>2. CASE Query(t)
  BY <1>2 DEF Query
<1>3. CASE Finish(t)
  BY <1>3 DEF Finish
<1>4. CASE SetupLlm(t)
  <2>1. LoopOf(t) \in Loops
    BY <1>4 DEF SetupLlm, Begins, LoopOf
  <2>2. Beside(t) \subseteq Loops
    BY DEF Beside
  <2>3. met' \subseteq Loops
    BY <1>4, <2>1, <2>2 DEF SetupLlm
  <2> QED BY <1>4, <2>1, <2>3 DEF SetupLlm
<1>5. CASE SetDefaultClient(t)
  BY <1>5 DEF SetDefaultClient
<1>6. CASE SetClientLoop(t)
  BY <1>6 DEF SetClientLoop
<1>7. CASE Ask(t)
  BY <1>7 DEF Ask
<1>8. CASE Answered(t)
  BY <1>8 DEF Answered
<1>9. CASE AskAgain(t)
  BY <1>9 DEF AskAgain
<1>10. CASE AskFails(t)
  BY <1>10 DEF AskFails
<1>11. CASE MissPool(t)
  BY <1>11 DEF MissPool
<1>12. CASE Lock(t)
  BY <1>12 DEF Lock
<1>13. CASE OpenPool(t)
  BY <1>13 DEF OpenPool
<1>14. CASE Take(t)
  <2>1. Of(t) = {}
    BY <1>14 DEF Take, Of, Room
  <2>2. Cardinality(Of(t)) = 0
    BY <2>1, FS_EmptySet
  <2>3. taken' \subseteq Tasks \X (Nat \ {0})
    BY <1>14, <2>2 DEF Take
  <2> QED BY <1>14, <2>3 DEF Take
<1>15. CASE Release(t)
  <2>1. failed' \subseteq Jobs
    BY <1>15 DEF Release, After
  <2> QED BY <1>15, <2>1 DEF Release, After, Of
<1> QED BY <1>1, <1>2, <1>3, <1>4, <1>5, <1>6, <1>7, <1>8, <1>9, <1>10, <1>11,
           <1>12, <1>13, <1>14, <1>15 DEF TaskStep

----------------------------------------------------------------------------
(* The default client.                                                     *)

\* Outside setup_llm the globals stay, and only an attempt enters "asking".
LEMMA ClientsStay ==
    ASSUME TypeOK, Clients, NEW t \in Tasks,
           UNCHANGED globals,
           NEW point, pc' = [pc EXCEPT ![t] = point],
           point \notin Agent,
           \A u \in Tasks \ {t} : via'[u] = via[u],
           pc[t] # "naming"
    PROVE  Clients'
<1>1. \A u \in Tasks : pc'[u] \in Agent => pc'[u] = pc[u] /\ u # t
  BY DEF TypeOK
<1>2. \A u \in Tasks : pc[u] = "naming" => pc'[u] = "naming"
  BY DEF TypeOK
<1> QED BY <1>1, <1>2 DEF Clients, AloneThroughOwnClient, Agent, globals

LEMMA ClientsStep ==
    ASSUME TypeOK, Kinds, Clients, NEW t \in Tasks, TaskStep(t)
    PROVE  Clients'
<1> USE DEF Goto
<1>1. CASE Start(t) \/ Query(t) \/ Finish(t)
  <2>1. pc[t] \notin Agent
    BY <1>1 DEF Start, Query, Finish, Agent
  <2>2. \E point : point \notin Agent /\ pc' = [pc EXCEPT ![t] = point]
    <3>1. "running" \notin Agent /\ "connecting" \notin Agent /\ "done" \notin Agent
      BY DEF Agent
    <3> QED BY <1>1, <3>1 DEF Start, Query, Finish
  <2> QED BY <1>1, <2>1, <2>2, ClientsStay DEF Start, Query, Finish, Agent
<1>2. CASE Answered(t) \/ AskFails(t)
  <2>1. \E point : point \notin Agent /\ pc' = [pc EXCEPT ![t] = point]
    <3>1. "running" \notin Agent /\ "connecting" \notin Agent /\ "done" \notin Agent
      BY DEF Agent
    <3> QED BY <1>2, <3>1 DEF Answered, AskFails
  <2>2. UNCHANGED globals /\ pc[t] # "naming"
    BY <1>2 DEF Answered, AskFails
  <2>3. \A u \in Tasks \ {t} : via'[u] = via[u]
    BY <1>2 DEF Answered, AskFails, TypeOK
  <2> QED BY <2>1, <2>2, <2>3, ClientsStay
<1>3. CASE MissPool(t) \/ Lock(t) \/ OpenPool(t) \/ Take(t) \/ Release(t)
  <2>1. \E point : point \notin Agent /\ pc' = [pc EXCEPT ![t] = point]
    <3>1. /\ "running" \notin Agent /\ "connecting" \notin Agent /\ "done" \notin Agent
          /\ "locking" \notin Agent /\ "opening" \notin Agent /\ "holding" \notin Agent
      BY DEF Agent
    <3> QED BY <1>3, <3>1 DEF MissPool, Lock, OpenPool, Take, Release, After
  <2>2. UNCHANGED globals /\ pc[t] # "naming"
    BY <1>3 DEF MissPool, Lock, OpenPool, Take, Release
  <2>3. \A u \in Tasks \ {t} : via'[u] = via[u]
    BY <1>3 DEF MissPool, Lock, OpenPool, Take, Release, After, TypeOK
  <2> QED BY <2>1, <2>2, <2>3, ClientsStay
<1>4. CASE AskAgain(t)
  <2>1. \A u \in Tasks : u # t => pc'[u] = pc[u] /\ via'[u] = via[u]
    BY <1>4 DEF AskAgain, TypeOK
  <2>2. pc[t] = "asking" /\ pc'[t] = "sleeping" /\ UNCHANGED globals
    BY <1>4 DEF AskAgain, TypeOK
  <2> QED BY <2>1, <2>2 DEF Clients, AloneThroughOwnClient, Agent, globals
<1>5. CASE Ask(t)
  <2>1. \A u \in Tasks : u # t => pc'[u] = pc[u] /\ via'[u] = via[u]
    BY <1>5 DEF Ask, TypeOK
  <2>2. /\ pc[t] \in {"ready", "sleeping"} /\ pc'[t] = "asking"
        /\ via'[t] = client /\ UNCHANGED globals
    BY <1>5 DEF Ask, TypeOK
  <2> QED BY <2>1, <2>2 DEF Clients, AloneThroughOwnClient, Agent, globals
<1>6. CASE SetDefaultClient(t)
  <2>1. \A u \in Tasks : u # t => pc'[u] = pc[u]
    BY <1>6 DEF SetDefaultClient, TypeOK
  <2>2. /\ pc[t] = "replacing" /\ pc'[t] = "naming" /\ client' = LoopOf(t)
        /\ named' = named /\ met' = met /\ via' = via
    BY <1>6 DEF SetDefaultClient, TypeOK
  <2>3. \A u \in Tasks : (pc[u] \in Agent /\ LoopOf(u) \notin met) => LoopOf(u) = LoopOf(t)
    BY <2>2 DEF Clients, Agent
  <2> QED BY <2>1, <2>2, <2>3 DEF Clients, AloneThroughOwnClient, Agent
<1>7. CASE SetClientLoop(t)
  <2>1. \A u \in Tasks : u # t => pc'[u] = pc[u]
    BY <1>7 DEF SetClientLoop, TypeOK
  <2>2. /\ pc[t] = "naming" /\ pc'[t] = "ready" /\ named' = LoopOf(t)
        /\ client' = client /\ met' = met /\ via' = via
    BY <1>7 DEF SetClientLoop, TypeOK
  <2>3. \A u \in Tasks : (pc[u] \in Agent /\ LoopOf(u) \notin met) => LoopOf(u) = LoopOf(t)
    BY <2>2 DEF Clients, Agent
  <2>4. LoopOf(t) \notin met => client = LoopOf(t)
    BY <2>2 DEF Clients
  <2> QED BY <2>1, <2>2, <2>3, <2>4 DEF Clients, AloneThroughOwnClient, Agent
<1>8. CASE SetupLlm(t)
  <2>1. \A u \in Tasks : u # t => pc'[u] = pc[u]
    BY <1>8 DEF SetupLlm, TypeOK
  <2>2. /\ client' = client /\ named' = named /\ via' = via
        /\ pc'[t] = IF named = LoopOf(t) THEN "ready" ELSE "replacing"
        /\ pc[t] \notin Agent
        /\ LoopOf(t) \in Loops
    BY <1>8 DEF SetupLlm, Begins, TypeOK, Agent, LoopOf, Loops
  <2>3. /\ met \subseteq met'
        /\ \A u \in Tasks : (pc[u] \in Agent /\ LoopOf(u) # LoopOf(t))
              => LoopOf(u) \in met' /\ LoopOf(t) \in met'
    BY <1>8 DEF SetupLlm, Beside
  <2>4. (named = LoopOf(t) /\ LoopOf(t) \notin met') => client = LoopOf(t)
    BY <2>2, <2>3 DEF Clients, Agent
  <2>5. \A u \in Tasks : pc[u] = "naming" => pc'[u] = "naming"
    BY <2>1, <2>2 DEF Agent
  <2>6. \A u, v \in Tasks : (pc'[u] \in Agent /\ pc'[v] \in Agent /\ LoopOf(u) # LoopOf(v))
              => LoopOf(u) \in met'
    BY <2>1, <2>3 DEF Clients
  <2> QED BY <2>1, <2>2, <2>3, <2>4, <2>5, <2>6 DEF Clients, AloneThroughOwnClient, Agent
<1> QED BY <1>1, <1>2, <1>3, <1>4, <1>5, <1>6, <1>7, <1>8 DEF TaskStep
----------------------------------------------------------------------------
(* Connections, threads and the worker's loop.                             *)

LEMMA TakenStep ==
    ASSUME TypeOK, Room, NEW t \in Tasks, TaskStep(t)
    PROVE  taken' = {<<u, 1>> : u \in {v \in Tasks : pc'[v] = "holding"}}
<1> USE DEF Goto, database, Room
<1>1. \A u \in Tasks : u # t => pc'[u] = pc[u]
  BY DEF TaskStep, Start, Query, Finish, SetupLlm, SetDefaultClient, SetClientLoop, Ask,
         Answered, AskAgain, AskFails, MissPool, Lock, OpenPool, Take, Release, After, TypeOK
<1>2. CASE Take(t)
  <2>1. Of(t) = {} /\ pc'[t] = "holding"
    BY <1>2 DEF Take, Of, TypeOK
  <2>2. taken' = taken \cup {<<t, 1>>}
    BY <1>2, <2>1, FS_EmptySet DEF Take
  <2> QED BY <1>1, <2>1, <2>2
<1>3. CASE Release(t)
  <2>1. taken' = {c \in taken : c[1] # t}
    BY <1>3 DEF Release, Of
  <2>2. pc'[t] # "holding"
    BY <1>3 DEF Release, After, TypeOK
  <2> QED BY <1>1, <2>1, <2>2
<1>4. CASE ~Take(t) /\ ~Release(t)
  <2>1. pc[t] # "holding" /\ pc'[t] # "holding" /\ taken' = taken
    BY <1>4 DEF TaskStep, Start, Query, Finish, SetupLlm, Begins, SetDefaultClient,
       SetClientLoop, Ask, Answered, AskAgain, AskFails, MissPool, Lock, OpenPool, TypeOK
  <2> QED BY <1>1, <2>1
<1> QED BY <1>2, <1>3, <1>4

LEMMA ThreadsStep ==
    ASSUME TypeOK, Room, NEW t \in Tasks, TaskStep(t)
    PROVE  IsFiniteSet(OnThreads)' /\ (Cardinality(OnThreads) <= Threads)'
<1> USE DEF Goto
<1>1. CASE Start(t)
  <2>1. OnThreads' = OnThreads \cup {t}
    BY <1>1 DEF Start, OnThreads, TypeOK, Tasks
  <2>2. IsFiniteSet(OnThreads) /\ Cardinality(OnThreads) < Threads
    BY <1>1 DEF Start, Room
  <2>3. Cardinality(OnThreads) \in Nat
    BY <2>2, FS_CardinalityType
  <2> QED BY <2>1, <2>2, <2>3, FS_AddElement, SizesAssumption
<1>2. CASE ~Start(t)
  <2>1. t \in Jobs \cup Queries => pc[t] \notin {"queued", "done"}
    BY <1>2, NamesAssumption DEF TaskStep, Query, Finish, SetupLlm, Begins, SetDefaultClient,
       SetClientLoop, Ask, Answered, AskAgain, AskFails, MissPool, Lock, OpenPool, Take, Release
  <2>2. \A u \in Tasks : u # t => pc'[u] = pc[u]
    BY DEF TaskStep, Start, Query, Finish, SetupLlm, SetDefaultClient, SetClientLoop, Ask,
       Answered, AskAgain, AskFails, MissPool, Lock, OpenPool, Take, Release, After, TypeOK
  <2>3. OnThreads' \in SUBSET OnThreads
    BY <2>1, <2>2 DEF OnThreads, Tasks
  <2>4. IsFiniteSet(OnThreads) /\ Cardinality(OnThreads) <= Threads
    BY DEF Room
  <2>5. IsFiniteSet(OnThreads') /\ Cardinality(OnThreads') <= Cardinality(OnThreads)
    BY <2>3, <2>4, FS_Subset
  <2>6. Cardinality(OnThreads) \in Nat /\ Cardinality(OnThreads') \in Nat
    BY <2>4, <2>5, FS_CardinalityType
  <2> QED BY <2>4, <2>5, <2>6, SizesAssumption
<1> QED BY <1>1, <1>2

LEMMA LoopStep ==
    ASSUME TypeOK, Room, NEW t \in Tasks, TaskStep(t)
    PROVE  \A u, v \in Calls : (u # v /\ pc'[u] \notin Suspended) => pc'[v] \in Suspended
<1>1. \A u \in Tasks : u # t => pc'[u] = pc[u]
  BY DEF TaskStep, Start, Query, Finish, SetupLlm, SetDefaultClient, SetClientLoop, Ask,
     Answered, AskAgain, AskFails, MissPool, Lock, OpenPool, Take, Release, After, TypeOK, Goto
<1>2. t \in Calls => pc[t] \notin Suspended \/ OnLoop(t)
  BY NamesAssumption DEF TaskStep, Start, Query, Finish, SetupLlm, Begins, SetDefaultClient,
     SetClientLoop, Ask, Answered, AskAgain, AskFails, MissPool, Lock, OpenPool, Take, Release,
     Suspended
<1>3. t \in Calls => \A u \in Calls \ {t} : pc[u] \in Suspended
  BY <1>2 DEF Room, OnLoop
<1> QED BY <1>1, <1>3 DEF Room, Tasks

----------------------------------------------------------------------------
LEMMA NextIInv == ASSUME IInv, [Next]_vars PROVE IInv'
<1>1. CASE UNCHANGED vars
  <2> USE <1>1 DEF vars
  <2>1. TypeOK' /\ OnePool' /\ Kinds'
    BY DEF IInv, TypeOK, OnePool, Kinds
  <2>2. Clients'
    BY DEF IInv, Clients, AloneThroughOwnClient
  <2>3. Room'
    BY DEF IInv, Room, OnThreads
  <2> QED BY <2>1, <2>2, <2>3 DEF IInv
<1>2. ASSUME NEW t \in Tasks, TaskStep(t)
      PROVE  IInv'
  <2>1. TypeOK' /\ OnePool' /\ Kinds'
    BY <1>2, TypeStep DEF IInv
  <2>2. Clients'
    BY <1>2, ClientsStep DEF IInv
  <2>3. Room'
    BY <1>2, TakenStep, ThreadsStep, LoopStep DEF IInv, Room
  <2> QED BY <2>1, <2>2, <2>3 DEF IInv
<1> QED BY <1>1, <1>2 DEF Next

\* A connection that is asked for is there: of the holders the threads allow
\* Threads, less one when a thread asks, and the worker's loop one when a thread asks.
LEMMA RoomForOne == IInv => NobodyWaits
<1> SUFFICES ASSUME IInv, NEW t \in Tasks, pc[t] = "connecting"
             PROVE  Cardinality(taken) < PoolMax
  BY DEF NobodyWaits
<1> DEFINE H == {u \in Tasks : pc[u] = "holding"}
<1>1. IsFiniteSet(OnThreads) /\ Cardinality(OnThreads) <= Threads
  BY DEF IInv, Room
<1>2. Cardinality(OnThreads) \in Nat
  BY <1>1, FS_CardinalityType
<1>3. IsFiniteSet(H) /\ Cardinality(H) <= Threads
  <2>1. CASE t \in Calls
    <3>1. H \in SUBSET OnThreads
      BY <2>1 DEF IInv, Room, OnThreads, Tasks, Suspended
    <3>2. IsFiniteSet(H) /\ Cardinality(H) <= Cardinality(OnThreads)
      BY <1>1, <3>1, FS_Subset
    <3>3. Cardinality(H) \in Nat
      BY <3>2, FS_CardinalityType
    <3> QED BY <1>1, <1>2, <3>2, <3>3, SizesAssumption
  <2>2. CASE t \notin Calls
    <3> DEFINE S == OnThreads \ {t}
    <3>1. t \in OnThreads
      BY <2>2 DEF OnThreads, Tasks
    <3>2. IsFiniteSet(S) /\ Cardinality(S) = Cardinality(OnThreads) - 1
      BY <1>1, <3>1, FS_RemoveElement
    <3>3. PICK c : H \cap Calls \subseteq {c}
      <4>1. \A u, v \in H \cap Calls : u = v
        BY DEF IInv, Room, Suspended
      <4> QED BY <4>1
    <3>4. H \in SUBSET (S \cup {c})
      BY <3>3 DEF OnThreads, Tasks
    <3>5. /\ IsFiniteSet(S \cup {c})
          /\ Cardinality(S \cup {c}) = IF c \in S THEN Cardinality(S) ELSE Cardinality(S) + 1
      BY <3>2, FS_AddElement
    <3>6. IsFiniteSet(H) /\ Cardinality(H) <= Cardinality(S \cup {c})
      BY <3>4, <3>5, FS_Subset
    <3>7. Cardinality(H) \in Nat /\ Cardinality(S) \in Nat /\ Cardinality(S \cup {c}) \in Nat
      BY <3>2, <3>5, <3>6, FS_CardinalityType
    <3> HIDE DEF H, S
    <3> QED BY <1>1, <1>2, <3>2, <3>5, <3>6, <3>7, SizesAssumption
  <2> QED BY <2>1, <2>2
<1>4. Cardinality(taken) <= Cardinality(H)
  <2>1. taken = {<<u, 1>> : u \in H}
    BY DEF IInv, Room
  <2>2. [u \in H |-> <<u, 1>>] \in Surjection(H, taken)
    BY <2>1 DEF Surjection
  <2> QED BY <1>3, <2>2, FS_Surjection
<1>5. Cardinality(taken) \in Nat /\ Cardinality(H) \in Nat
  <2>1. taken = {<<u, 1>> : u \in H}
    BY DEF IInv, Room
  <2>2. [u \in H |-> <<u, 1>>] \in Surjection(H, taken)
    BY <2>1 DEF Surjection
  <2>3. IsFiniteSet(taken)
    BY <1>3, <2>2, FS_Surjection
  <2> QED BY <1>3, <2>3, FS_CardinalityType
<1> HIDE DEF H
<1> QED BY <1>3, <1>4, <1>5, SizesAssumption, PoolAssumption

----------------------------------------------------------------------------
LEMMA IInvAlways == Spec => []IInv
<1>1. Init => IInv
  BY InitIInv
<1>2. IInv /\ [Next]_vars => IInv'
  BY NextIInv
<1> QED BY <1>1, <1>2, PTL DEF Spec

\* Every variable keeps a value of its kind (the locals and globals of client.py and db.py).
THEOREM TypeCorrect == Spec => []TypeOK
<1>1. IInv => TypeOK
  BY DEF IInv
<1> QED BY <1>1, IInvAlways, PTL

\* However many activities find no pool at once, one is opened (pool).
THEOREM OnePoolCorrect == Spec => []OnePool
<1>1. IInv => OnePool
  BY DEF IInv
<1> QED BY <1>1, IInvAlways, PTL

\* A loop that never calls the model beside another asks through its own client,
\* whatever loops came before (setup_llm, run_agent).
THEOREM AloneCorrect == Spec => []AloneThroughOwnClient
<1>1. IInv => AloneThroughOwnClient
  BY DEF IInv, Clients
<1> QED BY <1>1, IInvAlways, PTL

\* With a pool larger than the number of threads nobody waits for a connection,
\* the worker's loop included (connection, _account).
THEOREM NobodyWaitsCorrect == Spec => []NobodyWaits
<1> QED BY RoomForOne, IInvAlways, PTL
============================================================================
