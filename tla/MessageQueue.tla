---------------------------- MODULE MessageQueue ----------------------------
(* MessageQueue (src/ipc/messagequeue.cpp) as the broker uses it           *)
(* (src/proc/broker.cpp): any thread writes requests of one length, the    *)
(* broker reads and runs them.  A section between acquire() and release()  *)
(* of m_lock is a critical section and is one step; a thread that has to   *)
(* wait enters the event's list in that section, so it sleeps from the     *)
(* release on.                                                             *)
EXTENDS Integers, Sequences, FiniteSets

CONSTANTS MqWriters, MqLen, MqMaxWaiting, MqRequests

MqBroker == "broker"

ASSUME MqAssumption ==
    /\ MqWriters # {} /\ MqBroker \notin MqWriters
    /\ MqLen \in Nat \ {0} /\ MqRequests \in Nat \ {0} /\ MqMaxWaiting \in Nat

VARIABLES mqFree,     \* m_free
          mqBuffer,   \* m_circ_buffer, bytes: <<"header" or "data", request>>
          mqWaiting,  \* threads on the event's list
          mqTodo,     \* requests a writer has not made yet
          mqRun       \* requests the broker ran

mqVars == <<mqFree, mqBuffer, mqWaiting, mqTodo, mqRun>>

MqHeader == 2       \* sizeof(message_header)
TotalLen == MqLen + MqHeader

MqInit ==
    /\ mqFree = MqMaxWaiting
    /\ mqBuffer = <<>> /\ mqWaiting = {} /\ mqRun = <<>>
    /\ mqTodo = [w \in MqWriters |-> MqRequests]

\* Mutant: raise() wakes one waiter.
RaisedOne(waiting) == IF waiting = {} THEN {} ELSE waiting \ {CHOOSE t \in waiting : TRUE}
\* Event::raise(): everybody on the list runs again.
Raised(waiting) == {}

\* The header and the payload.
Message(r) == [i \in 1 .. TotalLen |-> <<IF i <= MqHeader THEN "header" ELSE "data", r>>]

WriteMessage(w) ==
    LET r == <<w, mqTodo[w]>>
    IN  /\ w \notin mqWaiting /\ mqTodo[w] > 0
        /\ \/ /\ mqFree < TotalLen
              /\ mqWaiting' = mqWaiting \cup {w}
              /\ UNCHANGED <<mqFree, mqBuffer, mqTodo, mqRun>>
           \/ /\ mqFree >= TotalLen
              /\ mqFree' = mqFree - TotalLen
              /\ mqBuffer' = mqBuffer \o Message(r)
              /\ mqWaiting' = Raised(mqWaiting)
              /\ mqTodo' = [mqTodo EXCEPT ![w] = @ - 1]
              /\ UNCHANGED mqRun

\* readMessage() and the call of what was read.
ReadMessage ==
    /\ MqBroker \notin mqWaiting
    /\ \/ /\ MqMaxWaiting - mqFree < TotalLen
          /\ mqWaiting' = mqWaiting \cup {MqBroker}
          /\ UNCHANGED <<mqFree, mqBuffer, mqTodo, mqRun>>
       \/ /\ MqMaxWaiting - mqFree >= TotalLen
          /\ mqFree' = mqFree + TotalLen
          /\ mqBuffer' = SubSeq(mqBuffer, TotalLen + 1, Len(mqBuffer))
          /\ mqWaiting' = Raised(mqWaiting)
          /\ mqRun' = Append(mqRun, SubSeq(mqBuffer, MqHeader + 1, TotalLen))
          /\ UNCHANGED mqTodo

MqNext == ReadMessage \/ \E w \in MqWriters : WriteMessage(w)

MqSpec == MqInit /\ [][MqNext]_mqVars

----------------------------------------------------------------------------
(* Properties.                                                             *)

\* What the broker runs is what a writer asked for, whole, each request once
\* and those of a writer in their order (ipc/messagequeue.cpp:31-42, 75-76).
RequestsWhole ==
    /\ \A i \in DOMAIN mqRun : \E r \in MqWriters \X (1 .. MqRequests) :
         mqRun[i] = [j \in 1 .. MqLen |-> <<"data", r>>]
    /\ \A i, j \in DOMAIN mqRun :
         i < j /\ mqRun[i][1][2][1] = mqRun[j][1][2][1] => mqRun[i][1][2][2] > mqRun[j][1][2][2]

\* Nobody sleeps on the event while there is what they wait for: a writer
\* room, the broker a message (ipc/messagequeue.cpp:19-26, 46, 59-66, 78).
SleepersHaveReason ==
    /\ MqBroker \in mqWaiting => Len(mqBuffer) < TotalLen
    /\ \A w \in MqWriters \cap mqWaiting : mqFree < TotalLen

\* Every request is taken as it was sent, and none is slept on
\* (ipc/messagequeue.cpp:11-80).
RequestsServed == RequestsWhole /\ SleepersHaveReason
=============================================================================
